CONSTANTS
    r1 = r1
    w1 = w1
    w2 = w2
    Docs <- OneDoc
    CreditNotes <- NoDocs
    SupportKey <- Distinct
    Runs <- OneRun
    Workers <- OneWorker
    BatchSize = 2
    RpcHasCatch = FALSE
    MaxXero = 2
    MaxRevision = 5
    MaxEdits = 0
    Faults <- ReadFaults
    MaxFaults = 1
SPECIFICATION FairSpec
PROPERTY
    StartedRunSettles
CHECK_DEADLOCK FALSE
