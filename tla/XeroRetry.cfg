CONSTANTS
    r1 = r1
    w1 = w1
    w2 = w2
    Docs <- TwoDocs
    CreditNotes <- NoDocs
    SupportKey <- Alike
    Runs <- OneRun
    Workers <- TwoWorkers
    BatchSize = 2
    RpcHasCatch = TRUE
    MaxXero = 3
    MaxRevision = 5
    MaxEdits = 1
    Faults <- FaultKinds
    MaxFaults = 2
SYMMETRY Symmetry
SPECIFICATION Spec
INVARIANTS
    TypeOK
    OneDraftPerRow
    SingleWriter
    CompletedIsComplete
    CheckpointHasIdentity
    ReviewedTargets
CHECK_DEADLOCK FALSE
