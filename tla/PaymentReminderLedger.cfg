CONSTANTS
    b1 = b1
    b2 = b2
    q1 = q1
    q2 = q2
    q3 = q3
    Batches <- TwoBatches
    Requests <- ThreeRequests
    Runners = 3
    MaxAttempts = 4
    MaxFaults = 2
SYMMETRY Symmetry
SPECIFICATION Spec
INVARIANTS
    TypeOK
    OneSenderPerBatch
    RepeatedMailWasUnrecorded
    CompletedIsMailed
CHECK_DEADLOCK FALSE
