CONSTANTS
    b1 = b1
    b2 = b2
    q1 = q1
    q2 = q2
    q3 = q3
    Batches <- TwoBatches
    Requests <- TwoRequests
    Runners = 3
    MaxAttempts = 2
    MaxFaults = 1
SPECIFICATION FairSpec
PROPERTIES
    WarnedIsRepaired
CHECK_DEADLOCK FALSE
