CONSTANTS
    a1 = a1
    w1 = w1
    w2 = w2
    Actions <- OneAction
    Modes <- BothModes
    Workers <- TwoWorkers
    MaxReviews = 0
    MaxRefiles = 1
    Faults <- CallFaults
    MaxFaults = 2
SPECIFICATION FairSpec
PROPERTIES
    SentIsReconciled
CHECK_DEADLOCK FALSE
