CONSTANTS
    a1 = a1
    w1 = w1
    w2 = w2
    Actions <- OneAction
    Modes <- BothModes
    Workers <- TwoWorkers
    MaxReviews = 1
    MaxRefiles = 1
    Faults <- FaultKinds
    MaxFaults = 2
SYMMETRY Symmetry
SPECIFICATION Spec
INVARIANTS
    TypeOK
    OnePostPerReview
    ConfirmedMeansSent
PROPERTIES
    ImplementsDelivery
CHECK_DEADLOCK FALSE
