CONSTANTS
    r1 = r1
    r2 = r2
    Base = Base
    Outsider = Outsider
    Releases <- TwoReleases
    Gated <- First
    Deferred <- First
    MaxJobs = 4
    MaxOutside = 1
    Faults <- FaultKinds
    MaxFaults = 1
SPECIFICATION Spec
INVARIANTS
    TypeOK
    SubmitOnce
    OneInDoubt
    OnlyAcceptedIsLive
PROPERTIES
    OnlyOwnBaseline
CHECK_DEADLOCK FALSE
