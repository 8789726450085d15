CONSTANTS
    a1 = a1
    a2 = a2
    d1 = d1
    d2 = d2
    v1 = v1
    v2 = v2
    NoAccount = NoAccount
    Revisions <- TwoRevisions
    Permitted <- TwoRevisions
    Credential <- Rising
    RevokedBefore <- Never
    Accounts <- OneAccount
    Deliveries <- TwoDeliveries
    Visits <- OneVisit
    MaxDeliveries = 2
    Time <- OneInstant
SPECIFICATION Spec
INVARIANTS
    RepeatedIsNoConflict
CHECK_DEADLOCK FALSE
