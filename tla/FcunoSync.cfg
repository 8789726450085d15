CONSTANTS
    a1 = a1
    a2 = a2
    d1 = d1
    d2 = d2
    v1 = v1
    v2 = v2
    NoAccount = NoAccount
    Revisions <- TwoRevisions
    Permitted <- First
    Credential <- Rising
    RevokedBefore <- Never
    Accounts <- TwoAccounts
    Deliveries <- TwoDeliveries
    Visits <- TwoVisits
    MaxDeliveries = 3
    Time <- OneInstant
SYMMETRY Symmetry
SPECIFICATION Spec
INVARIANTS
    TypeOK
    OnlyOwnerIsProjected
PROPERTIES
    ImplementsRegister
CHECK_DEADLOCK FALSE
