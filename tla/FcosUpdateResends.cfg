CONSTANTS
    i1 = i1
    b1 = b1
    b2 = b2
    r1 = r1
    r2 = r2
    r3 = r3
    s1 = s1
    s2 = s2
    Items <- OneItem
    Batches <- OneBatch
    Recipients <- OneRecipient
    Slots <- TwoSlots
    GroupSize = 3
    MaxRevision = 2
    MaxSends = 4
    MaxFaults = 0
SPECIFICATION Spec
INVARIANTS
    SecondMailIsConfirmed
CHECK_DEADLOCK FALSE
