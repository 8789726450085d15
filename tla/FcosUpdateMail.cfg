CONSTANTS
    i1 = i1
    b1 = b1
    b2 = b2
    r1 = r1
    r2 = r2
    r3 = r3
    s1 = s1
    s2 = s2
    Items <- OneItem
    Batches <- TwoBatches
    Recipients <- TwoRecipients
    Slots <- TwoSlots
    GroupSize = 3
    MaxRevision = 3
    MaxSends = 2
    MaxFaults = 1
SYMMETRY Symmetry
SPECIFICATION Spec
INVARIANTS
    TypeOK
    SentIsAccepted
    MailedIsReviewed
    OneMailPerItem
    FailedIsUnsent
CHECK_DEADLOCK FALSE
