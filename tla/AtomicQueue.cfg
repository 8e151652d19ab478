\* All four operations; the counters wrap after two claims.
CONSTANTS
    t1 = t1
    t2 = t2
    t3 = t3
    t4 = t4
    x1 = x1
    x2 = x2
    x3 = x3
    None = None
    Threads <- FourThreads
    Items <- ThreeItems
    Size = 2
    Word = 16
    Start = 14
    MaxClaims = 6
SPECIFICATION MCSpec
CHECK_DEADLOCK FALSE
INVARIANTS TypeOK SlotExclusive Conservation ClaimsFit
PROPERTIES FailsForCause ClaimServed
