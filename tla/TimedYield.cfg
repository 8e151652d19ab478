\* Two coroutines wait once each, for timers of which there may be too few.
CONSTANTS
    e1 = e1
    e2 = e2
    c1 = c1
    c2 = c2
    b1 = b1
    b2 = b2
    None = None
    Slots = 2
    Executors <- TwoExecutors
    Coroutines <- TwoCoroutines
    Buffers <- TwoBuffers
    Timeouts <- NowOrNext
    Waits = 1
SPECIFICATION FairSpec
CHECK_DEADLOCK FALSE
INVARIANTS
    TypeOK
    FiresWhenDue
    BuffersHaveOneUser
PROPERTIES
    KeepsPromise
    WaitEnds
    PoolRefills
