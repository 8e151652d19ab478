\* Two executors, so that helpers and unlockers race, and a wait queue that
\* can fill.
CONSTANTS
    e1 = e1
    e2 = e2
    k1 = k1
    k2 = k2
    k3 = k3
    None = None
    Executors <- TwoExecutors
    Coroutines <- ThreeCoroutines
    WaitSize = 2
    Budget <- TwoOrOne
SPECIFICATION FairSpec
CHECK_DEADLOCK FALSE
INVARIANTS TypeOK MutualExclusion NoStrandedWaiter LockHasOwner
PROPERTY AllDone
