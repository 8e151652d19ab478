\* Two executors: the target ends on one while joiners push on the other.
CONSTANTS
    e1 = e1
    e2 = e2
    j1 = j1
    j2 = j2
    j3 = j3
    Target = target
    None = None
    Executors <- TwoExecutors
    Joiners <- ThreeJoiners
    WaitSize = 2
    Budget = 2
SPECIFICATION FairSpec
CHECK_DEADLOCK FALSE
INVARIANTS
    TypeOK
    OneContinuation
    NoStrandedJoiner
PROPERTIES
    ImplementsLatch
    JoinReturns
