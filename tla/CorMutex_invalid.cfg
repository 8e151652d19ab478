\* Two executors: the error that lock() logs is reached.
CONSTANTS
    e1 = e1
    e2 = e2
    k1 = k1
    k2 = k2
    k3 = k3
    None = None
    Executors <- TwoExecutors
    Coroutines <- ThreeCoroutines
    WaitSize = 3
    Budget <- TwoOrOne
SPECIFICATION Spec
CHECK_DEADLOCK FALSE
INVARIANT
    CallerStaysValid
