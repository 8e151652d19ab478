\* Three coroutines on two cores that steal from each other, without the timeout.
CONSTANTS
    main = main
    c1 = c1
    c2 = c2
    x1 = x1
    None = None
    NumCores = 2
    Coroutines <- ThreeCoroutines
    Main = main
    Externs = {}
    Capacity = 2
    StealMax = 2
SPECIFICATION FairSpec
PROPERTIES WakesUp ReadyRuns
