\* Two cores that steal from each other, and queues too small for the
\* coroutines, so that tasks are dropped.
CONSTANTS
    main = main
    c1 = c1
    c2 = c2
    x1 = x1
    None = None
    NumCores = 2
    Coroutines <- ThreeCoroutines
    Main = main
    Externs <- OneExtern
    Capacity = 2
    StealMax = 2
SPECIFICATION Spec
SYMMETRY Symmetric
INVARIANTS TypeOK NoLostWakeup OnePlace
PROPERTY ImplementsLifecycle
