\* Two writers, whose messages both fit in, and the executors that the reader
\* leaves and comes back on.
CONSTANTS
    w1 = w1
    w2 = w2
    x1 = x1
    x2 = x2
    None = None
    Writers <- TwoWriters
    Executors <- TwoExecutors
    Capacity = 2
    InLine = 1
SPECIFICATION FairSpec
CHECK_DEADLOCK FALSE
INVARIANTS
    TypeOK
    NoLostWakeup
    OneResumption
PROPERTY ReadReturns
