\* One coroutine waits twice: what the first wait left behind meets the second.
CONSTANTS
    e1 = e1
    e2 = e2
    c1 = c1
    c2 = c2
    b1 = b1
    b2 = b2
    None = None
    Slots = 3
    Executors <- OneExecutor
    Coroutines <- OneCoroutine
    Buffers <- TwoBuffers
    Timeouts <- NowOrNext
    Waits = 2
SPECIFICATION Spec
CHECK_DEADLOCK FALSE
INVARIANT TimeoutIsTrue
