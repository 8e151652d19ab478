\* A coroutine that may block for ever, a task that cannot be resumed, and an
\* executor to spare.
CONSTANTS
    MaxExecutors = 2
    Coroutines = {c1}
    Leftovers = {l1}
SPECIFICATION FairSpec
CHECK_DEADLOCK FALSE
INVARIANTS TypeOK HandlersAreNewest OneRunner
PROPERTIES QueueServed
