\* A timeout that is taken for success.
CONSTANTS
    Part = 2
    Room = 3
SPECIFICATION Spec
CHECK_DEADLOCK FALSE
INVARIANT TimeoutIsNoSuccess
