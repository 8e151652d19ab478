------------------------------ MODULE TimedWait ------------------------------
(***************************************************************************)
(* What a yield with a timeout promises: a coroutine starts an operation   *)
(* and waits; the wait ends once, with the operation's own result after    *)
(* the operation has ended, or with a timeout after more ticks than its    *)
(* interval.  It fails at once when no timer is to be had.                 *)
(***************************************************************************)
EXTENDS Integers

CONSTANTS Coroutines, Intervals, MaxTicks

VARIABLES
    state,          \* "user", "waiting" or how the last wait ended
    interval,       \* the timeout of the wait, in ticks
    finished,       \* the operation has ended
    ticks           \* the ticks that the wait has lasted, up to MaxTicks

vars == <<state, interval, finished, ticks>>

Init ==
    /\ state = [c \in Coroutines |-> "user"]
    /\ interval \in [Coroutines -> Intervals]
    /\ finished = [c \in Coroutines |-> FALSE]
    /\ ticks = [c \in Coroutines |-> 0]

Begin(c) ==
    /\ state[c] # "waiting"
    /\ state' = [state EXCEPT ![c] = "waiting"]
    /\ \E i \in Intervals : interval' = [interval EXCEPT ![c] = i]
    /\ finished' = [finished EXCEPT ![c] = FALSE]
    /\ ticks' = [ticks EXCEPT ![c] = 0]

Finish(c) ==
    /\ finished' = [finished EXCEPT ![c] = TRUE]
    /\ UNCHANGED <<state, interval, ticks>>

\* Time passes, not for a wait that has yet to start its timer.
Elapse ==
    /\ \E W \in SUBSET Coroutines :
        ticks' = [c \in Coroutines |->
            IF c \in W /\ ticks[c] < MaxTicks THEN ticks[c] + 1 ELSE ticks[c]]
    /\ UNCHANGED <<state, interval, finished>>

End(c, outcome) ==
    /\ state[c] = "waiting"
    /\ state' = [state EXCEPT ![c] = outcome]
    /\ UNCHANGED <<interval, finished, ticks>>

Result(c)  == finished[c] /\ End(c, "result")
Timeout(c) == ticks[c] > interval[c] /\ End(c, "timeout")
Fail(c)    == ~finished[c] /\ ticks[c] = 0 /\ End(c, "error")

Next ==
    \/ Elapse
    \/ \E c \in Coroutines : Begin(c) \/ Finish(c) \/ Result(c) \/ Timeout(c) \/ Fail(c)

Spec == Init /\ [][Next]_vars
=============================================================================
