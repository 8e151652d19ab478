------------------------- MODULE CoroutineLifecycle -------------------------
(***************************************************************************)
(* What the coroutine runtime promises its users, with no queue, executor  *)
(* program or notification in sight: a coroutine is created once, runs on  *)
(* at most one executor at a time, leaves the executor by yielding, by     *)
(* waiting for an external operation or by returning, and is run again     *)
(* only after it was put back in line.  An executor runs one coroutine at  *)
(* a time.  A coroutine can be lost, but only while it is in line or on    *)
(* its way there (every queue of the runtime is bounded, and a full queue  *)
(* drops what it is given).                                                *)
(***************************************************************************)
EXTENDS FiniteSets

CONSTANTS
    Coroutines,     \* the coroutines of the program
    Cores,          \* the executors
    Main,           \* the coroutine that exists before the runtime starts
    None            \* no coroutine

VARIABLES
    life,           \* the state of each coroutine
    runs            \* the coroutine each executor runs, or None

vars == <<life, runs>>

Init ==
    /\ life = [c \in Coroutines |-> IF c = Main THEN "ready" ELSE "unborn"]
    /\ runs = [e \in Cores |-> None]

Become(c, from, to) ==
    /\ life[c] = from
    /\ life' = [life EXCEPT ![c] = to]

\* A coroutine is created and is in line from then on.
Create(c) == Become(c, "unborn", "ready") /\ UNCHANGED runs

\* An idle executor takes a coroutine that is in line.
Dispatch(e, c) ==
    /\ runs[e] = None
    /\ Become(c, "ready", "running")
    /\ runs' = [runs EXCEPT ![e] = c]

\* A coroutine gives its executor back: it yields, starts to wait, or returns.
Leave(e, to) ==
    /\ runs[e] # None
    /\ Become(runs[e], "running", to)
    /\ runs' = [runs EXCEPT ![e] = None]

\* What a coroutine was waiting for happens.
Resume(c) == Become(c, "waiting", "ready") /\ UNCHANGED runs

\* A full queue drops the coroutine.
Lose(c) == Become(c, "ready", "lost") /\ UNCHANGED runs
LoseResumed(c) == Become(c, "waiting", "lost") /\ UNCHANGED runs

Next ==
    \/ \E c \in Coroutines : Create(c) \/ Resume(c) \/ Lose(c) \/ LoseResumed(c)
    \/ \E e \in Cores, c \in Coroutines : Dispatch(e, c)
    \/ \E e \in Cores, to \in {"ready", "waiting", "done", "lost"} : Leave(e, to)

Spec == Init /\ [][Next]_vars
=============================================================================
