-------------------------------- MODULE Latch --------------------------------
(***************************************************************************)
(* What join() promises, with no executor or continuation in sight: the    *)
(* coroutine that is joined is a latch that opens once, and a joiner that  *)
(* waits for it goes on only when it is open.  Whoever comes before the    *)
(* coroutine has started does not wait.  There is room for so many         *)
(* joiners; one that finds no room is lost.                                *)
(***************************************************************************)
CONSTANT Joiners

VARIABLES
    latch,          \* "new", "closed" (the coroutine runs) or "open" (it has returned)
    joiner          \* "before", "waiting", "through" or "lost"

vars == <<latch, joiner>>

Init ==
    /\ latch = "new"
    /\ joiner = [j \in Joiners |-> "before"]

Close == latch = "new" /\ latch' = "closed" /\ UNCHANGED joiner
Open  == latch = "closed" /\ latch' = "open" /\ UNCHANGED joiner

Step(j, from, to) ==
    /\ joiner[j] = from
    /\ joiner' = [joiner EXCEPT ![j] = to]
    /\ UNCHANGED latch

Early(j) == latch = "new" /\ Step(j, "before", "through")
Wait(j)  == latch # "new" /\ Step(j, "before", "waiting")
Pass(j)  == latch = "open" /\ Step(j, "waiting", "through")
Lose(j)  == Step(j, "waiting", "lost")

Next ==
    \/ Close \/ Open
    \/ \E j \in Joiners : Early(j) \/ Wait(j) \/ Pass(j) \/ Lose(j)

Spec == Init /\ [][Next]_vars
=============================================================================
