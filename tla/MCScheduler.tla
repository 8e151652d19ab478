---------------------------- MODULE MCScheduler -----------------------------
(* Model checking of Scheduler on small instances. *)
EXTENDS Scheduler, TLC

CONSTANTS main, c1, c2, x1

ThreeCoroutines == {main, c1, c2}
OneExtern == {x1}

\* Coroutines other than main are created in any order, by the same code.
Symmetric == Permutations(Coroutines \ {main})
=============================================================================
