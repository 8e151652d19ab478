---------------------------- MODULE MCAtomicQueue -----------------------------
(* Model checking of AtomicQueue on small instances. *)
EXTENDS AtomicQueue, TLC

CONSTANTS t1, t2, t3, t4, x1, x2, x3

FourThreads == {t1, t2, t3, t4}
ThreeItems == {x1, x2, x3}

\* Threads are alike, and so are elements: who holds which at first is chosen.
Given == (t1 :> x1) @@ (t2 :> x2) @@ (t3 :> x3) @@ (t4 :> None)
MCInit == Init /\ item = Given
MCSpec == MCInit /\ [][Next]_vars /\ Fairness
=============================================================================
