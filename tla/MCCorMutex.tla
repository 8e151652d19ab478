----------------------------- MODULE MCCorMutex ------------------------------
(* Model checking of CorMutex on small instances. *)
EXTENDS CorMutex

CONSTANTS e1, e2, k1, k2, k3

TwoExecutors == {e1, e2}
ThreeCoroutines == {k1, k2, k3}

TwoOrOne == [c \in Coroutines |-> IF c = k3 THEN 1 ELSE 2]
=============================================================================
