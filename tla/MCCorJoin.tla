------------------------------ MODULE MCCorJoin ------------------------------
(* Model checking of CorJoin on a small instance. *)
EXTENDS CorJoin

CONSTANTS e1, e2, j1, j2, j3

TwoExecutors == {e1, e2}
ThreeJoiners == {j1, j2, j3}
=============================================================================
