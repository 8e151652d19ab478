------------------------------ MODULE MCChannel -------------------------------
(* Model checking of Channel on a small instance. *)
EXTENDS Channel

CONSTANTS w1, w2, x1, x2

TwoWriters == {w1, w2}
TwoExecutors == {x1, x2}
=============================================================================
