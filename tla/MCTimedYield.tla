----------------------------- MODULE MCTimedYield ------------------------------
(* Model checking of TimedYield on small instances. *)
EXTENDS TimedYield

CONSTANTS e1, e2, c1, c2, b1, b2

OneExecutor == {e1}
TwoExecutors == {e1, e2}
OneCoroutine == {c1}
TwoCoroutines == {c1, c2}
OneBuffer == {b1}
TwoBuffers == {b1, b2}
NowOrNext == [c \in Coroutines |-> IF c = c1 THEN {0, 1} ELSE {1}]
=============================================================================
