--------------------------- MODULE MCWorkflowRun ---------------------------
(* Instances of WorkflowRun for TLC. *)
EXTENDS WorkflowRun

CONSTANTS r1, r2, w1, w2, w3

\* One run, a chain with a fork:  1 -> 2 -> 4,  1 -> 3 (an agent step).
OneRunNode  == 1 .. 4
OneRunOf    == [n \in OneRunNode |-> r1]
OneRunEdge  == {<<1, 2>>, <<2, 4>>, <<1, 3>>}
OneRetry    == [w \in Worker |-> IF w = w1 THEN 1 ELSE 0]

\* Two runs of agent steps, two in the first and one in the second.
TwoRunNode  == 1 .. 3
TwoRunOf    == [n \in TwoRunNode |-> IF n <= 2 THEN r1 ELSE r2]
NoRetry     == [w \in Worker |-> 0]
=============================================================================
