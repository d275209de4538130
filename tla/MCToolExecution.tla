-------------------------- MODULE MCToolExecution --------------------------
(* Small instances of ToolExecution. *)
EXTENDS ToolExecution

CONSTANTS r1, w1, w2, open, gated, closed, cmdA, cmdB

\* One tool node; its two callers race for it.
OneNode == {1}
OneOf   == [n \in OneNode |-> r1]
OneRetry == [w \in Worker |-> 1]

\* Both callers run the node's own command, or one overrides it.
SameCommand  == [w \in Worker |-> cmdA]
OtherCommand == [w \in Worker |-> IF w = w1 THEN cmdA ELSE cmdB]
=============================================================================
