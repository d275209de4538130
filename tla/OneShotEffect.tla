--------------------------- MODULE OneShotEffect ---------------------------
(***************************************************************************)
(* What the tool receipt promises to the operator, for each node: its      *)
(* effect happens at most once; an effect that was submitted for approval  *)
(* happens only after it was granted, and a refused one never happens.     *)
(* There is no way back: a spent receipt is not returned, whether or not   *)
(* the effect it was spent on was performed.                               *)
(***************************************************************************)
CONSTANT Node

VARIABLE phase

Phase == {"open", "waiting", "granted", "refused", "spent", "performed"}

Init == phase = [n \in Node |-> "open"]

Move(n, from, to) ==
    /\ phase[n] = from
    /\ phase' = [phase EXCEPT ![n] = to]

Submit(n)  == Move(n, "open", "waiting")
Grant(n)   == Move(n, "waiting", "granted")
Refuse(n)  == Move(n, "waiting", "refused")
Spend(n)   == Move(n, "open", "spent") \/ Move(n, "granted", "spent")
Perform(n) == Move(n, "spent", "performed")

Next == \E n \in Node :
    Submit(n) \/ Grant(n) \/ Refuse(n) \/ Spend(n) \/ Perform(n)

Spec == Init /\ [][Next]_phase
=============================================================================
