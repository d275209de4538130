--------------------------- MODULE RecursiveTree ---------------------------
(***************************************************************************)
(* A recursive execution tree (engine/src/recursive_execution.rs) as the   *)
(* store keeps it beside the rows of its workflow run                      *)
(* (storage/local_product_store/recursive_execution.rs): admission of      *)
(* children by compare-and-swap, leases, settlement with the usage the     *)
(* agent measured, late results, recovery of stale leases, operator pause, *)
(* resume and kill.                                                        *)
(*                                                                         *)
(* One agent action is committed per workflow node (agent_action_receipts  *)
(* has the key run, node) and a proposal names the proposing node as the   *)
(* parent, so a node has at most one child and a tree is a line: node d is *)
(* the node at depth d and d + 1 its child.  The four dimensions of a      *)
(* RecursiveBudget are one number; scopes, capabilities and fingerprints   *)
(* do not change after admission and are left out.  A stored version is    *)
(* only compared with the current one, so a pending candidate carries      *)
(* whether the tree it was made from is still the current one.             *)
(***************************************************************************)
EXTENDS Integers, FiniteSets, FiniteSetsExt, Functions

CONSTANTS
    MaxDepth,       \* MAX_RECURSIVE_DEPTH
    MaxRetries,     \* MAX_RECURSIVE_RETRIES
    TreeBudget,     \* tree_budget of the root authority
    ChildBudget,    \* child_budget of the root authority
    Usages,         \* what one agent step may use
    FixtureUsage,   \* usage the fixture contract charges for every attempt
    MaxPauses       \* bound: operator pauses

ASSUME RecursiveAssumption ==
    /\ MaxDepth \in Nat /\ MaxRetries \in Nat
    /\ TreeBudget \in Nat \ {0} /\ ChildBudget \in 1..TreeBudget
    /\ Usages \subseteq Nat \ {0}
    /\ FixtureUsage \in Nat \ {0}
    /\ MaxPauses \in Nat

VARIABLES
    measured,   \* TRUE: provider usage; FALSE: the fixture contract
    tree,       \* the persisted snapshot
    row,        \* status of the workflow node that carries each tree node
    attempt,    \* attempt_count of that row
    job,        \* what the executor thread of an attempt is doing
    action,     \* usage of the action committed for a node, 0 for none
    candidate,  \* the decision of an attempt, before its transaction
    pauses,     \* operator pauses so far
    refused,    \* settlements and late results the store would not save
    returned    \* nodes whose committed usage has reached the settlement

vars == <<measured, tree, row, attempt, job, action, candidate, pauses, refused, returned>>

Ids == 0..MaxDepth
Attempts == 1..(MaxRetries + 1)
Jobs == Ids \X Attempts
Root == 0
Live == {"ready", "leased"}
Terminal == {"completed", "failed"}
Ended == {"completed", "budget_exhausted", "kill_stopped", "terminal_failed"}

-----------------------------------------------------------------------------
(* The budget kernel: subtraction saturates at zero. *)
Spend(b, u) == IF u < b THEN b - u ELSE 0
CanSpend(b, u) == u <= b

(* Usage receipts: the agent action of a node (0) or one of its attempts.   *)
(* "1:" is a receipt within the tree budget, "0:" a recorded overrun.       *)
ReceiptIds == Ids \X (0..(MaxRetries + 1))
NoReceipt == [within |-> TRUE, usage |-> 0, known |-> FALSE]
Receipt(w, u) == [within |-> w, usage |-> u, known |-> TRUE]

NoNode == [status |-> "absent", lease |-> 0, retries |-> 0, children |-> 0,
           budget |-> 0, limit |-> 0, childBudget |-> 0, childLimit |-> 0,
           reservation |-> 0, usage |-> 0, reason |-> "none"]

NewNode(budget, childBudget, reservation) ==
    [NoNode EXCEPT !.status = "ready",
                   !.budget = budget, !.limit = budget,
                   !.childBudget = childBudget, !.childLimit = childBudget,
                   !.reservation = reservation]

NewTree ==
    [state |-> "running", rootBudget |-> TreeBudget, spent |-> 0, reserved |-> 0,
     node |-> [n \in Ids |-> IF n = Root THEN NewNode(TreeBudget, ChildBudget, 0)
                                         ELSE NoNode],
     receipts |-> [r \in ReceiptIds |-> NoReceipt]]

NoTree == [NewTree EXCEPT !.state = "absent"]

Nodes(t) == {n \in Ids : t.node[n].status # "absent"}

(* What the nodes of a tree have used, and what they hold in reserve. *)
Used(t) == [n \in Ids |-> t.node[n].usage]
Held(t) == [n \in Ids |-> t.node[n].reservation]

(* Failing the nodes of S and giving back what they still reserve: to the   *)
(* tree and to the child budget of each one's parent.                       *)
FailAndRelease(t, S, reason) ==
    LET freed == [n \in Ids |-> IF n \in S THEN t.node[n].reservation ELSE 0]
        total == SumFunction(freed)
        repaid(n) == [t.node[n] EXCEPT !.childBudget = @ + (IF n < MaxDepth THEN freed[n + 1] ELSE 0)]
        ended(n) == [repaid(n) EXCEPT !.status = "failed", !.reason = reason,
                                      !.lease = 0, !.reservation = 0]
    IN  [t EXCEPT !.reserved = Spend(@, total), !.rootBudget = @ + total,
                  !.node = [n \in Ids |-> IF n \in S THEN ended(n) ELSE repaid(n)]]

(* release_node_reservation_for_persistence of one node. *)
Release(t, n) ==
    LET left == t.node[n].reservation
        freed == [t EXCEPT !.reserved = Spend(@, left), !.rootBudget = @ + left,
                           !.node[n].reservation = 0]
    IN  IF n = Root THEN freed
        ELSE [freed EXCEPT !.node[n - 1].childBudget = @ + left]

(* terminalize_remaining_nodes: every live child except one. *)
Terminalize(t, except, reason) ==
    FailAndRelease(t, {n \in Nodes(t) \ {Root, except} : t.node[n].status \in Live}, reason)

(* finalize_terminal_tree: the live descendants of a failed node fail, and  *)
(* a tree all of whose nodes are terminal ends.                             *)
Finalize(t, failed) ==
    IF t.state \in Ended THEN t
    ELSE LET cut == IF failed = {} THEN t
                    ELSE FailAndRelease(t,
                           {n \in Nodes(t) : /\ t.node[n].status \in Live
                                             /\ \E f \in failed : f < n},
                           "terminal_failed")
         IN  IF \A n \in Nodes(cut) : cut.node[n].status \in Terminal
             THEN [cut EXCEPT !.state =
                     IF \A n \in Nodes(cut) : cut.node[n].status = "completed"
                     THEN "completed" ELSE "terminal_failed"]
             ELSE cut

-----------------------------------------------------------------------------
(* record_usage_internal: a receipt is charged once; a repeated one must    *)
(* repeat its usage.                                                        *)
Conflicts(t, r, u) == t.receipts[r].known /\ t.receipts[r].usage # u

WithinTree(t, r, u, reserves) ==
    IF t.receipts[r].known THEN t.receipts[r].within
    ELSE CanSpend(TreeBudget,
                  t.spent + u + (IF reserves THEN Spend(t.reserved, u) ELSE t.reserved))

RecordUsage(t, r, u, reserves) ==
    IF t.receipts[r].known THEN t
    ELSE LET w == WithinTree(t, r, u, reserves)
         IN  [t EXCEPT !.spent = @ + u,
                       !.reserved = IF reserves THEN Spend(@, u) ELSE @,
                       !.receipts[r] = Receipt(w, u),
                       !.state = IF ~w /\ @ \notin {"completed", "kill_stopped",
                                                    "terminal_failed"}
                                 THEN "budget_exhausted" ELSE @]

ChargeNode(t, n, u, reserves) ==
    [t EXCEPT !.node[n].budget = Spend(@, u), !.node[n].usage = @ + u,
              !.node[n].reservation = IF reserves THEN Spend(@, u) ELSE @]

(* complete_node_with_usage_receipt *)
CompleteNode(t, n, r, ok, u) ==
    LET known == t.receipts[r].known
        within == (known \/ CanSpend(t.node[n].budget, u)) /\ WithinTree(t, r, u, TRUE)
        used == RecordUsage(t, r, u, TRUE)
        charged == IF known THEN used ELSE ChargeNode(used, n, u, TRUE)
        done == [charged EXCEPT
                   !.node[n].status = IF ok /\ within THEN "completed" ELSE "failed",
                   !.node[n].reason = CASE ~within -> "tree_budget_exhausted"
                                        [] within /\ ~ok ->
                                             IF t.node[n].retries >= MaxRetries
                                             THEN "retry_exhausted" ELSE "execution_failure"
                                        [] OTHER -> "none",
                   !.node[n].lease = 0]
    IN  IF within THEN done
        ELSE Terminalize([done EXCEPT !.state = "budget_exhausted"], n,
                         "tree_budget_exhausted")

(* complete_root_with_usage_receipt: the root holds no reservation, so its  *)
(* usage comes out of the tree's remaining budget.                          *)
CompleteRoot(t, r, ok, u) ==
    LET known == t.receipts[r].known
        within == (known \/ CanSpend(t.node[Root].budget, u)) /\ WithinTree(t, r, u, FALSE)
        used == RecordUsage(t, r, u, FALSE)
        charged == IF known THEN used
                   ELSE [ChargeNode(used, Root, u, FALSE) EXCEPT !.rootBudget = Spend(@, u)]
        done == [charged EXCEPT
                   !.node[Root].status = IF ok /\ within THEN "completed" ELSE "failed",
                   !.node[Root].reason = CASE ~within -> "tree_budget_exhausted"
                                           [] within /\ ~ok -> "execution_failure"
                                           [] OTHER -> "none",
                   !.node[Root].lease = 0]
    IN  CASE ~within -> Terminalize([done EXCEPT !.state = "budget_exhausted"], Root,
                                    "tree_budget_exhausted")
          [] within /\ ~ok -> Terminalize([done EXCEPT !.state = "terminal_failed"], Root,
                                          "terminal_failed")
          [] OTHER -> Finalize(done, {})

(* record_late_usage and record_root_late_usage: the lifecycle of the node  *)
(* is left alone, the usage is charged to the node and to the tree.         *)
LateUsage(t, n, r, u) ==
    LET isRoot == n = Root
        within == CanSpend(t.node[n].budget, u) /\ WithinTree(t, r, u, ~isRoot)
        used == RecordUsage(t, r, u, ~isRoot)
        spent == IF isRoot THEN [used EXCEPT !.rootBudget = Spend(@, u)] ELSE used
        charged == ChargeNode(spent, n, u, ~isRoot)
        over == [charged EXCEPT !.receipts[r] = Receipt(FALSE, u)]
    IN  CASE t.receipts[r].known -> t
          [] ~t.receipts[r].known /\ within -> charged
          [] ~t.receipts[r].known /\ ~within ->
               IF over.state \in {"completed", "kill_stopped", "terminal_failed"} THEN over
               ELSE Terminalize([over EXCEPT !.state = "budget_exhausted"], n,
                                "tree_budget_exhausted")

-----------------------------------------------------------------------------
(* admit_child: the child's budget is what the proposal asks for, bounded   *)
(* by the parent's child budget and by the tree.                            *)
Grant(t, n) == Min({ChildBudget, t.node[n].childBudget, t.rootBudget})

Admits(t, n) ==
    /\ t.state = "running"
    /\ n < MaxDepth
    /\ Grant(t, n) > 0
    /\ CanSpend(TreeBudget, t.spent + t.reserved + Grant(t, n))

AdmitChild(t, n) ==
    LET b == Grant(t, n)
    IN  [t EXCEPT !.node[n].children = @ + 1, !.node[n].childBudget = Spend(@, b),
                  !.node[n + 1] = NewNode(b, b, b),
                  !.rootBudget = Spend(@, b), !.reserved = @ + b]

RetryAllowed(t, n, u) ==
    /\ t.state = "running"
    /\ t.node[n].retries < MaxRetries
    /\ CanSpend(t.node[n].budget, u)
    /\ Spend(t.node[n].budget, u) > 0

RetryNode(t, n) ==
    [t EXCEPT !.node[n].retries = @ + 1, !.node[n].status = "ready",
              !.node[n].reason = "none"]

(* recover_stale_lease, and what the store adds when there is no retry. *)
RecoverLease(t, n, retry) ==
    LET freed == [t EXCEPT !.node[n].lease = 0]
        gone == [freed EXCEPT !.node[n].status = "failed",
                              !.node[n].reason = "retry_exhausted"]
    IN  IF retry THEN RetryNode(freed, n) ELSE Finalize(Release(gone, n), {n})

(* sync_recursive_completion: settlement of a child, with or without retry. *)
Completion(t, n, r, ok, u, retry) ==
    LET done == CompleteNode(t, n, r, ok, u)
    IN  IF retry THEN RetryNode(done, n)
        ELSE Finalize(Release(done, n),
                      IF done.node[n].status = "failed" THEN {n} ELSE {})

RootCompletion(t, r, ok, u) == Finalize(CompleteRoot(t, r, ok, u), {})

(* sync_recursive_terminal_failure: an attempt without usable usage is      *)
(* settled as a failure that used nothing, then the whole tree fails.       *)
FailTree(t, n) ==
    Terminalize([t EXCEPT !.node[n].reason = "recursive_usage_unavailable",
                          !.node[n].status = "failed", !.state = "terminal_failed"],
                n, "terminal_failed")

\* Mutant: a resume looks only at what is wanted.
EffectiveStateAsWanted(t, wanted) ==
    IF wanted = "running" /\ t.state # "completed" THEN "running"
    ELSE IF t.state \in Ended THEN t.state ELSE wanted

(* set_recursive_execution_paused for one tree. *)
EffectiveState(t, wanted) ==
    CASE \/ t.state = "budget_exhausted"
         \/ \E n \in Nodes(t) : t.node[n].reason = "tree_budget_exhausted" -> "budget_exhausted"
      [] OTHER ->
           CASE t.state \in Ended -> t.state
             [] t.state \notin Ended /\ wanted # "running" -> wanted
             [] OTHER -> IF t.state = "operator_paused" THEN "running" ELSE t.state

ControlEnds(t, wanted) ==
    IF EffectiveState(t, wanted) \notin Ended \ {"completed"} THEN {}
    ELSE {n \in Nodes(t) : /\ t.node[n].status \in Live
                           /\ n # Root \/ t.node[n].lease # 0}

Control(t, wanted) ==
    LET s == EffectiveState(t, wanted)
    IN  FailAndRelease([t EXCEPT !.state = s], ControlEnds(t, wanted),
                       CASE s = "kill_stopped" -> "recursive_kill_switch_active"
                         [] s = "budget_exhausted" -> "tree_budget_exhausted"
                         [] OTHER -> "terminal_failed")

(* validate_tree_for_persistence: no snapshot is stored unless its budgets  *)
(* add up; a recorded overrun only relaxes equality to "at least".          *)
Overrun(t) == \E r \in ReceiptIds : t.receipts[r].known /\ ~t.receipts[r].within

AddsUp(t, sum, limit) == sum = limit \/ (Overrun(t) /\ sum >= limit)

OfChild(t, n) == IF n < MaxDepth THEN t.node[n + 1].usage + t.node[n + 1].reservation ELSE 0

ValidNode(t, n) ==
    LET x == t.node[n]
    IN  /\ x.budget <= x.limit /\ x.childBudget <= x.childLimit
        /\ AddsUp(t, x.budget + x.usage, x.limit)
        /\ AddsUp(t, x.childBudget + OfChild(t, n), x.childLimit)
        /\ x.reservation = IF n = Root \/ x.status \in Terminal THEN 0 ELSE x.budget
        /\ (x.status = "leased") <=> (x.lease # 0)
        /\ x.children = IF n + 1 \in Nodes(t) THEN 1 ELSE 0

Valid(t) ==
    /\ t.rootBudget <= TreeBudget
    /\ Overrun(t) \/ t.rootBudget + t.spent + t.reserved = TreeBudget
    /\ \A n \in Nodes(t) : ValidNode(t, n)
    /\ SumFunction(Used(t)) = t.spent
    /\ SumFunction(Held(t)) = t.reserved

(* sync_terminal_workflow_nodes: rows of children the tree has ended. *)
SyncRows(t, rows) ==
    [n \in Ids |->
       IF /\ n # Root /\ t.node[n].status = "failed"
          /\ t.node[n].reason \in {"tree_budget_exhausted", "terminal_failed",
                                   "recursive_usage_unavailable"}
          /\ rows[n] \in {"pending", "running"}
       THEN "failed" ELSE rows[n]]

-----------------------------------------------------------------------------
NoCandidate == [usage |-> 0, proposes |-> FALSE, tree |-> NoTree, fresh |-> FALSE]
Outdated == [j \in Jobs |-> [candidate[j] EXCEPT !.fresh = FALSE]]

Init ==
    /\ measured \in BOOLEAN
    /\ tree = NoTree
    /\ row = [n \in Ids |-> IF n = Root THEN "pending" ELSE "absent"]
    /\ attempt = [n \in Ids |-> 0]
    /\ job = [j \in Jobs |-> "idle"]
    /\ action = [n \in Ids |-> 0]
    /\ candidate = [j \in Jobs |-> NoCandidate]
    /\ pauses = 0
    /\ refused = {}
    /\ returned = {}

(* The lease part of a tick: the row of a node whose parent is completed,   *)
(* then lease_node on the tree (made on the root's first lease), in one     *)
(* transaction; a refusal by the tree undoes the row.                       *)
LeasedTree == IF tree.state = "absent" THEN NewTree ELSE tree

CanLease(n) ==
    /\ row[n] = "pending"
    /\ n # Root => row[n - 1] = "completed"
    /\ attempt[n] + 1 \in Attempts
    /\ LeasedTree.state = "running" /\ LeasedTree.node[n].status = "ready"

Lease(n) ==
    LET a == attempt[n] + 1
        leased == [LeasedTree EXCEPT !.node[n].status = "leased", !.node[n].lease = a]
    IN  /\ CanLease(n)
        /\ tree' = leased
        /\ candidate' = Outdated
        /\ row' = [row EXCEPT ![n] = "running"]
        /\ attempt' = [attempt EXCEPT ![n] = a]
        /\ job' = [job EXCEPT ![<<n, a>>] = "working"]
        /\ UNCHANGED <<action, pauses, refused, returned>>

(* An agent step whose node has a committed action replays its result. *)
Replay(n, a) ==
    /\ job[<<n, a>>] = "working"
    /\ action[n] # 0
    /\ job' = [job EXCEPT ![<<n, a>>] = "completed"]
    /\ UNCHANGED <<tree, row, attempt, action, candidate, pauses, refused, returned>>

(* The agent decides.  For a child proposal the tree is loaded and the      *)
(* child admitted, or the rejection recorded, on that copy.                 *)
Decide(n, a) ==
    /\ job[<<n, a>>] = "working"
    /\ action[n] = 0
    /\ \E u \in (IF measured THEN Usages ELSE {FixtureUsage}), p \in BOOLEAN :
         candidate' = [candidate EXCEPT ![<<n, a>>] =
            [usage |-> u, proposes |-> p, fresh |-> TRUE,
             tree |-> IF p /\ Admits(tree, n) THEN AdmitChild(tree, n)
                      ELSE IF p THEN tree ELSE NoTree]]
    /\ job' = [job EXCEPT ![<<n, a>>] = "deciding"]
    /\ UNCHANGED <<tree, row, attempt, action, pauses, refused, returned>>

StepFails(n, a) ==
    /\ job[<<n, a>>] \in {"working", "deciding"}
    /\ job' = [job EXCEPT ![<<n, a>>] = "failed"]
    /\ candidate' = [candidate EXCEPT ![<<n, a>>] = NoCandidate]
    /\ UNCHANGED <<tree, row, attempt, action, pauses, refused, returned>>

(* apply_agent_action_once: the first attempt to insert the receipt of the  *)
(* node wins; the others return its result if they decided the same, and an *)
(* error if not.  A candidate tree is stored only over the version it was   *)
(* loaded at; a stale one leaves a rejection in the current tree.           *)
StoresCandidate(c) == c.fresh

CommitAction(n, a) ==
    LET c == candidate[<<n, a>>]
        stores == StoresCandidate(c)
    IN  /\ job[<<n, a>>] = "deciding"
        /\ action[n] = 0
        /\ action' = [action EXCEPT ![n] = c.usage]
        /\ IF c.proposes
           THEN /\ stores => Valid(c.tree)
                /\ tree' = IF stores THEN c.tree ELSE tree
                /\ candidate' = [Outdated EXCEPT ![<<n, a>>] = NoCandidate]
                /\ row' = IF stores /\ n < MaxDepth /\ c.tree.node[n].children = 1
                          THEN [row EXCEPT ![n + 1] = "pending"] ELSE row
           ELSE /\ candidate' = [candidate EXCEPT ![<<n, a>>] = NoCandidate]
                /\ UNCHANGED <<tree, row>>
        /\ job' = [job EXCEPT ![<<n, a>>] = "completed"]
        /\ UNCHANGED <<attempt, pauses, refused, returned>>

LosesReceipt(n, a) ==
    /\ job[<<n, a>>] = "deciding"
    /\ action[n] # 0
    /\ \E outcome \in {"completed", "failed"} :
         job' = [job EXCEPT ![<<n, a>>] = outcome]
    /\ candidate' = [candidate EXCEPT ![<<n, a>>] = NoCandidate]
    /\ UNCHANGED <<tree, row, attempt, action, pauses, refused, returned>>

(* The process dies: the attempt returns nothing. *)
Crash(n, a) ==
    /\ job[<<n, a>>] # "idle"
    /\ job' = [job EXCEPT ![<<n, a>>] = "idle"]
    /\ candidate' = [candidate EXCEPT ![<<n, a>>] = NoCandidate]
    /\ UNCHANGED <<tree, row, attempt, action, pauses, refused, returned>>

-----------------------------------------------------------------------------
(* Settlement (phase 3 of a tick).  A completed step carries the receipt    *)
(* and the usage of the committed action; a failed one has no measured      *)
(* usage, and under the fixture contract the receipt of its attempt.        *)
Completed(n, a) == job[<<n, a>>] = "completed"
Unavailable(n, a) == measured /\ ~Completed(n, a)
\* Mutant: usage is booked under the attempt, as if it were the attempt's.
ReceiptOfAttempt(n, a) == <<n, a>>
ReceiptOf(n, a) == IF Completed(n, a) THEN <<n, 0>> ELSE <<n, a>>
UsageOf(n, a) == IF Completed(n, a) THEN action[n]
                 ELSE IF measured THEN 0 ELSE FixtureUsage
Current(n, a) == row[n] = "running" /\ attempt[n] = a

ShouldRetry(n, a) ==
    /\ ~Completed(n, a) /\ ~Unavailable(n, a)
    /\ a <= MaxRetries
    /\ RetryAllowed(tree, n, UsageOf(n, a))

ChargedTree(n, a) ==
    LET r == ReceiptOf(n, a)
        u == UsageOf(n, a)
        ok == Completed(n, a)
    IN  IF n = Root THEN RootCompletion(tree, r, ok, u)
        ELSE Completion(tree, n, r, ok, u, ShouldRetry(n, a))

SettledTree(n, a) ==
    IF Unavailable(n, a) THEN FailTree(ChargedTree(n, a), n) ELSE ChargedTree(n, a)

(* The transaction stores the tree with the receipt, then (for an attempt   *)
(* without usage) the failed tree; each store validates.                    *)
Saves(n, a) ==
    /\ tree.node[n].lease = a
    /\ ~Conflicts(tree, ReceiptOf(n, a), UsageOf(n, a))
    /\ Valid(ChargedTree(n, a)) /\ Valid(SettledTree(n, a))

Fits(n, a) ==
    \/ tree.receipts[ReceiptOf(n, a)].known
    \/ CanSpend(tree.node[n].budget, UsageOf(n, a))

Refusal(n, a, late) ==
    [node |-> n, attempt |-> a, late |-> late, fits |-> Fits(n, a),
     live |-> tree.node[n].status \in Live]

Return(n, a) ==
    /\ job[<<n, a>>] \in {"completed", "failed"}
    /\ job' = [job EXCEPT ![<<n, a>>] = "idle"]
    /\ returned' = IF Completed(n, a) THEN returned \union {n} ELSE returned
    /\ UNCHANGED <<attempt, action, pauses>>

(* The row takes the node's status in the tree as it is spelled there. *)
Settle(n, a) ==
    LET t == SettledTree(n, a)
    IN  /\ Current(n, a) /\ Saves(n, a)
        /\ Return(n, a)
        /\ tree' = t
        /\ candidate' = Outdated
        /\ row' = [SyncRows(t, row) EXCEPT ![n] = t.node[n].status]
        /\ UNCHANGED refused

(* A snapshot that does not validate is an error: the transaction is        *)
(* undone, the row stays leased to the attempt that has ended.              *)
SettleRefused(n, a) ==
    /\ Current(n, a) /\ ~Saves(n, a)
    /\ Return(n, a)
    /\ refused' = refused \union {Refusal(n, a, FALSE)}
    /\ UNCHANGED <<tree, row, candidate>>

(* The result of an attempt that lost its lease: its usage is charged, or   *)
(* the refusal is audited; the row is left alone.                           *)
LateSaves(n, a) ==
    /\ ~Unavailable(n, a)
    /\ ~Conflicts(tree, ReceiptOf(n, a), UsageOf(n, a))
    /\ Valid(LateUsage(tree, n, ReceiptOf(n, a), UsageOf(n, a)))

LateResult(n, a) ==
    LET t == LateUsage(tree, n, ReceiptOf(n, a), UsageOf(n, a))
    IN  /\ ~Current(n, a) /\ LateSaves(n, a)
        /\ Return(n, a)
        /\ tree' = t
        /\ candidate' = IF t = tree THEN candidate ELSE Outdated
        /\ row' = SyncRows(t, row)
        /\ UNCHANGED refused

LateRefused(n, a) ==
    /\ ~Current(n, a) /\ ~LateSaves(n, a)
    /\ Return(n, a)
    /\ refused' = IF Unavailable(n, a) THEN refused
                  ELSE refused \union {Refusal(n, a, TRUE)}
    /\ UNCHANGED <<tree, row, candidate>>

(* recover_stale_leases: the timeout of a running row has passed, whatever  *)
(* its executor is doing.                                                   *)
RecoveryRetries(n) == attempt[n] <= MaxRetries /\ RetryAllowed(tree, n, 0)

\* Mutant: a lease without a retry left is not recovered.
CanRecoverRetriable(n) ==
    /\ row[n] = "running"
    /\ tree.node[n].lease = attempt[n]
    /\ RecoveryRetries(n)
    /\ Valid(RecoverLease(tree, n, TRUE))

CanRecover(n) ==
    /\ row[n] = "running"
    /\ tree.node[n].lease = attempt[n]
    /\ Valid(RecoverLease(tree, n, RecoveryRetries(n)))

RecoverStale(n) ==
    LET retry == RecoveryRetries(n)
        t == RecoverLease(tree, n, retry)
    IN  /\ CanRecover(n)
        /\ tree' = t
        /\ candidate' = Outdated
        /\ row' = SyncRows(t, [row EXCEPT ![n] = IF retry THEN "pending" ELSE "failed"])
        /\ UNCHANGED <<attempt, job, action, pauses, refused, returned>>

(* Scheduler pause, resume and kill: the tree and the rows of the nodes it  *)
(* ends, in one transaction that fails if such a row is not pending or      *)
(* running.                                                                 *)
SetPaused(wanted) ==
    LET t == Control(tree, wanted)
        ends == ControlEnds(tree, wanted)
    IN  /\ tree.state # "absent"
        /\ t # tree
        /\ \A n \in ends : row[n] \in {"pending", "running"}
        /\ Valid(t)
        /\ tree' = t
        /\ candidate' = Outdated
        /\ row' = [n \in Ids |-> IF n \in ends THEN "failed" ELSE row[n]]
        /\ UNCHANGED <<attempt, job, action, refused, returned>>

Pause == pauses < MaxPauses /\ SetPaused("operator_paused") /\ pauses' = pauses + 1
Resume == SetPaused("running") /\ UNCHANGED pauses
Kill == SetPaused("kill_stopped") /\ UNCHANGED pauses

Next ==
    /\ \/ \E n \in Ids : Lease(n) \/ RecoverStale(n)
       \/ \E n \in Ids, a \in Attempts :
            \/ Replay(n, a) \/ Decide(n, a) \/ StepFails(n, a)
            \/ CommitAction(n, a) \/ LosesReceipt(n, a) \/ Crash(n, a)
            \/ Settle(n, a) \/ SettleRefused(n, a)
            \/ LateResult(n, a) \/ LateRefused(n, a)
       \/ Pause \/ Resume \/ Kill
    /\ UNCHANGED measured

Spec == Init /\ [][Next]_vars

(* The scheduler keeps ticking and keeps looking for stale leases, and the  *)
(* operator resumes what was paused; nothing is assumed of the executors.   *)
(* This is weak fairness of Lease, RecoverStale and Resume, with the        *)
(* condition under which each is enabled written out.                       *)
FairSpec ==
    /\ Spec
    /\ \A n \in Ids : /\ []<>~CanLease(n) \/ []<><<Lease(n)>>_vars
                      /\ []<>~CanRecover(n) \/ []<><<RecoverStale(n)>>_vars
    /\ []<>(tree.state # "operator_paused") \/ []<><<Resume>>_vars

-----------------------------------------------------------------------------
Statuses == {"absent"} \union Live \union Terminal
Reasons == {"none", "execution_failure", "retry_exhausted", "tree_budget_exhausted",
            "terminal_failed", "recursive_usage_unavailable",
            "recursive_kill_switch_active"}

(* Shape of the state: the tree, its rows and the attempts working on it.   *)
TypeOK ==
    /\ tree.state \in {"absent", "running", "operator_paused"} \union Ended
    /\ {tree.rootBudget, tree.spent, tree.reserved} \subseteq Nat
    /\ \A n \in Ids : /\ tree.node[n].status \in Statuses
                      /\ tree.node[n].lease \in {0} \union Attempts
                      /\ tree.node[n].retries \in 0..MaxRetries
                      /\ tree.node[n].reason \in Reasons
    /\ row \in [Ids -> {"absent", "pending", "running", "completed", "failed", "ready"}]
    /\ attempt \in [Ids -> 0..(MaxRetries + 1)]
    /\ job \in [Jobs -> {"idle", "working", "deciding", "completed", "failed"}]
    /\ action \in [Ids -> {0, FixtureUsage} \union Usages]
    /\ pauses \in 0..MaxPauses
    /\ returned \subseteq Ids

(* A result whose usage fits the budget of its node is always settled: the  *)
(* snapshot that complete_node or record_late_usage makes of it validates,  *)
(* whatever was leased, recovered, admitted, paused or killed before.  The  *)
(* exception is a late result of a node that has ended meanwhile.           *)
FittingResultIsSaved ==
    \A x \in refused : ~x.fits \/ (x.late /\ ~x.live)

(* Usage is charged once, though two attempts may return the action of one  *)
(* node, one of them late: what a node has used is the usage of its action, *)
(* if that has a receipt, and of the failed attempts the fixture contract   *)
(* charges, and the tree has spent the sum of it.                           *)
ChargedOnce ==
    /\ \A n \in Ids :
         tree.node[n].usage =
           (IF tree.receipts[<<n, 0>>].known THEN action[n] ELSE 0) +
           (IF measured THEN 0
            ELSE FixtureUsage * Cardinality({a \in Attempts : tree.receipts[<<n, a>>].known}))
    /\ tree.spent = SumFunction(Used(tree))

(* The rows of the workflow run and the nodes of the tree agree, in two     *)
(* tables written by settlement, recovery, admission and control: a row is  *)
(* running exactly when its node is leased to that attempt, pending only    *)
(* when it is ready, and no pending row waits for a failed parent.  (A row  *)
(* that a retry has left at "ready" is not looked at again, so that its     *)
(* node may end without it.)                                                *)
RowsAgree ==
    \A n \in Ids :
      /\ (row[n] = "running") <=> (tree.node[n].status = "leased")
      /\ row[n] = "running" => tree.node[n].lease = attempt[n]
      /\ row[n] = "pending" => tree.node[n].status = "ready"
      /\ tree.node[n].status = "ready" => row[n] \in {"pending", "ready"}
      /\ (n # Root /\ row[n] = "pending") => row[n - 1] # "failed"

(* No child outlives its tree: when the tree has ended, only a root that    *)
(* waits for its retry may still be ready, and nothing is reserved.  (A     *)
(* late result that exhausts the budget leaves its own node alone.)         *)
EndedIsOver ==
    tree.state \in Ended \ {"budget_exhausted"} =>
      /\ \A n \in Nodes(tree) : tree.node[n].status \in Live => n = Root
      /\ tree.reserved = 0

(* An ended tree is never reopened, by a resume, by a candidate that was    *)
(* made before it ended, or by a late result: no lease, no child, no state  *)
(* in which there could be one.                                             *)
EndedStaysEnded ==
    [][tree.state \in Ended =>
         /\ tree'.state \in Ended
         /\ Nodes(tree') = Nodes(tree)
         /\ \A n \in Ids : tree'.node[n].status = "leased" => tree.node[n].status = "leased"]_vars

(* Every row is settled in the end, executors that crash, hang or return    *)
(* too late included, unless the operator kills the tree or leaves it       *)
(* paused, the budget runs out, or a retry is left unqueued.                *)
RunEnds ==
    <>(\/ \A n \in Ids : row[n] \in {"absent", "completed", "failed"}
       \/ tree.state \in {"kill_stopped", "budget_exhausted"}
       \/ \E n \in Ids : row[n] = "ready")

-----------------------------------------------------------------------------
(* Stated by the repository and not so in the code.                         *)

(* "retry_scheduled": a node the tree has made ready again is queued. *)
RetryIsQueued == \A n \in Ids : tree.node[n].status = "ready" => row[n] = "pending"


\* The tree's record and the run's rows tell one story: usage charged once, results
\* that fit kept, statuses that agree, and no child that outlives its tree.
AccountsAgree == TypeOK /\ FittingResultIsSaved /\ ChargedOnce /\ EndedIsOver /\ RowsAgree
=============================================================================
