---------------------------- MODULE WorkflowRun ----------------------------
(***************************************************************************)
(* The workflow-run tables of LocalProductStore and the operations that    *)
(* the scheduler workers, the HTTP handlers and the operators run on them. *)
(*                                                                         *)
(* A tick (tick_with_executor_and_command_inner_for_owner) has three       *)
(* phases.  Phase 1 leases a ready node in one transaction, phase 2        *)
(* executes it outside every transaction, phase 3 settles the result in a  *)
(* second transaction.  Between the phases any other operation may run:    *)
(* the lease may expire and be given to another worker, the run may be     *)
(* cancelled, the process may die.  The lease has no owner column; its     *)
(* fence is the attempt_count that phase 1 increments and phase 3 compares.*)
(*                                                                         *)
(* Every transaction is one action.  Nodes of a recursive execution tree   *)
(* and mutations of the graph are outside this module.                     *)
(***************************************************************************)
EXTENDS Naturals, FiniteSets

CONSTANTS
    Run,            \* run ids
    Node,           \* node ids; the order of Nat is that of ORDER BY node_id
    RunOf,          \* the run of each node
    Edge,           \* workflow_run_edges, pairs <<from, to>> within a run
    AgentNode,      \* nodes with task_type "agent_step"
    FixNode,        \* nodes with task_type "fix"
    Worker,         \* callers of a tick: scheduler workers and HTTP handlers
    AgentWorker,    \* callers whose executor is the agent_step executor
    CappedWorker,   \* callers that pass agent_concurrency_caps
    ApiWorker,      \* callers that tick as the supervised-patch API owner
    Retries,        \* max_retries of each caller
    GlobalCap,      \* agent_max_concurrent_global
    RunCap,         \* agent_max_concurrent_per_run
    NoClaim,        \* the claim of a caller that is in no tick
    MaxRequeues     \* bound: lease recoveries and approvals of one node

\* What phase 1 hands to phase 3: the leased node and its attempt_count.
Claims == [node : Node, attempt : Nat]

ASSUME ConstantsAssumption ==
    /\ Node \subseteq Nat
    /\ IsFiniteSet(Node)
    /\ RunOf \in [Node -> Run]
    /\ Edge \subseteq {e \in Node \X Node : RunOf[e[1]] = RunOf[e[2]]}
    /\ AgentNode \subseteq Node
    /\ FixNode \subseteq Node \ AgentNode
    /\ AgentWorker \subseteq Worker
    /\ CappedWorker \subseteq Worker
    /\ ApiWorker \subseteq Worker
    /\ Retries \in [Worker -> Nat]
    /\ GlobalCap \in Nat
    /\ RunCap \in Nat
    /\ NoClaim \notin Claims
    /\ MaxRequeues \in Nat

VARIABLES
    runStatus,      \* workflow_runs.status
    apiOwned,       \* workflow_runs.pause_reason = 'api_owned_supervised_patch'
    status,         \* workflow_run_nodes.status
    attempt,        \* workflow_run_nodes.attempt_count
    result,         \* the attempt whose result is in node_json, 0 for none
    claim,          \* what each caller holds between phase 1 and phase 3
    requeued        \* how often a node left its lease or its approval wait

vars == <<runStatus, apiOwned, status, attempt, result, claim, requeued>>

RunStatus  == {"created", "running", "completed", "failed", "cancelled"}
NodeStatus == {"pending", "running", "completed", "failed", "blocked",
               "awaiting_approval"}

\* The class of a NodeExecutionOutput that settlement tells apart: a failure
\* is "retryable" or "fatal" according to retryable_node_failure.
Outcome == {"completed", "retryable", "fatal", "awaiting_approval"}


NodesOf(r) == {n \in Node : RunOf[n] = r}
Parents(n) == {p \in Node : <<p, n>> \in Edge}

\* is_run_terminal
IsRunTerminal(s) == s \in {"completed", "failed", "cancelled"}

\* require_run_execution_owner
RequireRunExecutionOwner(w, r) == w \in ApiWorker <=> apiOwned[r]

-----------------------------------------------------------------------------
(* Helpers on the node table. *)

\* find_ready_node_locked, for one node.
Ready(n) ==
    /\ status[n] = "pending"
    /\ \A p \in Parents(n) :
          \/ status[p] = "completed"
          \/ n \in FixNode /\ status[p] = "failed"

\* Mutant: the caps are compared with <= instead of <.
UnderAgentCapsOffByOne(r) ==
    LET running == {n \in AgentNode : status[n] = "running"}
    IN  /\ Cardinality(running) <= GlobalCap
        /\ Cardinality({n \in running : RunOf[n] = r}) <= RunCap

\* count_running_agent_steps_locked and its per-run variant, against the caps.
UnderAgentCaps(r) ==
    LET running == {n \in AgentNode : status[n] = "running"}
    IN  /\ Cardinality(running) < GlobalCap
        /\ Cardinality({n \in running : RunOf[n] = r}) < RunCap

\* The nodes the search loop of phase 1 can end with.  Ready nodes of the
\* caller's own kind come first; ready nodes of the other kind are looked at
\* only when there is none and no node was skipped for a cap.  Either way the
\* nodes looked at are all agent steps or all not, so a cap skips all or none.
Candidates(w, r) ==
    LET ready == {n \in NodesOf(r) : Ready(n)}
        same  == {n \in ready : n \in AgentNode <=> w \in AgentWorker}
        seen  == IF same # {} THEN same ELSE ready
    IN  {n \in seen : n \in AgentNode /\ w \in CappedWorker => UnderAgentCaps(r)}

\* propagate_failed_dependencies_locked repeats "a pending child of a failed
\* or blocked node is blocked" until nothing changes.  The nodes it blocks are
\* the least set closed under that rule.
Pending(st, r)  == {n \in NodesOf(r) : st[n] = "pending"}
Failures(st, r) == {n \in NodesOf(r) : st[n] \in {"failed", "blocked"}}

ClosedUnderFailure(st, r, S) ==
    \A n \in Pending(st, r) : Parents(n) \cap (Failures(st, r) \cup S) # {} => n \in S

\* Mutant: one pass instead of a loop.
DoomedOnePass(st, r) ==
    {n \in Pending(st, r) : Parents(n) \cap Failures(st, r) # {}}

Doomed(st, r) ==
    {n \in Pending(st, r) :
        \A S \in SUBSET Pending(st, r) : ClosedUnderFailure(st, r, S) => n \in S}

PropagateFailedDependencies(st, r) ==
    [n \in Node |-> IF n \in Doomed(st, r) THEN "blocked" ELSE st[n]]

\* check_run_completion_locked and the run status written from it; cur is
\* the status that stays when some node is not done.
DoneStatus == {"completed", "failed", "blocked"}

\* Mutant: only a run without failures is ever done.
RunCompletionSuccessOnly(st, r, cur) ==
    IF \A n \in NodesOf(r) : st[n] = "completed" THEN "completed" ELSE cur

RunCompletion(st, r, cur) ==
    IF \A n \in NodesOf(r) : st[n] \in DoneStatus
    THEN IF Failures(st, r) # {} THEN "failed" ELSE "completed"
    ELSE cur

-----------------------------------------------------------------------------
Init ==
    /\ runStatus = [r \in Run |-> "created"]
    /\ apiOwned \in [Run -> BOOLEAN]
    /\ status = [n \in Node |-> "pending"]
    /\ attempt = [n \in Node |-> 0]
    /\ result = [n \in Node |-> 0]
    /\ claim = [w \in Worker |-> NoClaim]
    /\ requeued = [n \in Node |-> 0]

\* Phase 1 is entered: the caller owns the run and the run is not terminal.
MayTick(w, r) ==
    /\ claim[w] = NoClaim
    /\ RequireRunExecutionOwner(w, r)
    /\ ~ IsRunTerminal(runStatus[r])

\* Phase 1, LeaseResult::Leased: the first candidate in node_id order.
Lease(w, r) ==
    /\ MayTick(w, r)
    /\ \E n \in Candidates(w, r) :
          /\ \A m \in Candidates(w, r) : n <= m
          /\ runStatus' = [runStatus EXCEPT ![r] = "running"]
          /\ status' = [status EXCEPT ![n] = "running"]
          /\ attempt' = [attempt EXCEPT ![n] = @ + 1]
          /\ claim' = [claim EXCEPT ![w] = [node |-> n, attempt |-> attempt[n] + 1]]
    /\ UNCHANGED <<apiOwned, result, requeued>>

\* Phase 1, LeaseResult::NoReadyNode and LeaseResult::Terminal.
NoReadyNode(w, r) ==
    /\ MayTick(w, r)
    /\ Candidates(w, r) = {}
    /\ status' = PropagateFailedDependencies(status, r)
    /\ runStatus' = [runStatus EXCEPT ![r] = RunCompletion(status', r, "running")]
    /\ UNCHANGED <<apiOwned, attempt, result, claim, requeued>>

\* Phase 2: what an execution can return.  An executor of the wrong kind is
\* not called; the node gets a reserved_executor_mismatch, which is retryable.
Outcomes(w, n) ==
    IF n \in AgentNode <=> w \in AgentWorker THEN Outcome ELSE {"retryable"}

\* Mutant: the class of the failure is written as the status.
ActualStatusRaw(w, out, att) ==
    IF out = "retryable" /\ att <= Retries[w] THEN "pending" ELSE out

ActualStatus(w, out, att) ==
    CASE out = "retryable" /\ att <= Retries[w] -> "pending"
      [] out = "retryable" /\ att > Retries[w]  -> "failed"
      [] out = "fatal" -> "failed"
      [] OTHER -> out

\* Mutant: WHERE status = 'running' only.
HoldsLeaseUnfenced(w) == status[claim[w].node] = "running"

\* The fence of phase 3: WHERE status = 'running' AND attempt_count = ?5.
HoldsLease(w) ==
    /\ status[claim[w].node] = "running"
    /\ attempt[claim[w].node] = claim[w].attempt

\* Phase 3.  The run status is rewritten whenever all nodes are done, also
\* when the run was cancelled while the node executed.
Settle(w, out) ==
    /\ claim[w] # NoClaim
    /\ HoldsLease(w)
    /\ out \in Outcomes(w, claim[w].node)
    /\ LET n   == claim[w].node
           r   == RunOf[n]
           att == claim[w].attempt
       IN  /\ status' = PropagateFailedDependencies(
                            [status EXCEPT ![n] = ActualStatus(w, out, att)], r)
           /\ result' = [result EXCEPT ![n] = att]
           /\ runStatus' = [runStatus EXCEPT ![r] = RunCompletion(status', r, @)]
    /\ claim' = [claim EXCEPT ![w] = NoClaim]
    /\ UNCHANGED <<apiOwned, attempt, requeued>>

\* Phase 3 of a caller that lost its lease: stale_completion_ignored.
SettleStale(w) ==
    /\ claim[w] # NoClaim
    /\ ~ HoldsLease(w)
    /\ claim' = [claim EXCEPT ![w] = NoClaim]
    /\ UNCHANGED <<runStatus, apiOwned, status, attempt, result, requeued>>

\* The caller never reaches phase 3: its process dies, or phase 2 returns an
\* error before the executor is called.  The bound is that of the recovery
\* the node needs next.
Abandon(w) ==
    /\ claim[w] # NoClaim
    /\ requeued[claim[w].node] < MaxRequeues
    /\ claim' = [claim EXCEPT ![w] = NoClaim]
    /\ UNCHANGED <<runStatus, apiOwned, status, attempt, result, requeued>>

\* Mutant: the status is not part of the selection of stale leases.
RecoverAnyLease(S) ==
    /\ S # {}
    /\ \A n \in S : attempt[n] > 0 /\ requeued[n] < MaxRequeues
    /\ status' = [n \in Node |-> IF n \in S THEN "pending" ELSE status[n]]
    /\ requeued' = [n \in Node |-> IF n \in S THEN requeued[n] + 1 ELSE requeued[n]]
    /\ UNCHANGED <<runStatus, apiOwned, attempt, result, claim>>

\* recover_stale_leases, with S the leases that have expired.  A lease may
\* expire while its holder is still executing; the run's status is not read.
RecoverStaleLeases(S) ==
    /\ S # {}
    /\ \A n \in S : status[n] = "running" /\ requeued[n] < MaxRequeues
    /\ status' = [n \in Node |-> IF n \in S THEN "pending" ELSE status[n]]
    /\ requeued' = [n \in Node |-> IF n \in S THEN requeued[n] + 1 ELSE requeued[n]]
    /\ UNCHANGED <<runStatus, apiOwned, attempt, result, claim>>

\* The node update of resolve_requested_workflow_run_approval: an approved
\* and a rejected node both go back to pending.
RequeueApproval(n) ==
    /\ status[n] = "awaiting_approval"
    /\ requeued[n] < MaxRequeues
    /\ status' = [status EXCEPT ![n] = "pending"]
    /\ requeued' = [requeued EXCEPT ![n] = @ + 1]
    /\ UNCHANGED <<runStatus, apiOwned, attempt, result, claim>>

\* update_workflow_run_status_with_event: the owner is checked, the present
\* status is not.
SetRunStatus(r, s) ==
    /\ ~ apiOwned[r]
    /\ runStatus' = [runStatus EXCEPT ![r] = s]
    /\ UNCHANGED <<apiOwned, status, attempt, result, claim, requeued>>

RequestResume(r) == SetRunStatus(r, "running")
RequestCancel(r) == SetRunStatus(r, "cancelled")

\* The supervised-patch API adopts a run whose pause_reason is NULL.
AdoptRun(r) ==
    /\ ~ apiOwned[r]
    /\ apiOwned' = [apiOwned EXCEPT ![r] = TRUE]
    /\ UNCHANGED <<runStatus, status, attempt, result, claim, requeued>>

-----------------------------------------------------------------------------
WorkerStep(w) ==
    \/ \E r \in Run : Lease(w, r) \/ NoReadyNode(w, r)
    \/ \E out \in Outcome : Settle(w, out)
    \/ SettleStale(w)
    \/ Abandon(w)

Next ==
    \/ \E w \in Worker : WorkerStep(w)
    \/ \E S \in SUBSET Node : RecoverStaleLeases(S)
    \/ \E n \in Node : RequeueApproval(n)
    \/ \E r \in Run : RequestResume(r) \/ RequestCancel(r) \/ AdoptRun(r)

\* A scheduler worker ticks every active run again and again and every tick
\* begins with a lease recovery; an execution ends (executors have timeouts).
\* Approvals, cancellations and resumes are the operator's: no fairness.
Fairness ==
    /\ \A w \in Worker, r \in Run : WF_vars(Lease(w, r) \/ NoReadyNode(w, r))
    /\ \A w \in Worker :
          WF_vars(SettleStale(w) \/ \E out \in Outcome : Settle(w, out))
    /\ \A n \in Node :
          WF_vars(\E S \in SUBSET Node : n \in S /\ RecoverStaleLeases(S))

Spec == Init /\ [][Next]_vars

FairSpec == Spec /\ Fairness
-----------------------------------------------------------------------------
(* Properties. *)

\* The rows and the claims are well formed.
TypeOK ==
    /\ runStatus \in [Run -> RunStatus]
    /\ apiOwned \in [Run -> BOOLEAN]
    /\ status \in [Node -> NodeStatus]
    /\ attempt \in [Node -> Nat]
    /\ result \in [Node -> Nat]
    /\ claim \in [Worker -> Claims \cup {NoClaim}]
    /\ requeued \in [Node -> 0 .. MaxRequeues]

\* attempt_count is a fencing token: no two callers ever carry the same
\* attempt of a node, however often its lease expired and was given away, so
\* at most one caller at a time passes the WHERE clause of settlement.
LeaseExclusive ==
    \A v, w \in Worker :
        v # w /\ claim[v] # NoClaim => claim[v] # claim[w]

\* A node that waits, is done or was done by an executor carries the result of
\* its last lease: no slower, earlier execution has overwritten it.
ResultIsOfLastLease ==
    \A n \in Node :
        status[n] \in {"completed", "failed", "awaiting_approval"} =>
            attempt[n] > 0 /\ result[n] = attempt[n]

\* A node was leased only after its dependencies, and what it depends on has
\* not been taken back since: not by a late settlement, a recovered lease, a
\* cancellation or a resume.
DependenciesFirst ==
    \A n \in Node : attempt[n] > 0 =>
        \A p \in Parents(n) : status[p] = "completed"

\* A node is blocked for a cause that is still there: a parent that failed or
\* is itself blocked; and it never ran.
BlockedForCause ==
    \A n \in Node : status[n] = "blocked" =>
        /\ \E p \in Parents(n) : status[p] \in {"failed", "blocked"}
        /\ attempt[n] = 0

\* No node waits below a failure: between two transactions every failure has
\* reached all its pending descendants, so the scheduler cannot find a run
\* with nothing ready, nothing running and not all done.
FailurePropagated ==
    \A n \in Node : status[n] = "pending" =>
        \A p \in Parents(n) : status[p] \notin {"failed", "blocked"}

\* A run that says completed or failed has no work left, no live lease and no
\* open approval, and says completed exactly when nothing failed.
TerminalRunIsDone ==
    \A r \in Run :
        /\ runStatus[r] \in {"completed", "failed"} =>
              \A n \in NodesOf(r) : status[n] \in DoneStatus
        /\ runStatus[r] = "completed" =>
              \A n \in NodesOf(r) : status[n] = "completed"
        /\ runStatus[r] = "failed" =>
              \E n \in NodesOf(r) : status[n] = "failed"

\* max_retries bounds the leases of a node: beyond the first, each is paid for
\* by a retry of some caller's budget, a lease recovery or an approval.
RetryBudget ==
    \A n \in Node : attempt[n] > 0 =>
        \E w \in Worker : attempt[n] <= 1 + Retries[w] + requeued[n]

\* agent_max_concurrent_global and _per_run bound the agent steps that run, as
\* long as every caller passes the caps: also the callers that would lease an
\* agent step only to refuse it.
AgentCaps ==
    CappedWorker = Worker =>
        LET running == {n \in AgentNode : status[n] = "running"}
        IN  /\ Cardinality(running) <= GlobalCap
            /\ \A r \in Run : Cardinality({n \in running : RunOf[n] = r}) <= RunCap

\* A done node is final: no late settlement, recovery, resume or propagation
\* changes its status or its result.
DoneIsFinal ==
    [][\A n \in Node : status[n] \in DoneStatus =>
          status'[n] = status[n] /\ result'[n] = result[n]]_vars

\* Work does not get lost: a run again and again is terminal or waits for an
\* operator's approval, unless no caller is left that may tick it.
RunsProgress ==
    \A r \in Run :
        []<>(\/ IsRunTerminal(runStatus[r])
             \/ \E n \in NodesOf(r) : status[n] = "awaiting_approval"
             \/ \A w \in Worker : ~ RequireRunExecutionOwner(w, r))

\* What an expired lease, a late settlement and the retries may not do: attempt_count
\* fences the leases and their results, and stays within the budget.
LeasesAreFenced == LeaseExclusive /\ ResultIsOfLastLease /\ RetryBudget

\* What find_ready_node, propagate_failed_dependencies and check_run_completion make of
\* the graph between them, whoever settles what in which order.
GraphIsRespected ==
    /\ DependenciesFirst /\ BlockedForCause /\ FailurePropagated
    /\ TerminalRunIsDone
=============================================================================
