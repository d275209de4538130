-------------------------- MODULE WorkflowRunProofs --------------------------
(***************************************************************************)
(* Proofs of the safety properties of WorkflowRun, for every graph, every  *)
(* set of callers and every value of the caps, the budgets and the bound.  *)
(***************************************************************************)
EXTENDS WorkflowRun, FiniteSetTheorems, TLAPS

(* What propagate_failed_dependencies_locked does to a node table. *)

\* It blocks pending nodes of the run and changes nothing else.
LEMMA PropagateChanges ==
    ASSUME NEW st \in [Node -> NodeStatus], NEW r \in Run
    PROVE  LET new == PropagateFailedDependencies(st, r)
           IN  /\ new \in [Node -> NodeStatus]
               /\ \A n \in Node : \/ new[n] = st[n]
                                  \/ /\ st[n] = "pending"
                                     /\ new[n] = "blocked"
                                     /\ RunOf[n] = r
  BY DEF PropagateFailedDependencies, Doomed, Pending, NodesOf, NodeStatus

\* The set it blocks satisfies the rule it repeats.
LEMMA DoomedClosed ==
    ASSUME NEW st, NEW r
    PROVE  ClosedUnderFailure(st, r, Doomed(st, r))
  <1> SUFFICES ASSUME NEW n \in Pending(st, r),
                      NEW p \in Parents(n), p \in Failures(st, r) \cup Doomed(st, r),
                      NEW S \in SUBSET Pending(st, r), ClosedUnderFailure(st, r, S)
               PROVE  n \in S
    BY DEF ClosedUnderFailure, Doomed
  <1>1. p \in Failures(st, r) \cup S
    BY DEF Doomed
  <1> QED
    BY <1>1 DEF ClosedUnderFailure

\* It is the least such set: no node is in it without a parent that has failed,
\* is blocked, or is in it.
LEMMA DoomedCause ==
    ASSUME NEW st, NEW r, NEW n \in Doomed(st, r)
    PROVE  \E p \in Parents(n) : p \in Failures(st, r) \cup Doomed(st, r)
  <1> SUFFICES ASSUME \A p \in Parents(n) : p \notin Failures(st, r) \cup Doomed(st, r)
               PROVE  FALSE
    OBVIOUS
  <1> DEFINE S == Doomed(st, r) \ {n}
  <1>1. S \in SUBSET Pending(st, r)
    BY DEF Doomed
  <1>2. ClosedUnderFailure(st, r, S)
    BY DoomedClosed DEF ClosedUnderFailure
  <1>3. n \in S
    BY <1>1, <1>2 DEF Doomed
  <1> QED
    BY <1>3

\* Without a failure in the run nothing is blocked.
LEMMA DoomedNeedsFailure ==
    ASSUME NEW st, NEW r, NEW n \in Doomed(st, r)
    PROVE  Failures(st, r) # {}
  <1> SUFFICES ASSUME Failures(st, r) = {} PROVE FALSE
    OBVIOUS
  <1>1. ClosedUnderFailure(st, r, {})
    BY DEF ClosedUnderFailure
  <1> QED
    BY <1>1 DEF Doomed

\* Afterwards no node of the run is pending below a failure, and every node
\* it blocked is below one.
LEMMA PropagateComplete ==
    ASSUME NEW st \in [Node -> NodeStatus], NEW r \in Run
    PROVE  LET new == PropagateFailedDependencies(st, r)
           IN  /\ \A n \in NodesOf(r) : new[n] = "pending" =>
                     \A p \in Parents(n) : new[p] \notin {"failed", "blocked"}
               /\ \A n \in Node : new[n] = "blocked" /\ st[n] # "blocked" =>
                     /\ \E p \in Parents(n) : new[p] \in {"failed", "blocked"}
                     /\ Failures(st, r) # {}
  <1> DEFINE new == PropagateFailedDependencies(st, r)
  <1>1. ASSUME NEW n \in NodesOf(r), new[n] = "pending",
               NEW p \in Parents(n), new[p] \in {"failed", "blocked"}
        PROVE  FALSE
    <2>1. n \in Pending(st, r) /\ n \notin Doomed(st, r)
      BY <1>1 DEF PropagateFailedDependencies, Pending, NodesOf
    <2>2. p \in Failures(st, r) \cup Doomed(st, r)
      BY <1>1, ConstantsAssumption
      DEF PropagateFailedDependencies, Failures, NodesOf, Parents
    <2> QED
      BY <2>1, <2>2, DoomedClosed DEF ClosedUnderFailure
  <1>2. ASSUME NEW n \in Node, new[n] = "blocked", st[n] # "blocked"
        PROVE  /\ \E p \in Parents(n) : new[p] \in {"failed", "blocked"}
               /\ Failures(st, r) # {}
    <2>1. n \in Doomed(st, r)
      BY <1>2 DEF PropagateFailedDependencies
    <2>2. PICK p \in Parents(n) : p \in Failures(st, r) \cup Doomed(st, r)
      BY <2>1, DoomedCause
    <2>3. p \in Node
      BY DEF Parents
    <2>4. new[p] \in {"failed", "blocked"}
      BY <2>2, <2>3 DEF PropagateFailedDependencies, Failures
    <2> QED
      BY <2>1, <2>2, <2>4, DoomedNeedsFailure
  <1> QED
    BY <1>1, <1>2

-----------------------------------------------------------------------------
(* The inductive invariant. *)

\* Every claim is of the node's present attempt or of an earlier one.
ClaimsArePast ==
    \A w \in Worker : claim[w] # NoClaim =>
        claim[w].attempt \in 1 .. attempt[claim[w].node]

\* A node waiting for another lease has not used up what pays for it.
RetryHeadroom ==
    \A n \in Node : status[n] = "pending" /\ attempt[n] > 0 =>
        \E w \in Worker : attempt[n] <= Retries[w] + requeued[n]

\* Blocking in a run goes back to a failure in the run.
BlockedRunHasFailure ==
    \A n \in Node : status[n] = "blocked" =>
        \E m \in NodesOf(RunOf[n]) : status[m] = "failed"

\* Only a pending or a blocked node was never leased.
StartedHasAttempt ==
    \A n \in Node : status[n] \notin {"pending", "blocked"} => attempt[n] > 0

Graph ==
    /\ StartedHasAttempt /\ DependenciesFirst /\ FailurePropagated
    /\ BlockedForCause /\ BlockedRunHasFailure

Inv ==
    /\ TypeOK
    /\ ClaimsArePast /\ LeaseExclusive
    /\ ResultIsOfLastLease
    /\ Graph /\ TerminalRunIsDone
    /\ RetryHeadroom /\ RetryBudget
    /\ AgentCaps

\* The update that settlement makes before it propagates a failure.
Settled(w, out) ==
    [status EXCEPT ![claim[w].node] = ActualStatus(w, out, claim[w].attempt)]

\* What a caller that settles holds and what it may write.
LEMMA SettleFacts ==
    ASSUME TypeOK, ClaimsArePast, NEW w \in Worker, NEW out \in Outcome, Settle(w, out)
    PROVE  /\ claim[w] \in Claims
           /\ claim[w].node \in Node
           /\ claim[w].attempt \in Nat \ {0}
           /\ claim[w].attempt = attempt[claim[w].node]
           /\ status[claim[w].node] = "running"
           /\ RunOf[claim[w].node] \in Run
           /\ ActualStatus(w, out, claim[w].attempt)
                 \in {"pending", "completed", "failed", "awaiting_approval"}
           /\ ActualStatus(w, out, claim[w].attempt) = "pending" =>
                 claim[w].attempt <= Retries[w]
           /\ Settled(w, out) \in [Node -> NodeStatus]
           /\ status' = PropagateFailedDependencies(Settled(w, out), RunOf[claim[w].node])
  <1>1. claim[w] \in Claims
    BY DEF TypeOK, Settle
  <1>2. claim[w].node \in Node /\ claim[w].attempt \in Nat
    BY <1>1 DEF Claims
  <1>3. claim[w].attempt > 0
    BY <1>2 DEF ClaimsArePast, Settle, TypeOK
  <1>4. HoldsLease(w)
    BY DEF Settle
  <1>5. RunOf[claim[w].node] \in Run
    BY <1>2, ConstantsAssumption
  <1>6. Retries[w] \in Nat
    BY ConstantsAssumption
  <1>7. /\ ActualStatus(w, out, claim[w].attempt)
             \in {"pending", "completed", "failed", "awaiting_approval"}
        /\ ActualStatus(w, out, claim[w].attempt) = "pending" =>
             claim[w].attempt <= Retries[w]
    BY <1>2, <1>6 DEF ActualStatus, Outcome
  <1>8. Settled(w, out) \in [Node -> NodeStatus]
    BY <1>2, <1>7 DEF Settled, TypeOK, NodeStatus
  <1>9. status' = PropagateFailedDependencies(Settled(w, out), RunOf[claim[w].node])
    BY DEF Settle, Settled
  <1> QED
    BY <1>1, <1>2, <1>3, <1>4, <1>5, <1>7, <1>8, <1>9 DEF HoldsLease

\* How settlement changes one node's status, as seen from outside.
LEMMA SettleChanges ==
    ASSUME TypeOK, ClaimsArePast, NEW w \in Worker, NEW out \in Outcome, Settle(w, out)
    PROVE  /\ status' \in [Node -> NodeStatus]
           /\ status'[claim[w].node]
                 \in {"pending", "completed", "failed", "awaiting_approval", "blocked"}
           /\ \A n \in Node \ {claim[w].node} :
                 \/ status'[n] = status[n]
                 \/ /\ status[n] = "pending"
                    /\ status'[n] = "blocked"
                    /\ RunOf[n] = RunOf[claim[w].node]
  <1> DEFINE c == claim[w].node
             st == Settled(w, out)
  <1>1. /\ st \in [Node -> NodeStatus]
        /\ RunOf[c] \in Run
        /\ c \in Node
        /\ status' = PropagateFailedDependencies(st, RunOf[c])
    BY SettleFacts
  <1>2. /\ st[c] \in {"pending", "completed", "failed", "awaiting_approval"}
        /\ \A n \in Node \ {c} : st[n] = status[n]
    BY <1>1, SettleFacts DEF Settled, TypeOK
  <1>3. /\ status' \in [Node -> NodeStatus]
        /\ \A n \in Node : \/ status'[n] = st[n]
                           \/ /\ st[n] = "pending"
                              /\ status'[n] = "blocked"
                              /\ RunOf[n] = RunOf[c]
    BY <1>1, PropagateChanges
  <1> QED
    BY <1>1, <1>2, <1>3

\* The run status written from a completion check is a run status.
LEMMA RunCompletionType ==
    ASSUME NEW st, NEW r, NEW cur \in RunStatus
    PROVE  RunCompletion(st, r, cur) \in RunStatus
  BY DEF RunCompletion, RunStatus

\* The candidates of a tick are pending nodes of the run whose parents allow it.
LEMMA CandidateFacts ==
    ASSUME NEW w, NEW r, NEW n \in Candidates(w, r)
    PROVE  /\ n \in Node /\ RunOf[n] = r /\ Ready(n)
           /\ n \in AgentNode /\ w \in CappedWorker => UnderAgentCaps(r)
  BY DEF Candidates, NodesOf

\* Every step keeps the rows and the claims well formed.
LEMMA TypeStep ==
    ASSUME TypeOK, ClaimsArePast, [Next]_vars
    PROVE  TypeOK'
  <1>1. ASSUME NEW w \in Worker, NEW r \in Run, Lease(w, r) PROVE TypeOK'
    <2>1. PICK n \in Candidates(w, r) :
             /\ runStatus' = [runStatus EXCEPT ![r] = "running"]
             /\ status' = [status EXCEPT ![n] = "running"]
             /\ attempt' = [attempt EXCEPT ![n] = @ + 1]
             /\ claim' = [claim EXCEPT ![w] = [node |-> n, attempt |-> attempt[n] + 1]]
      BY <1>1 DEF Lease
    <2>2. n \in Node
      BY CandidateFacts
    <2>3. [node |-> n, attempt |-> attempt[n] + 1] \in Claims
      BY <2>2 DEF Claims, TypeOK
    <2>4. claim' \in [Worker -> Claims \cup {NoClaim}]
      BY <2>1, <2>3 DEF TypeOK
    <2> QED
      BY <1>1, <2>1, <2>2, <2>4 DEF Lease, TypeOK, RunStatus, NodeStatus
  <1>2. ASSUME NEW w \in Worker, NEW r \in Run, NoReadyNode(w, r) PROVE TypeOK'
    <2>1. status' \in [Node -> NodeStatus]
      BY <1>2, PropagateChanges DEF NoReadyNode, TypeOK
    <2>2. RunCompletion(status', r, "running") \in RunStatus
      BY RunCompletionType DEF RunStatus
    <2> QED
      BY <1>2, <2>1, <2>2 DEF NoReadyNode, TypeOK
  <1>3. ASSUME NEW w \in Worker, NEW out \in Outcome, Settle(w, out) PROVE TypeOK'
    <2> DEFINE r == RunOf[claim[w].node]
    <2>1. status' \in [Node -> NodeStatus]
      BY <1>3, SettleChanges
    <2>2. r \in Run /\ claim[w].node \in Node /\ claim[w].attempt \in Nat
      BY <1>3, SettleFacts
    <2>3. RunCompletion(status', r, runStatus[r]) \in RunStatus
      BY <2>2, RunCompletionType DEF TypeOK
    <2>4. runStatus' \in [Run -> RunStatus]
      BY <1>3, <2>2, <2>3 DEF Settle, TypeOK
    <2>5. result' \in [Node -> Nat]
      BY <1>3, <2>2 DEF Settle, TypeOK
    <2> QED
      BY <1>3, <2>1, <2>4, <2>5 DEF Settle, TypeOK
  <1>4. ASSUME NEW w \in Worker, SettleStale(w) \/ Abandon(w) PROVE TypeOK'
    BY <1>4 DEF SettleStale, Abandon, TypeOK
  <1>5. ASSUME NEW S \in SUBSET Node, RecoverStaleLeases(S) PROVE TypeOK'
    BY <1>5, ConstantsAssumption DEF RecoverStaleLeases, TypeOK, NodeStatus
  <1>6. ASSUME NEW n \in Node, RequeueApproval(n) PROVE TypeOK'
    BY <1>6, ConstantsAssumption DEF RequeueApproval, TypeOK, NodeStatus
  <1>7. ASSUME NEW r \in Run, RequestResume(r) \/ RequestCancel(r) PROVE TypeOK'
    BY <1>7 DEF RequestResume, RequestCancel, SetRunStatus, TypeOK, RunStatus
  <1>8. ASSUME NEW r \in Run, AdoptRun(r) PROVE TypeOK'
    BY <1>8 DEF AdoptRun, TypeOK
  <1>9. CASE UNCHANGED vars
    BY <1>9 DEF vars, TypeOK
  <1> QED
    BY <1>1, <1>2, <1>3, <1>4, <1>5, <1>6, <1>7, <1>8, <1>9 DEF Next, WorkerStep

\* Every step keeps attempt_count a fencing token.
LEMMA FenceStep ==
    ASSUME TypeOK, TypeOK', ClaimsArePast, LeaseExclusive, [Next]_vars
    PROVE  ClaimsArePast' /\ LeaseExclusive'
  <1>1. ASSUME NEW w \in Worker, NEW r \in Run, Lease(w, r)
        PROVE  ClaimsArePast' /\ LeaseExclusive'
    <2>1. PICK n \in Candidates(w, r) :
             /\ attempt' = [attempt EXCEPT ![n] = @ + 1]
             /\ claim' = [claim EXCEPT ![w] = [node |-> n, attempt |-> attempt[n] + 1]]
      BY <1>1 DEF Lease
    <2>2. n \in Node /\ attempt[n] \in Nat
      BY CandidateFacts DEF TypeOK
    <2>3. claim'[w].node = n /\ claim'[w].attempt = attempt[n] + 1
      BY <2>1 DEF TypeOK
    <2>4. \A v \in Worker : v # w => claim'[v] = claim[v]
      BY <2>1 DEF TypeOK
    <2>5. \A v \in Worker : claim[v] # NoClaim =>
             /\ claim[v].node \in Node
             /\ claim[v].attempt \in Nat
             /\ attempt[claim[v].node] \in Nat
             /\ claim[v].attempt >= 1
             /\ claim[v].attempt <= attempt[claim[v].node]
      BY DEF TypeOK, Claims, ClaimsArePast
    <2>6. \A m \in Node : attempt'[m] \in Nat /\ attempt'[m] >= attempt[m]
      BY <2>1, <2>2 DEF TypeOK
    <2>7. attempt'[n] = attempt[n] + 1
      BY <2>1, <2>2 DEF TypeOK
    <2>8. ClaimsArePast'
      BY <2>2, <2>3, <2>4, <2>5, <2>6, <2>7 DEF ClaimsArePast, TypeOK
    <2>9. \A v \in Worker : v # w /\ claim[v] # NoClaim => claim[v] # claim'[w]
      BY <2>2, <2>3, <2>5
    <2> QED
      BY <2>4, <2>8, <2>9 DEF LeaseExclusive
  <1>2. ASSUME NEW w \in Worker,
               claim' = [claim EXCEPT ![w] = NoClaim], UNCHANGED attempt
        PROVE  ClaimsArePast' /\ LeaseExclusive'
    BY <1>2 DEF ClaimsArePast, LeaseExclusive, TypeOK
  <1>3. ASSUME UNCHANGED <<claim, attempt>>
        PROVE  ClaimsArePast' /\ LeaseExclusive'
    BY <1>3 DEF ClaimsArePast, LeaseExclusive
  <1> QED
    BY <1>1, <1>2, <1>3
    DEF Next, WorkerStep, NoReadyNode, Settle, SettleStale, Abandon, RecoverStaleLeases,
        RequeueApproval, RequestResume, RequestCancel, SetRunStatus, AdoptRun, vars

\* When every failure has been propagated there is nothing left to block.
LEMMA NothingDoomed ==
    ASSUME FailurePropagated, TypeOK, NEW r \in Run
    PROVE  PropagateFailedDependencies(status, r) = status
  <1>1. ClosedUnderFailure(status, r, {})
    BY DEF ClosedUnderFailure, FailurePropagated, Pending, Failures, NodesOf
  <1>2. Doomed(status, r) = {}
    BY <1>1 DEF Doomed
  <1> QED
    BY <1>2 DEF PropagateFailedDependencies, TypeOK

\* Every step keeps the statuses consistent with the graph.
LEMMA GraphStep ==
    ASSUME TypeOK, TypeOK', ClaimsArePast, Graph, [Next]_vars
    PROVE  Graph'
  <1> USE DEF Graph
  <1>0. \A n \in Node : \A p \in Parents(n) : p \in Node /\ RunOf[p] = RunOf[n]
    BY ConstantsAssumption DEF Parents
  <1>1. ASSUME NEW w \in Worker, NEW r \in Run, Lease(w, r) PROVE Graph'
    <2>1. PICK n \in Candidates(w, r) :
             /\ status' = [status EXCEPT ![n] = "running"]
             /\ attempt' = [attempt EXCEPT ![n] = @ + 1]
      BY <1>1 DEF Lease
    <2>2. n \in Node /\ attempt[n] \in Nat /\ status[n] = "pending"
      BY CandidateFacts DEF TypeOK, Ready
    <2>3. \A p \in Parents(n) : status[p] = "completed"
      BY <2>2, CandidateFacts DEF Ready, FailurePropagated
    <2>4. /\ status'[n] = "running" /\ attempt'[n] > 0
          /\ \A m \in Node \ {n} : status'[m] = status[m] /\ attempt'[m] = attempt[m]
      BY <2>1, <2>2 DEF TypeOK
    <2>5. StartedHasAttempt'
      BY <2>2, <2>4 DEF StartedHasAttempt
    <2>6. DependenciesFirst'
      BY <1>0, <2>2, <2>3, <2>4 DEF DependenciesFirst
    <2>7. FailurePropagated'
      BY <1>0, <2>2, <2>4 DEF FailurePropagated
    <2>8. BlockedForCause'
      BY <1>0, <2>2, <2>4 DEF BlockedForCause
    <2>9. BlockedRunHasFailure'
      BY <2>2, <2>4 DEF BlockedRunHasFailure, NodesOf
    <2> QED
      BY <2>5, <2>6, <2>7, <2>8, <2>9
  <1>2. ASSUME NEW w \in Worker, NEW out \in Outcome, Settle(w, out) PROVE Graph'
    <2> DEFINE c  == claim[w].node
               r  == RunOf[c]
               st == Settled(w, out)
    <2>1. /\ c \in Node /\ r \in Run /\ status[c] = "running"
          /\ st \in [Node -> NodeStatus]
          /\ status' = PropagateFailedDependencies(st, r)
          /\ st[c] \in {"pending", "completed", "failed", "awaiting_approval"}
          /\ \A n \in Node \ {c} : st[n] = status[n]
      BY <1>2, SettleFacts DEF Settled, TypeOK
    <2>2. \A n \in Node \ {c} : \/ status'[n] = status[n]
                                \/ /\ status[n] = "pending"
                                   /\ status'[n] = "blocked"
                                   /\ RunOf[n] = r
      BY <1>2, SettleChanges
    <2>3. UNCHANGED attempt
      BY <1>2 DEF Settle
    <2>4. \A n \in Node : status[n] \in DoneStatus => status'[n] = status[n]
      BY <2>1, <2>2 DEF DoneStatus
    <2>5. StartedHasAttempt'
      BY <2>1, <2>2, <2>3 DEF StartedHasAttempt
    <2>6. DependenciesFirst'
      BY <1>0, <2>3, <2>4 DEF DependenciesFirst, DoneStatus
    <2>7. FailurePropagated'
      <3> SUFFICES ASSUME NEW n \in Node, status'[n] = "pending",
                          NEW p \in Parents(n), status'[p] \in {"failed", "blocked"}
                   PROVE  FALSE
        BY DEF FailurePropagated
      <3>1. CASE RunOf[n] = r
        BY <2>1, <3>1, PropagateComplete DEF NodesOf
      <3>2. CASE RunOf[n] # r
        BY <1>0, <2>1, <2>2, <3>2 DEF FailurePropagated
      <3> QED
        BY <3>1, <3>2
    <2>8. BlockedForCause'
      <3> SUFFICES ASSUME NEW n \in Node, status'[n] = "blocked"
                   PROVE  /\ \E p \in Parents(n) : status'[p] \in {"failed", "blocked"}
                          /\ attempt'[n] = 0
        BY DEF BlockedForCause
      <3>1. CASE status[n] = "blocked"
        BY <1>0, <2>3, <2>4, <3>1 DEF BlockedForCause, DoneStatus
      <3>2. CASE status[n] # "blocked"
        <4>1. st[n] # "blocked"
          BY <2>1, <3>2
        <4>2. PICK p \in Parents(n) : status'[p] \in {"failed", "blocked"}
          BY <2>1, <4>1, PropagateComplete
        <4>3. ~ (attempt[n] > 0)
          BY <1>0, <2>4, <4>2 DEF DependenciesFirst, DoneStatus
        <4> QED
          BY <2>3, <4>2, <4>3 DEF TypeOK
      <3> QED
        BY <3>1, <3>2
    <2>9. BlockedRunHasFailure'
      <3> SUFFICES ASSUME NEW n \in Node, status'[n] = "blocked"
                   PROVE  \E m \in NodesOf(RunOf[n]) : status'[m] = "failed"
        BY DEF BlockedRunHasFailure
      <3>1. CASE status[n] = "blocked"
        BY <2>4, <3>1 DEF BlockedRunHasFailure, NodesOf, DoneStatus
      <3>2. CASE status[n] # "blocked"
        <4>1. RunOf[n] = r /\ st[n] # "blocked"
          BY <2>1, <2>2, <3>2
        <4>2. PICK f \in NodesOf(r) : st[f] \in {"failed", "blocked"}
          BY <2>1, <4>1, PropagateComplete DEF Failures
        <4>3. CASE st[f] = "failed"
          BY <2>1, <4>1, <4>2, <4>3, PropagateChanges DEF NodesOf
        <4>4. CASE st[f] = "blocked"
          <5>1. f \in Node /\ f # c /\ status[f] = "blocked" /\ RunOf[f] = r
            BY <2>1, <4>2, <4>4 DEF NodesOf
          <5> QED
            BY <2>4, <4>1, <5>1 DEF BlockedRunHasFailure, NodesOf, DoneStatus
        <4> QED
          BY <4>2, <4>3, <4>4
      <3> QED
        BY <3>1, <3>2
    <2> QED
      BY <2>5, <2>6, <2>7, <2>8, <2>9
  <1>3. ASSUME NEW S \in SUBSET Node,
               \A n \in S : status[n] \in {"running", "awaiting_approval"},
               status' = [n \in Node |-> IF n \in S THEN "pending" ELSE status[n]],
               UNCHANGED attempt
        PROVE  Graph'
    <2>1. \A n \in S : attempt[n] > 0 /\ \A p \in Parents(n) : status[p] = "completed"
      BY <1>3 DEF StartedHasAttempt, DependenciesFirst
    <2>2. \A n \in Node : status[n] \in DoneStatus => status'[n] = status[n]
      BY <1>3 DEF DoneStatus
    <2>3. StartedHasAttempt' /\ DependenciesFirst'
      BY <1>0, <1>3, <2>2 DEF StartedHasAttempt, DependenciesFirst, DoneStatus
    <2>4. FailurePropagated'
      BY <1>0, <1>3, <2>1, <2>2 DEF FailurePropagated, DoneStatus
    <2>5. BlockedForCause'
      BY <1>0, <1>3, <2>2 DEF BlockedForCause, DoneStatus
    <2>6. BlockedRunHasFailure'
      BY <1>3, <2>2 DEF BlockedRunHasFailure, NodesOf, DoneStatus
    <2> QED
      BY <2>3, <2>4, <2>5, <2>6
  <1>4. ASSUME UNCHANGED <<status, attempt>> PROVE Graph'
    BY <1>4 DEF StartedHasAttempt, DependenciesFirst, FailurePropagated, BlockedForCause,
                BlockedRunHasFailure
  <1>5. ASSUME NEW S \in SUBSET Node, RecoverStaleLeases(S) PROVE Graph'
    BY <1>3, <1>5 DEF RecoverStaleLeases
  <1>6. ASSUME NEW n \in Node, RequeueApproval(n) PROVE Graph'
    <2>1. status' = [m \in Node |-> IF m \in {n} THEN "pending" ELSE status[m]]
      BY <1>6 DEF RequeueApproval, TypeOK
    <2> QED
      BY <1>3, <1>6, <2>1 DEF RequeueApproval
  <1>7. ASSUME NEW w \in Worker, NEW r \in Run, NoReadyNode(w, r) PROVE Graph'
    BY <1>4, <1>7, NothingDoomed DEF NoReadyNode
  <1> QED
    BY <1>1, <1>2, <1>4, <1>5, <1>6, <1>7
    DEF Next, WorkerStep, SettleStale, Abandon, RequestResume, RequestCancel,
        SetRunStatus, AdoptRun, vars

\* No step changes the status or the result of a done node.
LEMMA DoneStep ==
    ASSUME TypeOK, ClaimsArePast, FailurePropagated, [Next]_vars,
           NEW n \in Node, status[n] \in DoneStatus
    PROVE  status'[n] = status[n] /\ result'[n] = result[n]
  <1>1. ASSUME NEW w \in Worker, NEW r \in Run, Lease(w, r)
        PROVE  status'[n] = status[n] /\ result'[n] = result[n]
    BY <1>1, CandidateFacts DEF Lease, Ready, TypeOK, DoneStatus
  <1>2. ASSUME NEW w \in Worker, NEW out \in Outcome, Settle(w, out)
        PROVE  status'[n] = status[n] /\ result'[n] = result[n]
    <2>1. claim[w].node # n
      BY <1>2, SettleFacts DEF DoneStatus
    <2> QED
      BY <1>2, <2>1, SettleChanges DEF Settle, TypeOK, DoneStatus
  <1>3. ASSUME NEW w \in Worker, NEW r \in Run, NoReadyNode(w, r)
        PROVE  status'[n] = status[n] /\ result'[n] = result[n]
    BY <1>3, NothingDoomed DEF NoReadyNode
  <1> QED
    BY <1>1, <1>2, <1>3
    DEF Next, WorkerStep, SettleStale, Abandon, RecoverStaleLeases, RequeueApproval,
        RequestResume, RequestCancel, SetRunStatus, AdoptRun, vars, DoneStatus, TypeOK

\* Every step keeps the recorded result that of the last lease.
LEMMA ResultStep ==
    ASSUME TypeOK, ClaimsArePast, FailurePropagated, ResultIsOfLastLease, [Next]_vars
    PROVE  ResultIsOfLastLease'
  <1> DEFINE Fresh == {"completed", "failed", "awaiting_approval"}
  <1>1. ASSUME NEW w \in Worker, NEW r \in Run, Lease(w, r)
        PROVE  ResultIsOfLastLease'
    <2>1. PICK n \in Candidates(w, r) :
             /\ status' = [status EXCEPT ![n] = "running"]
             /\ attempt' = [attempt EXCEPT ![n] = @ + 1]
      BY <1>1 DEF Lease
    <2>2. /\ status'[n] = "running"
          /\ \A m \in Node \ {n} : status'[m] = status[m] /\ attempt'[m] = attempt[m]
      BY <2>1, CandidateFacts DEF TypeOK
    <2> QED
      BY <1>1, <2>2 DEF Lease, ResultIsOfLastLease
  <1>2. ASSUME NEW w \in Worker, NEW out \in Outcome, Settle(w, out)
        PROVE  ResultIsOfLastLease'
    <2> DEFINE c == claim[w].node
    <2>1. /\ c \in Node /\ attempt[c] = claim[w].attempt /\ attempt[c] \in Nat \ {0}
      BY <1>2, SettleFacts
    <2>2. /\ result'[c] = attempt'[c] /\ attempt'[c] > 0
          /\ \A m \in Node \ {c} : result'[m] = result[m] /\ attempt'[m] = attempt[m]
      BY <1>2, <2>1 DEF Settle, TypeOK
    <2>3. \A m \in Node \ {c} : status'[m] \in Fresh => status[m] = status'[m]
      BY <1>2, SettleChanges
    <2> QED
      BY <2>2, <2>3 DEF ResultIsOfLastLease
  <1>3. ASSUME UNCHANGED <<attempt, result>>,
               \A n \in Node : status'[n] \in Fresh => status[n] = status'[n]
        PROVE  ResultIsOfLastLease'
    BY <1>3 DEF ResultIsOfLastLease
  <1>4. ASSUME NEW w \in Worker, NEW r \in Run, NoReadyNode(w, r)
        PROVE  ResultIsOfLastLease'
    BY <1>3, <1>4, NothingDoomed DEF NoReadyNode
  <1>5. ASSUME NEW S \in SUBSET Node, RecoverStaleLeases(S) PROVE ResultIsOfLastLease'
    BY <1>3, <1>5 DEF RecoverStaleLeases
  <1>6. ASSUME NEW n \in Node, RequeueApproval(n) PROVE ResultIsOfLastLease'
    BY <1>3, <1>6 DEF RequeueApproval, TypeOK
  <1> QED
    BY <1>1, <1>2, <1>3, <1>4, <1>5, <1>6
    DEF Next, WorkerStep, SettleStale, Abandon, RequestResume, RequestCancel,
        SetRunStatus, AdoptRun, vars

\* A completion check that ends a run ends it for the right reason.
RunIsRight(s, st, r) ==
    /\ s \in {"completed", "failed"} => \A n \in NodesOf(r) : st[n] \in DoneStatus
    /\ s = "completed" => \A n \in NodesOf(r) : st[n] = "completed"
    /\ s = "failed" => \E n \in NodesOf(r) : st[n] = "failed"

\* check_run_completion_locked says completed or failed only when that is right.
LEMMA RunCompletionRight ==
    ASSUME NEW st, NEW r, NEW cur, cur \notin {"completed", "failed"},
           \A n \in NodesOf(r) : st[n] = "blocked" =>
               \E m \in NodesOf(r) : st[m] = "failed"
    PROVE  RunIsRight(RunCompletion(st, r, cur), st, r)
  BY DEF RunIsRight, RunCompletion, Failures, DoneStatus

\* Every step keeps a terminal run done.
LEMMA TerminalStep ==
    ASSUME TypeOK, TypeOK', ClaimsArePast, Graph, Graph', TerminalRunIsDone, [Next]_vars
    PROVE  TerminalRunIsDone'
  <1>0. TerminalRunIsDone <=> \A r \in Run : RunIsRight(runStatus[r], status, r)
    BY DEF TerminalRunIsDone, RunIsRight
  <1> SUFFICES ASSUME NEW r \in Run PROVE RunIsRight(runStatus'[r], status', r)
    BY DEF TerminalRunIsDone, RunIsRight
  <1>a. RunIsRight(runStatus[r], status, r)
    BY <1>0
  <1>b. \A n \in NodesOf(r) : status'[n] = "blocked" =>
            \E m \in NodesOf(r) : status'[m] = "failed"
    BY DEF Graph, BlockedRunHasFailure, NodesOf
  \* A run whose status stays keeps its done nodes, and gets no others.
  <1>c. ASSUME runStatus'[r] = runStatus[r]
        PROVE  RunIsRight(runStatus'[r], status', r)
    <2>1. \A n \in Node : status[n] \in DoneStatus => status'[n] = status[n]
      BY DoneStep DEF Graph
    <2> QED
      BY <1>a, <1>c, <2>1 DEF RunIsRight, NodesOf, DoneStatus
  <1>1. ASSUME NEW w \in Worker, NEW q \in Run, Lease(w, q)
        PROVE  RunIsRight(runStatus'[r], status', r)
    <2>1. CASE q = r
      BY <1>1, <2>1 DEF Lease, TypeOK, RunIsRight
    <2>2. CASE q # r
      BY <1>1, <1>c, <2>2 DEF Lease, TypeOK
    <2> QED
      BY <2>1, <2>2
  <1>2. ASSUME NEW w \in Worker, NEW q \in Run, NoReadyNode(w, q)
        PROVE  RunIsRight(runStatus'[r], status', r)
    <2>1. CASE q = r
      <3>1. runStatus'[r] = RunCompletion(status', r, "running")
        BY <1>2, <2>1 DEF NoReadyNode, TypeOK
      <3> QED
        BY <1>b, <3>1, RunCompletionRight
    <2>2. CASE q # r
      BY <1>2, <1>c, <2>2 DEF NoReadyNode, TypeOK
    <2> QED
      BY <2>1, <2>2
  <1>3. ASSUME NEW w \in Worker, NEW out \in Outcome, Settle(w, out)
        PROVE  RunIsRight(runStatus'[r], status', r)
    <2> DEFINE c == claim[w].node
    <2>0. c \in Node /\ status[c] = "running" /\ RunOf[c] \in Run
      BY <1>3, SettleFacts
    <2>1. CASE RunOf[c] = r
      <3>1. runStatus[r] \notin {"completed", "failed"}
        BY <1>a, <2>0, <2>1 DEF RunIsRight, NodesOf, DoneStatus
      <3>2. runStatus'[r] = RunCompletion(status', r, runStatus[r])
        BY <1>3, <2>0, <2>1 DEF Settle, TypeOK
      <3> QED
        BY <1>b, <3>1, <3>2, RunCompletionRight
    <2>2. CASE RunOf[c] # r
      BY <1>3, <1>c, <2>0, <2>2 DEF Settle, TypeOK
    <2> QED
      BY <2>1, <2>2
  <1>4. ASSUME NEW q \in Run, RequestResume(q) \/ RequestCancel(q)
        PROVE  RunIsRight(runStatus'[r], status', r)
    <2>1. CASE q = r
      BY <1>4, <2>1 DEF RequestResume, RequestCancel, SetRunStatus, TypeOK, RunIsRight
    <2>2. CASE q # r
      BY <1>4, <1>c, <2>2 DEF RequestResume, RequestCancel, SetRunStatus, TypeOK
    <2> QED
      BY <2>1, <2>2
  <1> QED
    BY <1>1, <1>2, <1>3, <1>4, <1>c
    DEF Next, WorkerStep, SettleStale, Abandon, RecoverStaleLeases, RequeueApproval,
        AdoptRun, vars

\* Every step keeps the leases of a node within what pays for them.
LEMMA RetryStep ==
    ASSUME TypeOK, TypeOK', ClaimsArePast, FailurePropagated, RetryHeadroom, RetryBudget,
           [Next]_vars
    PROVE  RetryHeadroom' /\ RetryBudget'
  <1>0. /\ \A w \in Worker : Retries[w] \in Nat
        /\ \A n \in Node : attempt[n] \in Nat /\ requeued[n] \in Nat
    BY ConstantsAssumption DEF TypeOK
  <1>1. ASSUME NEW w \in Worker, NEW r \in Run, Lease(w, r)
        PROVE  RetryHeadroom' /\ RetryBudget'
    <2>1. PICK n \in Candidates(w, r) :
             /\ status' = [status EXCEPT ![n] = "running"]
             /\ attempt' = [attempt EXCEPT ![n] = @ + 1]
      BY <1>1 DEF Lease
    <2>2. n \in Node /\ status[n] = "pending"
      BY CandidateFacts DEF Ready
    <2>3. /\ status'[n] = "running" /\ attempt'[n] = attempt[n] + 1
          /\ \A m \in Node \ {n} : status'[m] = status[m] /\ attempt'[m] = attempt[m]
          /\ UNCHANGED requeued
      BY <1>1, <2>1, <2>2 DEF TypeOK, Lease
    <2>4. RetryHeadroom'
      BY <2>3 DEF RetryHeadroom
    <2>5. \E v \in Worker : attempt'[n] <= 1 + Retries[v] + requeued'[n]
      <3>1. CASE attempt[n] = 0
        BY <1>0, <2>2, <2>3, <3>1
      <3>2. CASE attempt[n] > 0
        BY <1>0, <2>2, <2>3, <3>2 DEF RetryHeadroom
      <3> QED
        BY <1>0, <2>2, <3>1, <3>2
    <2> QED
      BY <2>3, <2>4, <2>5 DEF RetryBudget
  <1>2. ASSUME NEW w \in Worker, NEW out \in Outcome, Settle(w, out)
        PROVE  RetryHeadroom' /\ RetryBudget'
    <2> DEFINE c == claim[w].node
    <2>1. UNCHANGED <<attempt, requeued>>
      BY <1>2 DEF Settle
    <2>2. RetryBudget'
      BY <2>1 DEF RetryBudget
    <2>3. \A m \in Node \ {c} : status'[m] = "pending" => status[m] = "pending"
      BY <1>2, SettleChanges DEF TypeOK
    <2>4. c \in Node /\ (status'[c] = "pending" => attempt[c] <= Retries[w])
      <3>1. /\ c \in Node /\ attempt[c] = claim[w].attempt
            /\ Settled(w, out)[c] = "pending" => attempt[c] <= Retries[w]
        BY <1>2, SettleFacts DEF Settled, TypeOK
      <3>2. status'[c] = Settled(w, out)[c] \/ status'[c] = "blocked"
        BY <1>2, <3>1, SettleFacts, PropagateChanges
      <3> QED
        BY <3>1, <3>2
    <2>5. status'[c] = "pending" => attempt[c] <= Retries[w] + requeued[c]
      BY <1>0, <2>4
    <2> QED
      BY <2>1, <2>2, <2>3, <2>5 DEF RetryHeadroom
  <1>3. ASSUME NEW S \in SUBSET Node,
               \A n \in S : attempt[n] > 0 => \E v \in Worker :
                   attempt[n] <= 1 + Retries[v] + requeued[n],
               status' = [n \in Node |-> IF n \in S THEN "pending" ELSE status[n]],
               requeued' = [n \in Node |-> IF n \in S THEN requeued[n] + 1 ELSE requeued[n]],
               UNCHANGED attempt
        PROVE  RetryHeadroom' /\ RetryBudget'
    <2>1. \A n \in S : attempt'[n] > 0 => \E v \in Worker :
              attempt'[n] <= Retries[v] + requeued'[n]
      BY <1>0, <1>3
    <2>2. \A n \in Node \ S : status'[n] = status[n] /\ requeued'[n] = requeued[n]
      BY <1>3
    <2>3. \A n \in S, v \in Worker : attempt'[n] <= Retries[v] + requeued'[n] =>
              attempt'[n] <= 1 + Retries[v] + requeued'[n]
      BY <1>0, <1>3
    <2> QED
      BY <1>3, <2>1, <2>2, <2>3 DEF RetryHeadroom, RetryBudget
  <1>4. ASSUME UNCHANGED <<status, attempt, requeued>>
        PROVE  RetryHeadroom' /\ RetryBudget'
    BY <1>4 DEF RetryHeadroom, RetryBudget
  <1>5. ASSUME NEW S \in SUBSET Node, RecoverStaleLeases(S)
        PROVE  RetryHeadroom' /\ RetryBudget'
    BY <1>3, <1>5 DEF RecoverStaleLeases, RetryBudget
  <1>6. ASSUME NEW n \in Node, RequeueApproval(n)
        PROVE  RetryHeadroom' /\ RetryBudget'
    <2>1. /\ status' = [m \in Node |-> IF m \in {n} THEN "pending" ELSE status[m]]
          /\ requeued' = [m \in Node |-> IF m \in {n} THEN requeued[m] + 1 ELSE requeued[m]]
          /\ UNCHANGED attempt
      BY <1>6 DEF RequeueApproval, TypeOK
    <2> QED
      BY <1>3, <2>1 DEF RetryBudget
  <1>7. ASSUME NEW w \in Worker, NEW r \in Run, NoReadyNode(w, r)
        PROVE  RetryHeadroom' /\ RetryBudget'
    BY <1>4, <1>7, NothingDoomed DEF NoReadyNode
  <1> QED
    BY <1>1, <1>2, <1>4, <1>5, <1>6, <1>7
    DEF Next, WorkerStep, SettleStale, Abandon, RequestResume, RequestCancel,
        SetRunStatus, AdoptRun, vars

\* A set of nodes that grows by at most one element, and by none when it had
\* reached the cap, stays within the cap.
LEMMA CapKept ==
    ASSUME NEW A \in SUBSET Node, NEW B \in SUBSET Node, NEW n \in Node, NEW cap \in Nat,
           Cardinality(A) <= cap,
           B \subseteq A \/ (B \subseteq A \cup {n} /\ Cardinality(A) < cap)
    PROVE  Cardinality(B) <= cap
  <1>1. IsFiniteSet(A) /\ IsFiniteSet(A \cup {n})
    BY ConstantsAssumption, FS_Subset, FS_AddElement
  <1>2. /\ Cardinality(A) \in Nat
        /\ Cardinality(A \cup {n}) \in {Cardinality(A), Cardinality(A) + 1}
    BY <1>1, FS_CardinalityType, FS_AddElement
  <1>3. CASE B \subseteq A
    BY <1>1, <1>2, <1>3, FS_Subset, FS_CardinalityType
  <1>4. CASE B \subseteq A \cup {n} /\ Cardinality(A) < cap
    <2>1. IsFiniteSet(B) /\ Cardinality(B) <= Cardinality(A \cup {n})
      BY <1>1, <1>4, FS_Subset
    <2>2. Cardinality(B) \in Nat
      BY <2>1, FS_CardinalityType
    <2> QED
      BY <1>2, <1>4, <2>1, <2>2
  <1> QED
    BY <1>3, <1>4

RunningAgents == {n \in AgentNode : status[n] = "running"}
RunningAgentsOf(r) == {n \in RunningAgents : RunOf[n] = r}

\* Every step keeps the running agent steps within the caps.
LEMMA CapsStep ==
    ASSUME TypeOK, ClaimsArePast, FailurePropagated, AgentCaps, [Next]_vars
    PROVE  AgentCaps'
  <1> SUFFICES ASSUME CappedWorker = Worker
               PROVE  /\ Cardinality(RunningAgents') <= GlobalCap
                      /\ \A r \in Run : Cardinality(RunningAgentsOf(r)') <= RunCap
    BY DEF AgentCaps, RunningAgents, RunningAgentsOf
  <1>0. /\ Cardinality(RunningAgents) <= GlobalCap
        /\ \A r \in Run : Cardinality(RunningAgentsOf(r)) <= RunCap
    BY DEF AgentCaps, RunningAgents, RunningAgentsOf
  <1>a. /\ RunningAgents \in SUBSET Node /\ RunningAgents' \in SUBSET Node
        /\ \A r : RunningAgentsOf(r) \in SUBSET Node /\ RunningAgentsOf(r)' \in SUBSET Node
        /\ GlobalCap \in Nat /\ RunCap \in Nat
    BY ConstantsAssumption DEF RunningAgents, RunningAgentsOf
  <1>b. ASSUME \A n \in Node : status'[n] = "running" => status[n] = "running"
        PROVE  /\ Cardinality(RunningAgents') <= GlobalCap
               /\ \A r \in Run : Cardinality(RunningAgentsOf(r)') <= RunCap
    <2>1. /\ RunningAgents' \subseteq RunningAgents
          /\ \A r \in Run : RunningAgentsOf(r)' \subseteq RunningAgentsOf(r)
      BY <1>b, ConstantsAssumption DEF RunningAgents, RunningAgentsOf
    <2>2. IsFiniteSet(RunningAgents) /\ \A r \in Run : IsFiniteSet(RunningAgentsOf(r))
      BY <1>a, ConstantsAssumption, FS_Subset
    <2>3. /\ Cardinality(RunningAgents') <= Cardinality(RunningAgents)
          /\ IsFiniteSet(RunningAgents')
      BY <2>1, <2>2, FS_Subset
    <2>4. ASSUME NEW r \in Run PROVE Cardinality(RunningAgentsOf(r)') <= RunCap
      <3>1. /\ Cardinality(RunningAgentsOf(r)') <= Cardinality(RunningAgentsOf(r))
            /\ IsFiniteSet(RunningAgentsOf(r)')
        BY <2>1, <2>2, FS_Subset
      <3>2. /\ Cardinality(RunningAgentsOf(r)') \in Nat
            /\ Cardinality(RunningAgentsOf(r)) \in Nat
        BY <2>2, <3>1, FS_CardinalityType
      <3> QED
        BY <1>0, <1>a, <3>1, <3>2
    <2>5. Cardinality(RunningAgents') \in Nat /\ Cardinality(RunningAgents) \in Nat
      BY <2>2, <2>3, FS_CardinalityType
    <2> QED
      BY <1>0, <1>a, <2>3, <2>4, <2>5
  <1>1. ASSUME NEW w \in Worker, NEW q \in Run, Lease(w, q)
        PROVE  /\ Cardinality(RunningAgents') <= GlobalCap
               /\ \A r \in Run : Cardinality(RunningAgentsOf(r)') <= RunCap
    <2>1. PICK n \in Candidates(w, q) : status' = [status EXCEPT ![n] = "running"]
      BY <1>1 DEF Lease
    <2>2. /\ n \in Node /\ RunOf[n] = q
          /\ n \in AgentNode => UnderAgentCaps(q)
      BY CandidateFacts
    <2>3. \A m \in Node \ {n} : status'[m] = status[m]
      BY <2>1, <2>2 DEF TypeOK
    <2>4. CASE n \notin AgentNode
      <3>1. /\ RunningAgents' \subseteq RunningAgents
            /\ \A r \in Run : RunningAgentsOf(r)' \subseteq RunningAgentsOf(r)
        BY <2>3, <2>4, ConstantsAssumption DEF RunningAgents, RunningAgentsOf
      <3> QED
        BY <1>0, <1>a, <2>2, <3>1, CapKept
    <2>5. CASE n \in AgentNode
      <3>1. /\ Cardinality(RunningAgents) < GlobalCap
            /\ Cardinality(RunningAgentsOf(q)) < RunCap
        BY <2>2, <2>5 DEF UnderAgentCaps, RunningAgents, RunningAgentsOf
      <3>2. /\ RunningAgents' \subseteq RunningAgents \cup {n}
            /\ RunningAgentsOf(q)' \subseteq RunningAgentsOf(q) \cup {n}
            /\ \A r \in Run \ {q} : RunningAgentsOf(r)' \subseteq RunningAgentsOf(r)
        BY <2>2, <2>3, ConstantsAssumption DEF RunningAgents, RunningAgentsOf
      <3>3. Cardinality(RunningAgents') <= GlobalCap
        BY <1>0, <1>a, <2>2, <3>1, <3>2, CapKept
      <3>4. ASSUME NEW r \in Run PROVE Cardinality(RunningAgentsOf(r)') <= RunCap
        <4>1. CASE r = q
          BY <1>0, <1>a, <2>2, <3>1, <3>2, <4>1, CapKept
        <4>2. CASE r # q
          BY <1>0, <1>a, <2>2, <3>2, <4>2, CapKept
        <4> QED
          BY <4>1, <4>2
      <3> QED
        BY <3>3, <3>4
    <2> QED
      BY <2>4, <2>5
  <1>2. ASSUME NEW w \in Worker, NEW out \in Outcome, Settle(w, out)
        PROVE  \A n \in Node : status'[n] = "running" => status[n] = "running"
    BY <1>2, SettleChanges, SettleFacts
  <1>3. ASSUME NEW w \in Worker, NEW r \in Run, NoReadyNode(w, r)
        PROVE  \A n \in Node : status'[n] = "running" => status[n] = "running"
    BY <1>3, NothingDoomed DEF NoReadyNode
  <1>4. ASSUME NEW S \in SUBSET Node, RecoverStaleLeases(S)
        PROVE  \A n \in Node : status'[n] = "running" => status[n] = "running"
    BY <1>4 DEF RecoverStaleLeases
  <1>5. ASSUME NEW m \in Node, RequeueApproval(m)
        PROVE  \A n \in Node : status'[n] = "running" => status[n] = "running"
    BY <1>5 DEF RequeueApproval, TypeOK
  <1>6. ASSUME UNCHANGED status
        PROVE  \A n \in Node : status'[n] = "running" => status[n] = "running"
    BY <1>6
  <1> QED
    BY <1>b, <1>1, <1>2, <1>3, <1>4, <1>5, <1>6
    DEF Next, WorkerStep, SettleStale, Abandon, RequestResume, RequestCancel,
        SetRunStatus, AdoptRun, vars

-----------------------------------------------------------------------------
(* The theorems. *)

\* The tables create_workflow_run_from_plan writes satisfy the invariant.
LEMMA InitInv == Init => Inv
  <1> SUFFICES ASSUME Init PROVE Inv
    OBVIOUS
  <1>1. TypeOK
    BY ConstantsAssumption DEF Init, TypeOK, RunStatus, NodeStatus
  <1>2. ClaimsArePast /\ LeaseExclusive /\ ResultIsOfLastLease /\ TerminalRunIsDone
    BY DEF Init, ClaimsArePast, LeaseExclusive, ResultIsOfLastLease, TerminalRunIsDone
  <1>3. Graph /\ RetryHeadroom /\ RetryBudget
    BY DEF Init, Graph, StartedHasAttempt, DependenciesFirst, FailurePropagated,
           BlockedForCause, BlockedRunHasFailure, RetryHeadroom, RetryBudget, Parents
  <1>4. AgentCaps
    <2>1. RunningAgents = {} /\ \A r \in Run : RunningAgentsOf(r) = {}
      BY ConstantsAssumption DEF Init, RunningAgents, RunningAgentsOf
    <2>2. Cardinality({}) = 0
      BY FS_EmptySet
    <2>3. GlobalCap >= 0 /\ RunCap >= 0
      BY ConstantsAssumption
    <2>4. Cardinality(RunningAgents) <= GlobalCap
      BY <2>1, <2>2, <2>3
    <2>5. ASSUME NEW r \in Run PROVE Cardinality(RunningAgentsOf(r)) <= RunCap
      BY <2>1, <2>2, <2>3
    <2> QED
      BY <2>4, <2>5 DEF AgentCaps, RunningAgents, RunningAgentsOf
  <1> QED
    BY <1>1, <1>2, <1>3, <1>4 DEF Inv

\* Every operation on the tables keeps the invariant.
LEMMA NextInv == Inv /\ [Next]_vars => Inv'
  <1> SUFFICES ASSUME Inv, [Next]_vars PROVE Inv'
    OBVIOUS
  <1>1. TypeOK'
    BY TypeStep DEF Inv
  <1>2. ClaimsArePast' /\ LeaseExclusive'
    BY <1>1, FenceStep DEF Inv
  <1>3. Graph'
    BY <1>1, GraphStep DEF Inv
  <1>4. FailurePropagated
    BY DEF Inv, Graph
  <1>5. ResultIsOfLastLease'
    BY <1>4, ResultStep DEF Inv
  <1>6. TerminalRunIsDone'
    BY <1>1, <1>3, TerminalStep DEF Inv
  <1>7. RetryHeadroom' /\ RetryBudget'
    BY <1>1, <1>4, RetryStep DEF Inv
  <1>8. AgentCaps'
    BY <1>4, CapsStep DEF Inv
  <1> QED
    BY <1>1, <1>2, <1>3, <1>5, <1>6, <1>7, <1>8 DEF Inv

\* The inductive invariant holds of every behaviour of the workflow-run store.
THEOREM Invariance == Spec => []Inv
  BY InitInv, NextInv, PTL DEF Spec

\* The rows and the claims are always well formed.
THEOREM TypeCorrect == Spec => []TypeOK
  BY Invariance, PTL DEF Inv

\* attempt_count fences settlement: no two callers ever hold the same attempt.
THEOREM LeasesAreExclusive == Spec => []LeaseExclusive
  BY Invariance, PTL DEF Inv

\* The result of a settled node is that of its last lease, however late the
\* callers whose leases were given away return.
THEOREM ResultsAreFenced == Spec => []ResultIsOfLastLease
  BY Invariance, PTL DEF Inv

\* Leases respect the dependency graph, whatever callers interleave.
THEOREM LeasesFollowTheGraph == Spec => []DependenciesFirst
  BY Invariance, PTL DEF Inv, Graph

\* Settlement's propagation is complete: no pending node is left below a failure.
THEOREM FailuresReachAll == Spec => []FailurePropagated
  BY Invariance, PTL DEF Inv, Graph

\* Settlement's propagation blocks nothing that no failure reaches.
THEOREM NothingElseIsBlocked == Spec => []BlockedForCause
  BY Invariance, PTL DEF Inv, Graph

\* A run is called completed or failed only when all its work is done, and
\* stays right when it is cancelled, resumed or settled late.
THEOREM TerminalRunsAreDone == Spec => []TerminalRunIsDone
  BY Invariance, PTL DEF Inv

\* The leases of a node are bounded by the retries, recoveries and approvals.
THEOREM RetriesBounded == Spec => []RetryBudget
  BY Invariance, PTL DEF Inv

\* The fencing of leases and results by attempt_count, and its bound, in one.
THEOREM LeaseFencing == Spec => []LeasesAreFenced
  BY LeasesAreExclusive, ResultsAreFenced, RetriesBounded, PTL DEF LeasesAreFenced

\* Leasing, propagation and completion, all three, respect the graph.
THEOREM GraphRespected == Spec => []GraphIsRespected
  BY LeasesFollowTheGraph, FailuresReachAll, NothingElseIsBlocked, TerminalRunsAreDone, PTL
     DEF GraphIsRespected

\* The agent-step caps hold when every caller passes them.
THEOREM CapsRespected == Spec => []AgentCaps
  BY Invariance, PTL DEF Inv

\* No step changes a done node.
THEOREM DoneNodesAreFinal == Spec => DoneIsFinal
  <1>1. Inv /\ [Next]_vars =>
          [\A n \in Node : status[n] \in DoneStatus =>
              status'[n] = status[n] /\ result'[n] = result[n]]_vars
    BY DoneStep DEF Inv, Graph
  <1> QED
    BY <1>1, Invariance, PTL DEF Spec, DoneIsFinal
=============================================================================
