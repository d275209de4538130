--------------------------- MODULE ToolExecution ---------------------------
(***************************************************************************)
(* Phase 2 of a tick whose executor is the ToolPolicyNodeExecutor: the     *)
(* policy check, the operator's approval and the one-use receipt that stand*)
(* between a leased node and the external effect of its tool.  Each of     *)
(* these is a transaction of its own on the same store, so a lease that    *)
(* expires, another caller, an operator and a change of policy can come    *)
(* between any two of them.  None of them looks at the lease.              *)
(*                                                                         *)
(* The module adds the inside of phase 2 to WorkflowRun.  Every node is a  *)
(* tool node here; its tool and its profile are fixed, so the row of       *)
(* tool_execution_authorizations is bound to the policy snapshot and the   *)
(* command, which is what action_sha256 hashes.                            *)
(***************************************************************************)
EXTENDS WorkflowRun

CONSTANTS
    Policy,         \* contents of the policy tables, as hashed to policy_sha256
    AllowPolicy,    \* policies that allow the tool, no pre hook blocking it
    ApprovalPolicy, \* policies in which a hook or the capability asks approval
    Command,        \* the command a caller passes (command_override or its own)
    RecordedNode,   \* nodes for which a metadata-only approval may be posted
    NoAuth,         \* no row in tool_execution_authorizations
    NoPolicy        \* no snapshot taken

\* action_sha256.
Binding == [policy : Policy, command : {Command[w] : w \in Worker}]

\* tool_execution_authorizations: status, action_sha256, resolved_by.
AuthStatus == {"requested", "approved", "rejected", "consumed"}
Resolver   == {"nobody", "operator", "implicit"}
Auth       == [status : AuthStatus, binding : Binding, resolvedBy : Resolver]

ASSUME ToolAssumption ==
    /\ AgentNode = {} /\ AgentWorker = {}
    /\ AllowPolicy \subseteq Policy
    /\ ApprovalPolicy \subseteq Policy
    /\ DOMAIN Command = Worker
    /\ RecordedNode \subseteq Node
    /\ NoAuth \notin Auth
    /\ NoPolicy \notin Policy

VARIABLES
    policy,         \* the tool policy tables
    auth,           \* the authorization row of each node
    superseded,     \* a later record than the request is in workflow_run_approvals
    stage,          \* where execute_node of each caller is
    seen,           \* the policy snapshot the caller took (policy_before)
    returned,       \* the class of what execute_node returned
    effects         \* external: the invocations of the inner executor

execVars  == <<stage, seen, returned>>
storeVars == <<policy, auth, superseded>>
toolVars  == <<policy, auth, superseded, stage, seen, returned, effects>>
allVars   == <<vars, toolVars>>

Stage == {"idle", "leased", "read", "gate", "claim", "authorized", "invoked", "done"}

Bind(w) == [policy |-> seen[w], command |-> Command[w]]
Row(s, b, by) == [status |-> s, binding |-> b, resolvedBy |-> by]

-----------------------------------------------------------------------------
ToolInit ==
    /\ Init
    /\ policy \in Policy
    /\ auth = [n \in Node |-> NoAuth]
    /\ superseded = [n \in Node |-> FALSE]
    /\ stage = [w \in Worker |-> "idle"]
    /\ seen = [w \in Worker |-> NoPolicy]
    /\ returned = [w \in Worker |-> "none"]
    /\ effects = [n \in Node |-> {}]

\* A step of execute_node from stage s, and its return.
At(w, s) == claim[w] # NoClaim /\ stage[w] = s
Goto(w, s) == stage' = [stage EXCEPT ![w] = s] /\ UNCHANGED <<seen, returned>>
Return(w, o) ==
    /\ stage' = [stage EXCEPT ![w] = "done"]
    /\ returned' = [returned EXCEPT ![w] = o]
    /\ UNCHANGED seen

\* The caller's tick is over; its locals are gone.
Leave(w) ==
    /\ stage' = [stage EXCEPT ![w] = "idle"]
    /\ seen' = [seen EXCEPT ![w] = NoPolicy]
    /\ returned' = [returned EXCEPT ![w] = "none"]

-----------------------------------------------------------------------------
(* execute_node, in the order of its text. *)

\* The call, right after the lease is committed.
StartTool(w, r) ==
    /\ Lease(w, r)
    /\ Goto(w, "leased")
    /\ UNCHANGED <<storeVars, effects>>

\* A failure before any receipt is claimed: binding, store and audit errors
\* are retryable, an exhausted product call budget is not.
FailEarly(w) ==
    /\ \/ At(w, "leased") /\ \E o \in {"retryable", "fatal"} : Return(w, o)
       \/ At(w, "read") /\ Return(w, "retryable")
    /\ UNCHANGED <<vars, storeVars, effects>>

\* The policy snapshot, the allowlist and the pre-execution hooks.
ReadPolicy(w) ==
    /\ At(w, "leased")
    /\ \/ /\ policy \in AllowPolicy
          /\ stage' = [stage EXCEPT ![w] = "read"]
          /\ seen' = [seen EXCEPT ![w] = policy]
          /\ UNCHANGED returned
       \/ /\ policy \notin AllowPolicy
          /\ Return(w, "retryable")
    /\ UNCHANGED <<vars, storeVars, effects>>

\* inspect_tool_execution_authorization chooses the way; the row it looked at
\* may change before the way is taken.
InspectAuthorization(w) ==
    /\ At(w, "read")
    /\ IF seen[w] \in ApprovalPolicy \/ auth[claim[w].node] # NoAuth
       THEN Goto(w, "gate")
       ELSE Goto(w, "claim")
    /\ UNCHANGED <<vars, storeVars, effects>>

\* Mutant: the policy is not read again.
PolicyTrusted(w) == TRUE

\* require_policy_snapshot and the binding of an existing row.
PolicyUnchanged(w) == policy = seen[w]
BindingMatches(w)  == auth[claim[w].node].binding = Bind(w)

\* gate_tool_execution fails: tool_approval_binding_error, which is retryable.
GateError(w) ==
    /\ At(w, "gate")
    /\ \/ ~ PolicyUnchanged(w)
       \/ auth[claim[w].node] # NoAuth /\ ~ BindingMatches(w)
    /\ Return(w, "retryable")
    /\ UNCHANGED <<vars, storeVars, effects>>

\* gate_tool_execution without a row: the approval is requested.
GateRequest(w) ==
    LET n == claim[w].node
    IN  /\ At(w, "gate")
        /\ PolicyUnchanged(w)
        /\ auth[n] = NoAuth
        /\ auth' = [auth EXCEPT ![n] = Row("requested", Bind(w), "nobody")]
        /\ superseded' = [superseded EXCEPT ![n] = FALSE]
        /\ Return(w, "awaiting_approval")
        /\ UNCHANGED <<vars, policy, effects>>

\* Mutants: the approved row is not consumed; a rejected row passes as well.
GateKeepApproval(w) ==
    LET n == claim[w].node
    IN  /\ At(w, "gate")
        /\ PolicyUnchanged(w)
        /\ auth[n] # NoAuth /\ BindingMatches(w)
        /\ auth[n].status = "approved"
        /\ Goto(w, "authorized")
        /\ UNCHANGED <<vars, storeVars, effects>>

GateConsumeResolved(w) ==
    LET n == claim[w].node
    IN  /\ At(w, "gate")
        /\ PolicyUnchanged(w)
        /\ auth[n] # NoAuth /\ BindingMatches(w)
        /\ auth[n].status \in {"approved", "rejected"}
        /\ auth' = [auth EXCEPT ![n] = Row("consumed", @.binding, @.resolvedBy)]
        /\ Goto(w, "authorized")
        /\ UNCHANGED <<vars, policy, superseded, effects>>

\* gate_tool_execution with an approved row: the row is consumed.
GateConsume(w) ==
    LET n == claim[w].node
    IN  /\ At(w, "gate")
        /\ PolicyUnchanged(w)
        /\ auth[n] # NoAuth /\ BindingMatches(w)
        /\ auth[n].status = "approved"
        /\ auth' = [auth EXCEPT ![n] = Row("consumed", @.binding, @.resolvedBy)]
        /\ Goto(w, "authorized")
        /\ UNCHANGED <<vars, policy, superseded, effects>>

\* gate_from_status: the gate stays closed.
GateOutcome(s) ==
    CASE s = "requested" -> "awaiting_approval"
      [] s = "rejected"  -> "retryable"
      [] s = "consumed"  -> "fatal"

GateRefuse(w) ==
    LET n == claim[w].node
    IN  /\ At(w, "gate")
        /\ PolicyUnchanged(w)
        /\ auth[n] # NoAuth /\ BindingMatches(w)
        /\ auth[n].status # "approved"
        /\ Return(w, GateOutcome(auth[n].status))
        /\ UNCHANGED <<vars, storeVars, effects>>

\* claim_tool_execution_without_approval: an implicit receipt, consumed at
\* once.  Every failure of it is one of the non-retryable domains.
ClaimReceipt(w) ==
    LET n == claim[w].node
    IN  /\ At(w, "claim")
        /\ PolicyUnchanged(w)
        /\ auth[n] = NoAuth
        /\ auth' = [auth EXCEPT ![n] = Row("consumed", Bind(w), "implicit")]
        /\ Goto(w, "authorized")
        /\ UNCHANGED <<vars, policy, superseded, effects>>

ClaimRefused(w) ==
    /\ At(w, "claim")
    /\ ~ PolicyUnchanged(w) \/ auth[claim[w].node] # NoAuth
    /\ Return(w, "fatal")
    /\ UNCHANGED <<vars, storeVars, effects>>

\* The receipt is spent and nothing happened: the audit failed, or the inner
\* executor proves that it did not start.
FailBeforeEffect(w) ==
    /\ At(w, "authorized")
    /\ \E o \in {"retryable", "fatal"} : Return(w, o)
    /\ UNCHANGED <<vars, storeVars, effects>>

\* self.inner.execute_node, up to its effect.
Invoke(w) ==
    LET n == claim[w].node
    IN  /\ At(w, "authorized")
        /\ effects' = [effects EXCEPT ![n] = @ \cup
                          {[attempt |-> claim[w].attempt, binding |-> Bind(w)]}]
        /\ Goto(w, "invoked")
        /\ UNCHANGED <<vars, storeVars>>

\* The inner executor returns, the post hooks and the last audit run: the
\* result is a success or one of the outcome-unknown failures.
FinishTool(w) ==
    /\ At(w, "invoked")
    /\ \E o \in {"completed", "fatal"} : Return(w, o)
    /\ UNCHANGED <<vars, storeVars, effects>>

\* Phase 3.  enforce_product_managed_token_budget may turn what was returned
\* into a failure that is not retried.
SettleTool(w) ==
    /\ At(w, "done")
    /\ \E o \in {returned[w], "fatal"} : Settle(w, o)
    /\ Leave(w)
    /\ UNCHANGED <<storeVars, effects>>

DropTool(w) ==
    /\ At(w, "done")
    /\ SettleStale(w)
    /\ Leave(w)
    /\ UNCHANGED <<storeVars, effects>>

\* The process dies, at any point of phase 2.
CrashTool(w) ==
    /\ Abandon(w)
    /\ Leave(w)
    /\ UNCHANGED <<storeVars, effects>>

-----------------------------------------------------------------------------
(* What operators and administrators do meanwhile. *)

\* Mutants: a resolution is kept although the node is not waiting; a rejection
\* fails the node on the spot.
ResolveUnchecked(n, resolution) ==
    /\ auth[n] # NoAuth
    /\ auth[n].status = "requested"
    /\ ~ superseded[n]
    /\ RequeueApproval(n) \/ (status[n] # "awaiting_approval" /\ UNCHANGED vars)
    /\ auth' = [auth EXCEPT ![n] = Row(resolution, @.binding, "operator")]
    /\ superseded' = [superseded EXCEPT ![n] = TRUE]
    /\ UNCHANGED <<policy, execVars, effects>>

ResolveFails(n, resolution) ==
    /\ auth[n] # NoAuth
    /\ auth[n].status = "requested"
    /\ ~ superseded[n]
    /\ IF resolution = "approved"
       THEN RequeueApproval(n)
       ELSE /\ status[n] = "awaiting_approval"
            /\ status' = [status EXCEPT ![n] = "failed"]
            /\ UNCHANGED <<runStatus, apiOwned, attempt, result, claim, requeued>>
    /\ auth' = [auth EXCEPT ![n] = Row(resolution, @.binding, "operator")]
    /\ superseded' = [superseded EXCEPT ![n] = TRUE]
    /\ UNCHANGED <<policy, execVars, effects>>

\* resolve_requested_workflow_run_approval of a tool request: it must be the
\* node's latest record and the node must be waiting, or nothing is written.
ResolveApproval(n, resolution) ==
    /\ auth[n] # NoAuth
    /\ auth[n].status = "requested"
    /\ ~ superseded[n]
    /\ RequeueApproval(n)
    /\ auth' = [auth EXCEPT ![n] = Row(resolution, @.binding, "operator")]
    /\ superseded' = [superseded EXCEPT ![n] = TRUE]
    /\ UNCHANGED <<policy, execVars, effects>>

\* record_workflow_run_approval: a metadata-only record for the node.
RecordApproval(n) ==
    /\ n \in RecordedNode
    /\ superseded' = [superseded EXCEPT ![n] = TRUE]
    /\ UNCHANGED <<vars, policy, auth, execVars, effects>>

\* The allowlist, a hook or the capability of the tool is replaced.
ChangePolicy(p) ==
    /\ policy' = p
    /\ UNCHANGED <<vars, auth, superseded, execVars, effects>>

-----------------------------------------------------------------------------
ToolStep(w) ==
    \/ \E r \in Run : StartTool(w, r)
    \/ FailEarly(w) \/ ReadPolicy(w) \/ InspectAuthorization(w)
    \/ GateError(w) \/ GateRequest(w) \/ GateConsume(w) \/ GateRefuse(w)
    \/ ClaimReceipt(w) \/ ClaimRefused(w)
    \/ FailBeforeEffect(w) \/ Invoke(w) \/ FinishTool(w)
    \/ SettleTool(w) \/ DropTool(w) \/ CrashTool(w)

RunStep ==
    /\ \/ \E w \in Worker, r \in Run : NoReadyNode(w, r)
       \/ \E S \in SUBSET Node : RecoverStaleLeases(S)
       \/ \E r \in Run : RequestResume(r) \/ RequestCancel(r) \/ AdoptRun(r)
    /\ UNCHANGED toolVars

OperatorStep ==
    \/ \E n \in Node, d \in {"approved", "rejected"} : ResolveApproval(n, d)
    \/ \E n \in Node : RecordApproval(n)
    \/ \E p \in Policy \ {policy} : ChangePolicy(p)

ToolNext == (\E w \in Worker : ToolStep(w)) \/ RunStep \/ OperatorStep

ToolSpec == ToolInit /\ [][ToolNext]_allVars

\* As in WorkflowRun: ticks recur, executions end, expired leases are
\* recovered.  Here the operator is assumed to resolve what is resolvable.
ToolFairness ==
    /\ \A w \in Worker, r \in Run :
          WF_allVars(StartTool(w, r) \/ (NoReadyNode(w, r) /\ UNCHANGED toolVars))
    /\ \A w \in Worker : WF_allVars(ToolStep(w) /\ claim[w] # NoClaim)
    /\ \A n \in Node :
          /\ WF_allVars(\E S \in SUBSET Node :
                            n \in S /\ RecoverStaleLeases(S) /\ UNCHANGED toolVars)
          /\ WF_allVars(\E d \in {"approved", "rejected"} : ResolveApproval(n, d))

ToolFairSpec == ToolSpec /\ ToolFairness
-----------------------------------------------------------------------------
(* Properties. *)

\* The authorization rows, the callers' stages and the invocations are well
\* formed.
ToolTypeOK ==
    /\ policy \in Policy
    /\ auth \in [Node -> Auth \cup {NoAuth}]
    /\ superseded \in [Node -> BOOLEAN]
    /\ stage \in [Worker -> Stage]
    /\ seen \in [Worker -> Policy \cup {NoPolicy}]
    /\ returned \in [Worker -> Outcome \cup {"none"}]
    /\ effects \in [Node -> SUBSET [attempt : Nat, binding : Binding]]
    /\ \A w \in Worker : claim[w] = NoClaim <=> stage[w] = "idle"

\* "A retry cannot repeat the effect": retries, expired leases with both
\* callers still running, and crashes after the effect included, the inner
\* executor of a node is invoked at most once.
EffectAtMostOnce ==
    \A n \in Node : \A e, f \in effects[n] : e = f

\* The effect that happened is the one the receipt was consumed for, with the
\* policy and the command the receipt is bound to; where that policy asks for
\* an approval an operator gave it.
EffectIsAuthorized ==
    \A n \in Node : \A e \in effects[n] :
        /\ auth[n] # NoAuth
        /\ auth[n].status = "consumed"
        /\ auth[n].binding = e.binding
        /\ e.binding.policy \in AllowPolicy
        /\ e.binding.policy \in ApprovalPolicy => auth[n].resolvedBy = "operator"

\* A node is completed by the very lease that performed its effect: no caller
\* completes a node on the strength of a receipt that another one consumed.
CompletedByItsEffect ==
    \A n \in Node : status[n] = "completed" =>
        \E e \in effects[n] : e.attempt = attempt[n]

\* A node that waits for its approval can get it: its request is open and is
\* the latest record, which is what the resolution insists on.
ApprovalResolvable ==
    \A n \in Node : status[n] = "awaiting_approval" =>
        /\ auth[n] # NoAuth
        /\ auth[n].status = "requested"
        /\ ~ superseded[n]

\* A receipt is consumed only under the policy in force at that moment, and
\* with the approval that policy asks for: a policy tightened while a caller
\* was on its way to the receipt stops it.
RevocationStops ==
    [][\A n \in Node :
          /\ auth'[n] # NoAuth /\ auth'[n].status = "consumed"
          /\ auth[n] # auth'[n]
          => /\ policy \in AllowPolicy
             /\ policy = auth'[n].binding.policy
             /\ policy \in ApprovalPolicy =>
                   auth[n] # NoAuth /\ auth[n].status = "approved"]_allVars

\* An approval never wedges a run: if operators resolve the requests that can
\* be resolved, every run again and again is terminal, whatever the policy
\* becomes meanwhile, unless no caller may tick it.  (A request that the bound
\* on requeues keeps from being resolved is excepted.)
ApprovalsDoNotWedge ==
    \A r \in Run :
        []<>(\/ IsRunTerminal(runStatus[r])
             \/ \E n \in NodesOf(r) : /\ status[n] = "awaiting_approval"
                                       /\ requeued[n] = MaxRequeues
             \/ \A w \in Worker : ~ RequireRunExecutionOwner(w, r))

\* The tool executor inside phase 2 adds nothing to what a tick does to the
\* workflow tables.
ImplementsWorkflowRun == Spec

\* The authorization row and the invocation, seen as a one-shot effect.
PhaseOf(a, E) ==
    CASE E # {} -> "performed"
      [] E = {} /\ a = NoAuth -> "open"
      [] E = {} /\ a # NoAuth /\ a.status = "requested" -> "waiting"
      [] E = {} /\ a # NoAuth /\ a.status = "approved"  -> "granted"
      [] E = {} /\ a # NoAuth /\ a.status = "rejected"  -> "refused"
      [] OTHER -> "spent"

ReceiptPhase == [n \in Node |-> PhaseOf(auth[n], effects[n])]

Receipt == INSTANCE OneShotEffect WITH phase <- ReceiptPhase

\* Requests, resolutions, receipts and invocations together keep the promise
\* of OneShotEffect.
ImplementsOneShotEffect == Receipt!Spec

\* What a receipt is for: well-formed rows, one effect, authorized, and the only way to
\* complete its node.
EffectIsSound ==
    /\ ToolTypeOK /\ EffectAtMostOnce /\ EffectIsAuthorized
    /\ CompletedByItsEffect
=============================================================================
