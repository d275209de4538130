------------------------ MODULE ToolExecutionProofs ------------------------
(***************************************************************************)
(* Proofs about ToolExecution, for every set of callers, nodes, policies   *)
(* and commands: it implements WorkflowRun and OneShotEffect, and the      *)
(* effect of a node is performed at most once and only when authorized.    *)
(***************************************************************************)
EXTENDS ToolExecution, WorkflowRunProofs

-----------------------------------------------------------------------------
(* The workflow tables. *)

\* Every step of the tool executor is a step of the workflow-run store or
\* leaves its tables alone.
LEMMA ToolStepIsRunStep == [ToolNext]_allVars => [Next]_vars
  <1> SUFFICES ASSUME [ToolNext]_allVars PROVE [Next]_vars
    OBVIOUS
  <1>1. ASSUME NEW w \in Worker, NEW r \in Run, StartTool(w, r)
        PROVE  Next
    BY <1>1 DEF StartTool, Next, WorkerStep
  <1>2. ASSUME NEW w \in Worker, SettleTool(w)
        PROVE  Next
    <2>1. PICK o : Settle(w, o)
      BY <1>2 DEF SettleTool
    <2>2. o \in Outcome
      BY <2>1 DEF Settle, Outcomes, Outcome
    <2> QED
      BY <2>1, <2>2 DEF Next, WorkerStep
  <1>3. ASSUME NEW w \in Worker, DropTool(w) \/ CrashTool(w)
        PROVE  Next
    BY <1>3 DEF DropTool, CrashTool, Next, WorkerStep
  <1>4. ASSUME NEW w \in Worker,
               \/ FailEarly(w) \/ ReadPolicy(w) \/ InspectAuthorization(w)
               \/ GateError(w) \/ GateRequest(w) \/ GateConsume(w) \/ GateRefuse(w)
               \/ ClaimReceipt(w) \/ ClaimRefused(w)
               \/ FailBeforeEffect(w) \/ Invoke(w) \/ FinishTool(w)
        PROVE  UNCHANGED vars
    BY <1>4 DEF FailEarly, ReadPolicy, InspectAuthorization, GateError, GateRequest,
                GateConsume, GateRefuse, ClaimReceipt, ClaimRefused, FailBeforeEffect,
                Invoke, FinishTool
  <1>5. ASSUME RunStep PROVE Next
    BY <1>5 DEF RunStep, Next, WorkerStep
  <1>6. ASSUME NEW n \in Node, NEW d, ResolveApproval(n, d)
        PROVE  Next
    BY <1>6 DEF ResolveApproval, Next
  <1>7. ASSUME NEW n \in Node, RecordApproval(n) PROVE UNCHANGED vars
    BY <1>7 DEF RecordApproval
  <1>8. ASSUME NEW p, ChangePolicy(p) PROVE UNCHANGED vars
    BY <1>8 DEF ChangePolicy
  <1>9. ASSUME UNCHANGED allVars PROVE UNCHANGED vars
    BY <1>9 DEF allVars
  <1> QED
    BY <1>1, <1>2, <1>3, <1>4, <1>5, <1>6, <1>7, <1>8, <1>9
    DEF ToolNext, ToolStep, OperatorStep

\* The tool executor inside phase 2 is a refinement of the tick: every
\* behaviour of it is one of WorkflowRun.
THEOREM ToolImplementsRun == ToolSpec => ImplementsWorkflowRun
  <1>1. ToolInit => Init
    BY DEF ToolInit
  <1> QED
    BY <1>1, ToolStepIsRunStep, PTL DEF ToolSpec, ImplementsWorkflowRun, Spec

\* So the tables keep the invariant proved of WorkflowRun.
LEMMA RunInvariant == ToolSpec => []Inv
  BY ToolImplementsRun, Invariance, PTL DEF ImplementsWorkflowRun

-----------------------------------------------------------------------------
(* The inductive invariant of the receipts. *)

\* The receipt of the node is consumed.
Spent(n) == auth[n] # NoAuth /\ auth[n].status = "consumed"

\* A caller on its way to a receipt saw a policy that allows the tool, and one
\* that asks for no approval if it goes the implicit way.
Route ==
    \A w \in Worker :
        /\ stage[w] \in {"read", "gate", "claim", "authorized"} => seen[w] \in AllowPolicy
        /\ stage[w] = "claim" => seen[w] \notin ApprovalPolicy

\* A row allows its tool, and an operator approved what its policy asks to be.
Rows ==
    \A n \in Node : auth[n] # NoAuth =>
        /\ auth[n].binding.policy \in AllowPolicy
        /\ auth[n].status \in {"approved", "consumed"} =>
              (auth[n].binding.policy \in ApprovalPolicy => auth[n].resolvedBy = "operator")

\* A caller that may invoke holds the consumed receipt of its own action, the
\* effect has not happened, and no other caller may invoke for the node.
Holders ==
    \A w \in Worker : stage[w] = "authorized" =>
        /\ Spent(claim[w].node)
        /\ auth[claim[w].node].binding = Bind(w)
        /\ effects[claim[w].node] = {}
        /\ \A v \in Worker : stage[v] = "authorized" /\ claim[v].node = claim[w].node
                               => v = w

\* A caller past its invocation, or with a success to settle, performed the
\* effect in its own lease.
Performed ==
    \A w \in Worker :
        stage[w] = "invoked" \/ (stage[w] = "done" /\ returned[w] = "completed") =>
            \E e \in effects[claim[w].node] : e.attempt = claim[w].attempt

Core == ToolTypeOK /\ Route /\ Rows /\ Holders /\ Performed
           /\ EffectAtMostOnce /\ EffectIsAuthorized

\* A claim that is not NoClaim is a claim.
LEMMA ClaimOfStage ==
    ASSUME TypeOK, ToolTypeOK, NEW w \in Worker, stage[w] # "idle"
    PROVE  claim[w] \in Claims /\ claim[w].node \in Node /\ claim[w].attempt \in Nat
  BY DEF TypeOK, ToolTypeOK, Claims

\* Steps that touch neither rows, nor effects, nor claims, nor callers.
LEMMA CoreFrame ==
    ASSUME Core, policy' \in Policy, superseded' \in [Node -> BOOLEAN],
           UNCHANGED <<claim, auth, effects, execVars>>
    PROVE  Core'
  <1>1. ToolTypeOK'
    BY DEF Core, ToolTypeOK, execVars
  <1>2. Route' /\ Rows' /\ EffectAtMostOnce' /\ EffectIsAuthorized'
    BY DEF Core, Route, Rows, EffectAtMostOnce, EffectIsAuthorized, execVars
  <1>3. Holders' /\ Performed'
    BY DEF Core, Holders, Performed, Spent, Bind, execVars
  <1> QED
    BY <1>1, <1>2, <1>3 DEF Core

\* Steps in which one caller moves on without a receipt.
LEMMA CoreMove ==
    ASSUME Core, TypeOK, NEW w \in Worker, stage[w] # "idle",
           UNCHANGED <<claim, policy, auth, superseded, effects>>,
           NEW s \in {"read", "gate", "claim", "done"},
           NEW p \in Policy \cup {NoPolicy}, NEW o \in Outcome \cup {"none"},
           stage' = [stage EXCEPT ![w] = s],
           seen' = [seen EXCEPT ![w] = p],
           returned' = [returned EXCEPT ![w] = o],
           s \in {"read", "gate", "claim"} => p \in AllowPolicy,
           s = "claim" => p \notin ApprovalPolicy,
           s = "done" /\ o = "completed" => stage[w] = "invoked"
    PROVE  Core'
  <1> USE DEF Core
  <1>1. ToolTypeOK'
    BY DEF ToolTypeOK, Stage
  <1>2. Route' /\ Rows' /\ EffectAtMostOnce' /\ EffectIsAuthorized'
    BY DEF Route, Rows, EffectAtMostOnce, EffectIsAuthorized, ToolTypeOK
  <1>3. \A v \in Worker : stage'[v] = "authorized" =>
            v # w /\ stage[v] = "authorized" /\ Bind(v)' = Bind(v)
    BY DEF ToolTypeOK, Bind
  <1>4. Holders'
    BY <1>3 DEF Holders, Spent
  <1>5. Performed'
    BY DEF Performed, ToolTypeOK
  <1> QED
    BY <1>1, <1>2, <1>4, <1>5

\* Steps that end a caller's tick.
LEMMA CoreLeave ==
    ASSUME Core, TypeOK, NEW w \in Worker, Leave(w),
           claim' = [claim EXCEPT ![w] = NoClaim],
           UNCHANGED <<storeVars, effects>>
    PROVE  Core'
  <1> USE DEF Core, storeVars
  <1>1. ToolTypeOK'
    BY DEF ToolTypeOK, Stage, Leave, TypeOK
  <1>2. Route' /\ Rows' /\ EffectAtMostOnce' /\ EffectIsAuthorized'
    BY DEF Route, Rows, EffectAtMostOnce, EffectIsAuthorized, ToolTypeOK, Leave
  <1>3. \A v \in Worker : stage'[v] # "idle" =>
            /\ v # w /\ stage[v] = stage'[v] /\ claim'[v] = claim[v]
            /\ returned'[v] = returned[v] /\ Bind(v)' = Bind(v)
    BY DEF ToolTypeOK, Bind, Leave, TypeOK
  <1>4. Holders'
    BY <1>3 DEF Holders, Spent
  <1>5. Performed'
    BY <1>3 DEF Performed
  <1> QED
    BY <1>1, <1>2, <1>4, <1>5

\* The lease: the caller enters phase 2 with nothing.
LEMMA CoreStart ==
    ASSUME Core, TypeOK, NEW w \in Worker, NEW r \in Run, StartTool(w, r)
    PROVE  Core'
  <1> USE DEF Core, storeVars
  <1>1. PICK n \in Candidates(w, r) :
            claim' = [claim EXCEPT ![w] = [node |-> n, attempt |-> attempt[n] + 1]]
    BY DEF StartTool, Lease
  <1>2. n \in Node /\ attempt[n] + 1 \in Nat
    BY CandidateFacts DEF TypeOK
  <1>3. [node |-> n, attempt |-> attempt[n] + 1] # NoClaim
    BY <1>2, ConstantsAssumption DEF Claims
  <1>4. /\ stage' = [stage EXCEPT ![w] = "leased"]
        /\ UNCHANGED <<policy, auth, superseded, effects, seen, returned>>
    BY DEF StartTool, Goto
  <1>5. ToolTypeOK'
    BY <1>1, <1>3, <1>4 DEF ToolTypeOK, Stage, TypeOK
  <1>6. Route' /\ Rows' /\ EffectAtMostOnce' /\ EffectIsAuthorized'
    BY <1>4 DEF Route, Rows, EffectAtMostOnce, EffectIsAuthorized, ToolTypeOK
  <1>7. \A v \in Worker : stage'[v] # "leased" =>
            /\ v # w /\ stage[v] = stage'[v] /\ claim'[v] = claim[v]
            /\ Bind(v)' = Bind(v)
    BY <1>1, <1>4 DEF ToolTypeOK, Bind, TypeOK
  <1>8. Holders'
    BY <1>4, <1>7 DEF Holders, Spent
  <1>9. Performed'
    BY <1>4, <1>7 DEF Performed
  <1> QED
    BY <1>5, <1>6, <1>8, <1>9

\* Steps that write the row of one node, which no caller holds the receipt of,
\* with a row that is not consumed: a request or a resolution.
LEMMA CoreOpenRow ==
    ASSUME Core, TypeOK, NEW n \in Node, ~ Spent(n),
           NEW a \in Auth, auth' = [auth EXCEPT ![n] = a], a.status # "consumed",
           a.binding.policy \in AllowPolicy,
           a.status = "approved" => a.resolvedBy = "operator",
           policy' \in Policy, superseded' \in [Node -> BOOLEAN],
           UNCHANGED <<claim, effects>>,
           \/ UNCHANGED execVars
           \/ \E w \in Worker : stage[w] # "idle" /\ Return(w, "awaiting_approval")
    PROVE  Core'
  <1> USE DEF Core
  <1>1. /\ stage' \in [Worker -> Stage] /\ seen' = seen
        /\ returned' \in [Worker -> Outcome \cup {"none"}]
        /\ \A v \in Worker :
              \/ stage'[v] = stage[v] /\ returned'[v] = returned[v]
              \/ stage[v] # "idle" /\ stage'[v] = "done" /\ returned'[v] = "awaiting_approval"
    BY DEF ToolTypeOK, execVars, Return, Stage, Outcome
  <1>2. ToolTypeOK'
    BY <1>1 DEF ToolTypeOK
  <1>3. Route' /\ EffectAtMostOnce'
    BY <1>1 DEF Route, EffectAtMostOnce
  <1>4. Rows'
    BY ToolAssumption DEF Rows, ToolTypeOK
  <1>5. effects[n] = {}
    BY DEF EffectIsAuthorized, Spent
  <1>6. EffectIsAuthorized'
    BY <1>5 DEF EffectIsAuthorized, ToolTypeOK
  <1>7. \A w \in Worker : stage'[w] = "authorized" =>
            /\ stage[w] = "authorized" /\ claim[w].node \in Node \ {n}
            /\ Bind(w)' = Bind(w)
    BY <1>1, ClaimOfStage DEF Holders, Bind
  <1>8. Holders'
    BY <1>7 DEF Holders, Spent, ToolTypeOK
  <1>9. Performed'
    BY <1>1 DEF Performed
  <1> QED
    BY <1>2, <1>3, <1>4, <1>6, <1>8, <1>9

\* Steps that consume the receipt of a caller's node for the caller's action.
LEMMA CoreConsume ==
    ASSUME Core, TypeOK, NEW w \in Worker, stage[w] # "idle",
           ~ Spent(claim[w].node), NEW by \in Resolver,
           auth' = [auth EXCEPT ![claim[w].node] = Row("consumed", Bind(w), by)],
           seen[w] \in AllowPolicy,
           seen[w] \in ApprovalPolicy => by = "operator",
           Goto(w, "authorized"), UNCHANGED <<claim, policy, superseded, effects>>
    PROVE  Core'
  <1> USE DEF Core
  <1> DEFINE n == claim[w].node
             a == Row("consumed", Bind(w), by)
  <1>1. n \in Node
    BY ClaimOfStage
  <1>2. a \in Auth /\ a # NoAuth /\ a.status = "consumed" /\ a.binding = Bind(w)
        /\ a.binding.policy = seen[w] /\ a.resolvedBy = by
    BY ToolAssumption DEF Row, Bind, Auth, AuthStatus, Binding
  <1>3. auth' = [auth EXCEPT ![n] = a]
    OBVIOUS
  <1> HIDE DEF n, a
  <1>4. ToolTypeOK'
    BY <1>2, <1>3 DEF ToolTypeOK, Goto, Stage
  <1>5. Route' /\ EffectAtMostOnce'
    BY DEF Route, EffectAtMostOnce, Goto, ToolTypeOK
  <1>6. Rows'
    BY <1>1, <1>2, <1>3 DEF Rows, ToolTypeOK
  <1>7. effects[n] = {}
    BY <1>1 DEF EffectIsAuthorized, Spent, n
  <1>8. EffectIsAuthorized'
    BY <1>3, <1>7 DEF EffectIsAuthorized, ToolTypeOK
  <1>9. \A v \in Worker \ {w} : stage[v] = "authorized" => claim[v].node \in Node \ {n}
    BY ClaimOfStage DEF Holders, n
  <1>10. Bind(w)' = Bind(w) /\ \A v \in Worker : Bind(v)' = Bind(v)
    BY DEF Bind, Goto
  <1>11. ASSUME NEW v \in Worker \ {w}, stage'[v] = "authorized"
         PROVE  /\ Spent(claim[v].node)'
                /\ auth'[claim[v].node].binding = Bind(v)
                /\ effects[claim[v].node] = {}
                /\ claim[v].node # n
                /\ \A u \in Worker \ {w} :
                      stage'[u] = "authorized" /\ claim[u].node = claim[v].node => u = v
    BY <1>3, <1>9, <1>11 DEF Holders, Spent, Goto, ToolTypeOK
  <1>12. Spent(n)' /\ auth'[n].binding = Bind(w) /\ effects'[n] = {}
    BY <1>1, <1>2, <1>3, <1>7 DEF Spent, ToolTypeOK, n
  <1>13. Holders'
    BY <1>10, <1>11, <1>12 DEF Holders, n
  <1>14. Performed'
    BY DEF Performed, Goto, ToolTypeOK
  <1> QED
    BY <1>4, <1>5, <1>6, <1>8, <1>13, <1>14

\* The invocation.
LEMMA CoreInvoke ==
    ASSUME Core, TypeOK, NEW w \in Worker, Invoke(w)
    PROVE  Core'
  <1> USE DEF Core
  <1> DEFINE n == claim[w].node
             e == [attempt |-> claim[w].attempt, binding |-> Bind(w)]
  <1>1. /\ n \in Node /\ claim[w].attempt \in Nat
        /\ stage[w] = "authorized" /\ claim[w] # NoClaim
    BY ClaimOfStage DEF Invoke, At
  <1>2. /\ Spent(n) /\ auth[n].binding = Bind(w) /\ effects[n] = {}
        /\ auth[n] \in Auth
    BY <1>1 DEF Holders, Spent, ToolTypeOK
  <1>3. e \in [attempt : Nat, binding : Binding] /\ e.attempt = claim[w].attempt
        /\ e.binding = auth[n].binding
    BY <1>1, <1>2 DEF Auth
  <1>4. effects' = [effects EXCEPT ![n] = {e}]
    BY <1>2 DEF Invoke
  <1>5. /\ stage' = [stage EXCEPT ![w] = "invoked"]
        /\ UNCHANGED <<seen, returned, claim, policy, auth, superseded>>
    BY DEF Invoke, Goto, vars, storeVars
  <1> HIDE DEF n, e
  <1>6. ToolTypeOK'
    BY <1>1, <1>3, <1>4, <1>5 DEF ToolTypeOK, Stage
  <1>7. Route' /\ Rows'
    BY <1>5 DEF Route, Rows, ToolTypeOK
  <1>8. EffectAtMostOnce'
    BY <1>4 DEF EffectAtMostOnce, ToolTypeOK
  <1>9. EffectIsAuthorized'
    BY <1>1, <1>2, <1>3, <1>4, <1>5 DEF EffectIsAuthorized, Spent, Rows, ToolTypeOK
  <1>10. \A v \in Worker : stage'[v] = "authorized" =>
            v # w /\ stage[v] = "authorized" /\ claim[v].node # n /\ Bind(v)' = Bind(v)
    BY <1>1, <1>5 DEF ToolTypeOK, Bind, Holders, n
  <1>11. \A v \in Worker : stage'[v] = "authorized" => effects'[claim[v].node] = {}
    BY <1>4, <1>10, ClaimOfStage DEF Holders, ToolTypeOK
  <1>12. Holders'
    BY <1>5, <1>10, <1>11 DEF Holders, Spent
  <1>13. ASSUME NEW v \in Worker,
                stage'[v] = "invoked" \/ (stage'[v] = "done" /\ returned'[v] = "completed")
         PROVE  \E f \in effects'[claim'[v].node] : f.attempt = claim'[v].attempt
    <2>1. CASE v = w
      BY <1>1, <1>3, <1>4, <1>5, <2>1 DEF n, ToolTypeOK
    <2>2. CASE v # w
      <3>1. stage[v] = stage'[v] /\ claim[v].node \in Node
        BY <1>5, <1>13, <2>2, ClaimOfStage DEF ToolTypeOK
      <3>2. claim[v].node # n
        BY <1>2, <1>5, <1>13, <3>1 DEF Performed
      <3> QED
        BY <1>4, <1>5, <1>13, <3>1, <3>2 DEF Performed, ToolTypeOK
    <2> QED
      BY <2>1, <2>2
  <1>14. Performed'
    BY <1>13 DEF Performed
  <1> QED
    BY <1>6, <1>7, <1>8, <1>9, <1>12, <1>14

\* Every step keeps the receipts in order.
LEMMA CoreStep ==
    ASSUME Core, TypeOK, [ToolNext]_allVars
    PROVE  Core'
  <1> USE DEF Core
  <1>1. ASSUME NEW w \in Worker, FailEarly(w) \/ GateError(w) \/ ClaimRefused(w)
                                    \/ FailBeforeEffect(w) \/ FinishTool(w)
        PROVE  Core'
    <2>1. PICK o \in Outcome : Return(w, o) /\ (o = "completed" => stage[w] = "invoked")
      BY <1>1 DEF FailEarly, GateError, ClaimRefused, FailBeforeEffect, FinishTool, At, Outcome
    <2>2. /\ stage[w] # "idle"
          /\ UNCHANGED <<claim, policy, auth, superseded, effects>>
      BY <1>1 DEF FailEarly, GateError, ClaimRefused, FailBeforeEffect, FinishTool, At,
                  vars, storeVars
    <2>3. seen' = [seen EXCEPT ![w] = seen[w]] /\ seen[w] \in Policy \cup {NoPolicy}
      BY <2>1 DEF Return, ToolTypeOK
    <2> QED
      BY <2>1, <2>2, <2>3, CoreMove DEF Return
  <1>2. ASSUME NEW w \in Worker, GateRefuse(w)
        PROVE  Core'
    <2>1. auth[claim[w].node] \in Auth
      BY <1>2, ClaimOfStage DEF GateRefuse, At, ToolTypeOK
    <2>2. PICK o \in Outcome \ {"completed"} : Return(w, o)
      BY <1>2, <2>1 DEF GateRefuse, GateOutcome, Auth, AuthStatus, Outcome
    <2>3. /\ stage[w] # "idle"
          /\ UNCHANGED <<claim, policy, auth, superseded, effects>>
      BY <1>2 DEF GateRefuse, At, vars, storeVars
    <2>4. seen' = [seen EXCEPT ![w] = seen[w]] /\ seen[w] \in Policy \cup {NoPolicy}
      BY <2>2 DEF Return, ToolTypeOK
    <2> QED
      BY <2>2, <2>3, <2>4, CoreMove DEF Return
  <1>3. ASSUME NEW w \in Worker, ReadPolicy(w)
        PROVE  Core'
    <2>1. /\ stage[w] # "idle"
          /\ UNCHANGED <<claim, policy, auth, superseded, effects>>
      BY <1>3 DEF ReadPolicy, At, vars, storeVars
    <2>2. /\ seen = [seen EXCEPT ![w] = seen[w]] /\ seen[w] \in Policy \cup {NoPolicy}
          /\ returned = [returned EXCEPT ![w] = returned[w]]
          /\ returned[w] \in Outcome \cup {"none"}
          /\ policy \in Policy
      BY DEF ToolTypeOK
    <2>3. CASE policy \in AllowPolicy /\ stage' = [stage EXCEPT ![w] = "read"]
                 /\ seen' = [seen EXCEPT ![w] = policy] /\ UNCHANGED returned
      BY <2>1, <2>2, <2>3, CoreMove
    <2>4. CASE Return(w, "retryable")
      BY <2>1, <2>2, <2>4, CoreMove DEF Return, Outcome
    <2> QED
      BY <1>3, <2>3, <2>4 DEF ReadPolicy
  <1>4. ASSUME NEW w \in Worker, InspectAuthorization(w)
        PROVE  Core'
    <2>1. /\ stage[w] = "read"
          /\ UNCHANGED <<claim, policy, auth, superseded, effects>>
      BY <1>4 DEF InspectAuthorization, At, vars, storeVars
    <2>2. /\ seen = [seen EXCEPT ![w] = seen[w]] /\ seen[w] \in Policy \cup {NoPolicy}
          /\ returned = [returned EXCEPT ![w] = returned[w]]
          /\ returned[w] \in Outcome \cup {"none"}
      BY DEF ToolTypeOK
    <2>3. seen[w] \in AllowPolicy
      BY <2>1 DEF Route
    <2>4. CASE Goto(w, "gate")
      BY <2>1, <2>2, <2>3, <2>4, CoreMove DEF Goto
    <2>5. CASE Goto(w, "claim") /\ seen[w] \notin ApprovalPolicy
      BY <2>1, <2>2, <2>3, <2>5, CoreMove DEF Goto
    <2> QED
      BY <1>4, <2>4, <2>5 DEF InspectAuthorization
  <1>5. ASSUME NEW w \in Worker, GateRequest(w)
        PROVE  Core'
    <2> DEFINE n == claim[w].node
               a == Row("requested", Bind(w), "nobody")
    <2>1. n \in Node /\ stage[w] = "gate" /\ auth[n] = NoAuth
      BY <1>5, ClaimOfStage DEF GateRequest, At
    <2>2. seen[w] \in AllowPolicy /\ seen[w] \in Policy
      BY <2>1, ToolAssumption DEF Route
    <2>3. /\ a \in Auth /\ a.status = "requested" /\ a.binding.policy \in AllowPolicy
      BY <2>2 DEF Row, Bind, Auth, AuthStatus, Resolver, Binding
    <2>4. /\ auth' = [auth EXCEPT ![n] = a] /\ Return(w, "awaiting_approval")
          /\ superseded' \in [Node -> BOOLEAN] /\ policy' \in Policy
          /\ UNCHANGED <<claim, effects>>
      BY <1>5 DEF GateRequest, vars, ToolTypeOK
    <2>5. ~ Spent(n)
      BY <2>1 DEF Spent
    <2> HIDE DEF n, a
    <2> QED
      BY <2>1, <2>3, <2>4, <2>5, CoreOpenRow
  <1>6. ASSUME NEW w \in Worker, GateConsume(w)
        PROVE  Core'
    <2> DEFINE n == claim[w].node
    <2>1. n \in Node /\ stage[w] = "gate"
      BY <1>6, ClaimOfStage DEF GateConsume, At
    <2>2. /\ auth[n] # NoAuth /\ auth[n].binding = Bind(w) /\ auth[n].status = "approved"
          /\ auth[n] \in Auth
      BY <1>6, <2>1 DEF GateConsume, BindingMatches, ToolTypeOK
    <2>3. /\ seen[w] \in AllowPolicy
          /\ auth[n].resolvedBy \in Resolver
          /\ seen[w] \in ApprovalPolicy => auth[n].resolvedBy = "operator"
      BY <2>1, <2>2 DEF Route, Rows, Bind, Auth
    <2>4. auth' = [auth EXCEPT ![n] = Row("consumed", Bind(w), auth[n].resolvedBy)]
      BY <1>6, <2>2 DEF GateConsume
    <2>5. Goto(w, "authorized") /\ UNCHANGED <<claim, policy, superseded, effects>>
      BY <1>6 DEF GateConsume, vars
    <2>6. ~ Spent(n)
      BY <2>2 DEF Spent
    <2> QED
      BY <2>1, <2>3, <2>4, <2>5, <2>6, CoreConsume
  <1>7. ASSUME NEW w \in Worker, ClaimReceipt(w)
        PROVE  Core'
    <2>1. stage[w] = "claim" /\ ~ Spent(claim[w].node)
      BY <1>7 DEF ClaimReceipt, At, Spent
    <2>2. seen[w] \in AllowPolicy /\ seen[w] \notin ApprovalPolicy /\ "implicit" \in Resolver
      BY <2>1 DEF Route, Resolver
    <2>3. /\ auth' = [auth EXCEPT ![claim[w].node] = Row("consumed", Bind(w), "implicit")]
          /\ Goto(w, "authorized") /\ UNCHANGED <<claim, policy, superseded, effects>>
      BY <1>7 DEF ClaimReceipt, vars
    <2> QED
      BY <2>1, <2>2, <2>3, CoreConsume
  <1>8. ASSUME NEW w \in Worker, SettleTool(w) \/ DropTool(w) \/ CrashTool(w)
        PROVE  Core'
    <2>1. claim' = [claim EXCEPT ![w] = NoClaim] /\ Leave(w) /\ UNCHANGED <<storeVars, effects>>
      BY <1>8 DEF SettleTool, DropTool, CrashTool, Settle, SettleStale, Abandon
    <2> QED
      BY <2>1, CoreLeave
  <1>9. ASSUME NEW n \in Node, NEW d \in {"approved", "rejected"}, ResolveApproval(n, d)
        PROVE  Core'
    <2> DEFINE a == Row(d, auth[n].binding, "operator")
    <2>1. /\ auth[n] # NoAuth /\ auth[n].status = "requested" /\ auth[n] \in Auth
          /\ ~ Spent(n)
      BY <1>9 DEF ResolveApproval, ToolTypeOK, Spent
    <2>2. /\ a \in Auth /\ a.status = d /\ a.resolvedBy = "operator"
          /\ a.binding.policy \in AllowPolicy
      BY <2>1 DEF Row, Auth, AuthStatus, Resolver, Rows
    <2>3. /\ auth' = [auth EXCEPT ![n] = a]
          /\ superseded' \in [Node -> BOOLEAN] /\ policy' \in Policy
          /\ UNCHANGED <<claim, effects, execVars>>
      BY <1>9 DEF ResolveApproval, RequeueApproval, ToolTypeOK
    <2> HIDE DEF a
    <2> QED
      BY <2>1, <2>2, <2>3, CoreOpenRow
  <1>10. ASSUME \/ RunStep
                \/ \E n \in Node : RecordApproval(n)
                \/ \E p \in Policy : ChangePolicy(p)
                \/ UNCHANGED allVars
         PROVE  Core'
    <2>1. UNCHANGED <<claim, auth, effects, execVars>>
      BY <1>10 DEF RunStep, NoReadyNode, RecoverStaleLeases, RequestResume, RequestCancel,
                   SetRunStatus, AdoptRun, RecordApproval, ChangePolicy, allVars, toolVars,
                   vars, execVars
    <2>2. policy' \in Policy /\ superseded' \in [Node -> BOOLEAN]
      BY <1>10 DEF RunStep, RecordApproval, ChangePolicy, allVars, toolVars, ToolTypeOK
    <2> QED
      BY <2>1, <2>2, CoreFrame
  <1> QED
    BY <1>1, <1>2, <1>3, <1>4, <1>5, <1>6, <1>7, <1>8, <1>9, <1>10, CoreStart, CoreInvoke
    DEF ToolNext, ToolStep, OperatorStep

-----------------------------------------------------------------------------
(* How rows, effects and statuses change. *)

\* What a step may do to the row and to the effects of a node.
LEMMA RowStep ==
    ASSUME Core, TypeOK, [ToolNext]_allVars, NEW n \in Node
    PROVE  \/ auth'[n] = auth[n] /\ effects'[n] = effects[n]
           \/ \E w \in Worker : GateRequest(w) /\ claim[w].node = n
           \/ \E w \in Worker : GateConsume(w) /\ claim[w].node = n
           \/ \E w \in Worker : ClaimReceipt(w) /\ claim[w].node = n
           \/ \E w \in Worker : Invoke(w) /\ claim[w].node = n
           \/ \E d \in {"approved", "rejected"} : ResolveApproval(n, d)
  <1> DEFINE Same == auth'[n] = auth[n] /\ effects'[n] = effects[n]
  <1> USE DEF Core
  <1>1. ASSUME NEW w \in Worker,
               \/ GateRequest(w) \/ GateConsume(w) \/ ClaimReceipt(w) \/ Invoke(w),
               claim[w].node # n
        PROVE  Same
    BY <1>1 DEF GateRequest, GateConsume, ClaimReceipt, Invoke, ToolTypeOK, storeVars
  <1>2. ASSUME NEW m \in Node, NEW d, ResolveApproval(m, d), m # n
        PROVE  Same
    BY <1>2 DEF ResolveApproval, ToolTypeOK
  <1>3. ASSUME NEW w \in Worker,
               \/ \E r \in Run : StartTool(w, r)
               \/ FailEarly(w) \/ ReadPolicy(w) \/ InspectAuthorization(w)
               \/ GateError(w) \/ GateRefuse(w) \/ ClaimRefused(w)
               \/ FailBeforeEffect(w) \/ FinishTool(w)
               \/ SettleTool(w) \/ DropTool(w) \/ CrashTool(w)
        PROVE  Same
    BY <1>3 DEF StartTool, FailEarly, ReadPolicy, InspectAuthorization, GateError,
                GateRefuse, ClaimRefused, FailBeforeEffect, FinishTool, SettleTool,
                DropTool, CrashTool, storeVars
  <1>4. ASSUME \/ RunStep
               \/ \E m \in Node : RecordApproval(m)
               \/ \E p \in Policy : ChangePolicy(p)
               \/ UNCHANGED allVars
        PROVE  Same
    BY <1>4 DEF RunStep, RecordApproval, ChangePolicy, allVars, toolVars
  <1> QED
    BY <1>1, <1>2, <1>3, <1>4 DEF ToolNext, ToolStep, OperatorStep

\* A node becomes completed or waiting only by the settlement of the caller
\* that holds its lease and returned just that.
SettledBy(w, n) ==
    /\ stage[w] = "done" /\ claim[w] # NoClaim /\ HoldsLease(w)
    /\ claim[w].node = n /\ returned[w] = status'[n]
    /\ UNCHANGED <<attempt, storeVars, effects>>

\* No other operation makes a node completed or waiting.
LEMMA StatusFrom ==
    ASSUME Core, TypeOK, ClaimsArePast, FailurePropagated, [ToolNext]_allVars,
           NEW n \in Node, status'[n] \in {"completed", "awaiting_approval"}
    PROVE  \/ status[n] = status'[n] /\ attempt'[n] = attempt[n]
           \/ \E w \in Worker : SettledBy(w, n)
  <1> DEFINE Same == status[n] = status'[n] /\ attempt'[n] = attempt[n]
  <1>1. ASSUME NEW w \in Worker, SettleTool(w)
        PROVE  Same \/ SettledBy(w, n)
    <2>1. PICK o \in {returned[w], "fatal"} : Settle(w, o)
      BY <1>1 DEF SettleTool
    <2>2. o \in Outcome
      BY <2>1 DEF Settle, Outcomes, Outcome
    <2>3. UNCHANGED attempt /\ HoldsLease(w) /\ claim[w] # NoClaim
      BY <2>1 DEF Settle
    <2>4. CASE claim[w].node # n
      BY <2>1, <2>2, <2>3, <2>4, SettleChanges
    <2>5. CASE claim[w].node = n
      <3>1. /\ Settled(w, o) \in [Node -> NodeStatus] /\ RunOf[n] \in Run
            /\ status' = PropagateFailedDependencies(Settled(w, o), RunOf[n])
            /\ claim[w].attempt \in Nat
        BY <2>1, <2>2, <2>5, SettleFacts
      <3>2. status'[n] = ActualStatus(w, o, claim[w].attempt)
        <4>1. status'[n] = Settled(w, o)[n]
          BY <3>1, PropagateChanges
        <4> QED
          BY <2>5, <4>1 DEF Settled, TypeOK
      <3>3. Retries[w] \in Nat
        BY ConstantsAssumption
      <3>4. status'[n] = o
        BY <2>2, <3>1, <3>2, <3>3 DEF ActualStatus, Outcome
      <3>5. o = returned[w]
        BY <2>1, <3>4
      <3> QED
        BY <1>1, <2>3, <2>5, <3>4, <3>5 DEF SettledBy, SettleTool, At
    <2> QED
      BY <2>4, <2>5
  <1>2. ASSUME NEW w \in Worker, NEW r \in Run, Lease(w, r)
        PROVE  Same
    BY <1>2, CandidateFacts DEF Lease, TypeOK
  <1>3. ASSUME NEW w \in Worker, NEW r \in Run, NoReadyNode(w, r)
        PROVE  Same
    BY <1>3, NothingDoomed DEF NoReadyNode
  <1>4. ASSUME NEW S \in SUBSET Node, RecoverStaleLeases(S)
        PROVE  Same
    BY <1>4 DEF RecoverStaleLeases
  <1>5. ASSUME NEW m \in Node, RequeueApproval(m)
        PROVE  Same
    BY <1>5 DEF RequeueApproval, TypeOK
  <1>6. ASSUME UNCHANGED <<status, attempt>>
        PROVE  Same
    BY <1>6
  <1>7. ASSUME NEW w \in Worker,
               \/ FailEarly(w) \/ ReadPolicy(w) \/ InspectAuthorization(w)
               \/ GateError(w) \/ GateRequest(w) \/ GateConsume(w) \/ GateRefuse(w)
               \/ ClaimReceipt(w) \/ ClaimRefused(w)
               \/ FailBeforeEffect(w) \/ Invoke(w) \/ FinishTool(w)
               \/ DropTool(w) \/ CrashTool(w)
        PROVE  UNCHANGED <<status, attempt>>
    BY <1>7 DEF FailEarly, ReadPolicy, InspectAuthorization, GateError, GateRequest,
                GateConsume, GateRefuse, ClaimReceipt, ClaimRefused, FailBeforeEffect,
                Invoke, FinishTool, DropTool, CrashTool, SettleStale, Abandon, vars
  <1>8. ASSUME RunStep PROVE Same
    BY <1>8, <1>3, <1>4, <1>6
    DEF RunStep, RequestResume, RequestCancel, SetRunStatus, AdoptRun
  <1>9. ASSUME OperatorStep PROVE Same
    BY <1>9, <1>5, <1>6 DEF OperatorStep, ResolveApproval, RecordApproval, ChangePolicy, vars
  <1>10. ASSUME UNCHANGED allVars PROVE Same
    BY <1>10 DEF allVars, vars
  <1> QED
    BY <1>1, <1>2, <1>6, <1>7, <1>8, <1>9, <1>10 DEF ToolNext, ToolStep, StartTool

\* Every step keeps completed nodes completed by their own effect.
LEMMA CompletedStep ==
    ASSUME Core, Inv, CompletedByItsEffect, [ToolNext]_allVars
    PROVE  CompletedByItsEffect'
  <1> SUFFICES ASSUME NEW n \in Node, status'[n] = "completed"
               PROVE  \E e \in effects'[n] : e.attempt = attempt'[n]
    BY DEF CompletedByItsEffect
  <1> USE DEF Core, Inv, Graph
  <1>1. effects[n] \subseteq effects'[n]
    BY RowStep DEF GateRequest, GateConsume, ClaimReceipt, Invoke, ResolveApproval, ToolTypeOK
  <1>2. CASE status[n] = status'[n] /\ attempt'[n] = attempt[n]
    BY <1>1, <1>2 DEF CompletedByItsEffect
  <1>3. ASSUME NEW w \in Worker, SettledBy(w, n)
        PROVE  \E e \in effects'[n] : e.attempt = attempt'[n]
    BY <1>3 DEF SettledBy, HoldsLease, Performed
  <1> QED
    BY <1>2, <1>3, StatusFrom

-----------------------------------------------------------------------------
(* Open requests. *)

Open(n) == auth[n] # NoAuth /\ auth[n].status = "requested"

\* Nodes that wait, and callers about to make their node wait, have a request
\* that is still open.
Waiting ==
    /\ \A n \in Node : status[n] = "awaiting_approval" => Open(n)
    /\ \A w \in Worker :
          /\ stage[w] = "done" /\ returned[w] = "awaiting_approval"
          /\ HoldsLease(w)
          => Open(claim[w].node)

\* Without metadata-only records an open request is the latest record.
RequestIsLatest ==
    RecordedNode = {} => \A n \in Node : Open(n) => ~ superseded[n]

\* Only its resolution closes a request.
LEMMA OpenStays ==
    ASSUME Core, TypeOK, [ToolNext]_allVars, NEW n \in Node, Open(n)
    PROVE  Open(n)' \/ \E d \in {"approved", "rejected"} : ResolveApproval(n, d)
  <1>1. ASSUME NEW w \in Worker, GateRequest(w) \/ ClaimReceipt(w), claim[w].node = n
        PROVE  FALSE
    BY <1>1 DEF GateRequest, ClaimReceipt, Open
  <1>2. ASSUME NEW w \in Worker, GateConsume(w), claim[w].node = n
        PROVE  FALSE
    BY <1>2 DEF GateConsume, Open
  <1>3. ASSUME NEW w \in Worker, Invoke(w)
        PROVE  Open(n)'
    BY <1>3 DEF Invoke, Open, storeVars
  <1> QED
    BY <1>1, <1>2, <1>3, RowStep DEF Open

\* A caller that holds its lease after a step held it before: a lease, once
\* lost, is not regained, since every new lease has a new attempt_count.
LEMMA LeaseNotRegained ==
    ASSUME TypeOK, ClaimsArePast, [ToolNext]_allVars,
           NEW w \in Worker, claim[w] # NoClaim, claim'[w] = claim[w], HoldsLease(w)',
           FailurePropagated
    PROVE  HoldsLease(w)
  <1> DEFINE n == claim[w].node
  <1>1. n \in Node /\ claim[w].attempt \in Nat /\ claim[w].attempt <= attempt[n]
        /\ attempt[n] \in Nat
    BY DEF TypeOK, Claims, ClaimsArePast
  <1>2. status'[n] = "running" /\ attempt'[n] = claim[w].attempt
    BY DEF HoldsLease
  <1> HIDE DEF n
  <1> SUFFICES status[n] = "running" /\ attempt[n] = attempt'[n]
    BY <1>2 DEF HoldsLease, n
  <1>3. ASSUME NEW v \in Worker, NEW r \in Run, Lease(v, r)
        PROVE  status[n] = "running" /\ attempt[n] = attempt'[n]
    <2>1. PICK m \in Candidates(v, r) :
              /\ status' = [status EXCEPT ![m] = "running"]
              /\ attempt' = [attempt EXCEPT ![m] = @ + 1]
      BY <1>3 DEF Lease
    <2>2. n # m
      BY <1>1, <1>2, <2>1 DEF TypeOK
    <2> QED
      BY <1>1, <1>2, <2>1, <2>2 DEF TypeOK
  <1>4. ASSUME NEW v \in Worker, NEW o \in Outcome, Settle(v, o)
        PROVE  status[n] = "running" /\ attempt[n] = attempt'[n]
    BY <1>1, <1>2, <1>4, SettleChanges DEF Settle
  <1>5. ASSUME NEW v \in Worker, NEW r \in Run, NoReadyNode(v, r)
        PROVE  status[n] = "running" /\ attempt[n] = attempt'[n]
    BY <1>2, <1>5, NothingDoomed DEF NoReadyNode
  <1>6. ASSUME NEW S \in SUBSET Node, RecoverStaleLeases(S)
        PROVE  status[n] = "running" /\ attempt[n] = attempt'[n]
    BY <1>1, <1>2, <1>6 DEF RecoverStaleLeases
  <1>7. ASSUME NEW m \in Node, RequeueApproval(m)
        PROVE  status[n] = "running" /\ attempt[n] = attempt'[n]
    BY <1>1, <1>2, <1>7 DEF RequeueApproval, TypeOK
  <1>8. ASSUME UNCHANGED <<status, attempt>>
        PROVE  status[n] = "running" /\ attempt[n] = attempt'[n]
    BY <1>2, <1>8
  <1>9. [Next]_vars
    BY ToolStepIsRunStep
  <1> QED
    BY <1>3, <1>4, <1>5, <1>6, <1>7, <1>8, <1>9
    DEF Next, WorkerStep, SettleStale, Abandon, RequestResume, RequestCancel,
        SetRunStatus, AdoptRun, vars

\* A caller that has "awaiting_approval" to settle after a step had it before,
\* or has just found or made an open request.
LEMMA AwaitingFrom ==
    ASSUME Core, TypeOK, [ToolNext]_allVars, NEW w \in Worker,
           stage'[w] = "done", returned'[w] = "awaiting_approval"
    PROVE  /\ claim[w] # NoClaim /\ claim'[w] = claim[w]
           /\ \/ stage[w] = "done" /\ returned[w] = "awaiting_approval"
              \/ Open(claim[w].node)'
  <1> DEFINE Goal == /\ claim[w] # NoClaim /\ claim'[w] = claim[w]
                     /\ \/ stage[w] = "done" /\ returned[w] = "awaiting_approval"
                        \/ Open(claim[w].node)'
  <1> USE DEF Core
  <1>0. stage[w] # "idle" => claim[w] # NoClaim
    BY DEF ToolTypeOK
  <1>1. ASSUME NEW v \in Worker,
               \/ FailEarly(v) \/ ReadPolicy(v) \/ InspectAuthorization(v)
               \/ GateError(v) \/ GateConsume(v) \/ ClaimReceipt(v) \/ ClaimRefused(v)
               \/ FailBeforeEffect(v) \/ Invoke(v) \/ FinishTool(v)
        PROVE  Goal
    <2>1. w # v
      BY <1>1 DEF FailEarly, ReadPolicy, InspectAuthorization, GateError, GateConsume,
                  ClaimReceipt, ClaimRefused, FailBeforeEffect, Invoke, FinishTool,
                  Goto, Return, ToolTypeOK
    <2>2. stage[w] = stage'[w] /\ returned[w] = returned'[w] /\ claim' = claim
      BY <1>1, <2>1 DEF FailEarly, ReadPolicy, InspectAuthorization, GateError, GateConsume,
                  ClaimReceipt, ClaimRefused, FailBeforeEffect, Invoke, FinishTool,
                  Goto, Return, ToolTypeOK, vars
    <2> QED
      BY <1>0, <2>2
  <1>2. ASSUME NEW v \in Worker, GateRequest(v)
        PROVE  Goal
    <2>1. CASE v # w
      BY <1>0, <1>2, <2>1 DEF GateRequest, Return, ToolTypeOK, vars
    <2>2. CASE v = w
      <3>1. /\ claim' = claim /\ claim[w] # NoClaim /\ claim[w].node \in Node
            /\ stage[w] = "gate" /\ seen[w] \in Policy
        BY <1>2, <2>2, ClaimOfStage, ToolAssumption DEF GateRequest, At, vars, Route
      <3>2. auth'[claim[w].node] = Row("requested", Bind(w), "nobody")
        BY <1>2, <2>2, <3>1 DEF GateRequest, ToolTypeOK
      <3>3. Row("requested", Bind(w), "nobody") \in Auth
        BY <3>1 DEF Row, Bind, Auth, AuthStatus, Resolver, Binding
      <3> QED
        BY <3>1, <3>2, <3>3, ToolAssumption DEF Open, Row
    <2> QED
      BY <2>1, <2>2
  <1>3. ASSUME NEW v \in Worker, GateRefuse(v)
        PROVE  Goal
    <2>1. CASE v # w
      BY <1>0, <1>3, <2>1 DEF GateRefuse, Return, ToolTypeOK, vars
    <2>2. CASE v = w
      <3>1. /\ claim' = claim /\ auth' = auth /\ claim[w] # NoClaim
            /\ claim[w].node \in Node /\ stage[w] = "gate"
            /\ auth[claim[w].node] # NoAuth /\ auth[claim[w].node].status # "approved"
            /\ returned'[w] = GateOutcome(auth[claim[w].node].status)
        BY <1>3, <2>2, ClaimOfStage
        DEF GateRefuse, At, vars, storeVars, Return, ToolTypeOK
      <3>2. auth[claim[w].node].status \in AuthStatus
        BY <3>1 DEF ToolTypeOK, Auth
      <3>3. auth[claim[w].node].status = "requested"
        BY <3>1, <3>2 DEF GateOutcome, AuthStatus
      <3> QED
        BY <3>1, <3>3 DEF Open
    <2> QED
      BY <2>1, <2>2
  <1>4. ASSUME NEW v \in Worker, NEW r \in Run, StartTool(v, r)
        PROVE  Goal
    <2>1. v # w
      BY <1>4 DEF StartTool, Goto, ToolTypeOK
    <2> QED
      BY <1>0, <1>4, <2>1 DEF StartTool, Lease, Goto, TypeOK, ToolTypeOK
  <1>5. ASSUME NEW v \in Worker, SettleTool(v) \/ DropTool(v) \/ CrashTool(v)
        PROVE  Goal
    <2>1. claim' = [claim EXCEPT ![v] = NoClaim] /\ Leave(v)
      BY <1>5 DEF SettleTool, DropTool, CrashTool, Settle, SettleStale, Abandon
    <2>2. v # w
      BY <2>1 DEF Leave, ToolTypeOK
    <2> QED
      BY <1>0, <2>1, <2>2 DEF Leave, TypeOK, ToolTypeOK
  <1>6. ASSUME \/ RunStep \/ UNCHANGED allVars
               \/ \E m \in Node, d \in {"approved", "rejected"} : ResolveApproval(m, d)
               \/ \E m \in Node : RecordApproval(m)
               \/ \E p \in Policy : ChangePolicy(p)
        PROVE  Goal
    <2>1. UNCHANGED <<claim, stage, returned>>
      BY <1>6 DEF RunStep, NoReadyNode, RecoverStaleLeases, RequestResume, RequestCancel,
                  SetRunStatus, AdoptRun, RecordApproval, ChangePolicy, ResolveApproval,
                  RequeueApproval, allVars, toolVars, vars, execVars
    <2> QED
      BY <1>0, <2>1
  <1> QED
    BY <1>1, <1>2, <1>3, <1>4, <1>5, <1>6 DEF ToolNext, ToolStep, OperatorStep

\* Every step keeps the waiting nodes resolvable.
LEMMA WaitingStep ==
    ASSUME Core, Inv, Waiting, [ToolNext]_allVars
    PROVE  Waiting'
  <1> USE DEF Inv, Graph
  <1>1. ASSUME NEW n \in Node, status'[n] = "awaiting_approval"
        PROVE  Open(n)'
    <2>1. CASE status[n] = status'[n]
      <3>1. Open(n)
        BY <1>1, <2>1 DEF Waiting
      <3>2. ASSUME NEW d, ResolveApproval(n, d) PROVE FALSE
        BY <1>1, <3>2 DEF ResolveApproval, RequeueApproval, TypeOK
      <3> QED
        BY <3>1, <3>2, OpenStays
    <2>2. ASSUME NEW w \in Worker, SettledBy(w, n)
          PROVE  Open(n)'
      BY <1>1, <2>2 DEF SettledBy, Waiting, Open, storeVars
    <2> QED
      BY <1>1, <2>1, <2>2, StatusFrom
  <1>2. ASSUME NEW w \in Worker, stage'[w] = "done", returned'[w] = "awaiting_approval",
               HoldsLease(w)'
        PROVE  Open(claim[w].node)' /\ claim'[w] = claim[w]
    <2>1. claim[w] # NoClaim /\ claim'[w] = claim[w]
      BY <1>2, AwaitingFrom
    <2>2. HoldsLease(w) /\ claim[w].node \in Node
      BY <1>2, <2>1, LeaseNotRegained DEF TypeOK, Claims
    <2>3. CASE stage[w] = "done" /\ returned[w] = "awaiting_approval"
      <3>1. Open(claim[w].node)
        BY <2>2, <2>3 DEF Waiting
      <3>2. ASSUME NEW d, ResolveApproval(claim[w].node, d) PROVE FALSE
        BY <2>2, <3>2 DEF ResolveApproval, RequeueApproval, HoldsLease
      <3> QED
        BY <2>1, <2>2, <3>1, <3>2, OpenStays
    <2> QED
      BY <1>2, <2>1, <2>3, AwaitingFrom
  <1> QED
    BY <1>1, <1>2 DEF Waiting

\* Every step keeps open requests latest, if no metadata-only record is posted.
LEMMA LatestStep ==
    ASSUME Core, TypeOK, RequestIsLatest, [ToolNext]_allVars
    PROVE  RequestIsLatest'
  <1> SUFFICES ASSUME RecordedNode = {}, NEW n \in Node, Open(n)'
               PROVE  ~ superseded'[n]
    BY DEF RequestIsLatest
  <1> USE DEF Core
  <1>1. Open(n) => ~ superseded[n]
    BY DEF RequestIsLatest
  <1>2. ASSUME NEW w \in Worker, GateRequest(w)
        PROVE  ~ superseded'[n]
    <2>1. CASE claim[w].node = n
      BY <1>2, <2>1 DEF GateRequest, ToolTypeOK
    <2>2. CASE claim[w].node # n
      BY <1>1, <1>2, <2>2 DEF GateRequest, ToolTypeOK, Open
    <2> QED
      BY <2>1, <2>2
  <1>3. ASSUME NEW m \in Node, NEW d \in {"approved", "rejected"}, ResolveApproval(m, d)
        PROVE  ~ superseded'[n]
    <2>1. CASE m = n
      BY <1>3, <2>1 DEF ResolveApproval, ToolTypeOK, Open, Row
    <2>2. CASE m # n
      BY <1>1, <1>3, <2>2 DEF ResolveApproval, ToolTypeOK, Open
    <2> QED
      BY <2>1, <2>2
  <1>4. ASSUME NEW w \in Worker, GateConsume(w) \/ ClaimReceipt(w)
        PROVE  ~ superseded'[n]
    <2>1. CASE claim[w].node = n
      BY <1>4, <2>1 DEF GateConsume, ClaimReceipt, ToolTypeOK, Open, Row
    <2>2. CASE claim[w].node # n
      BY <1>1, <1>4, <2>2 DEF GateConsume, ClaimReceipt, ToolTypeOK, Open
    <2> QED
      BY <2>1, <2>2
  <1>5. ASSUME UNCHANGED <<auth, superseded>>
        PROVE  ~ superseded'[n]
    BY <1>1, <1>5 DEF Open
  <1>6. ASSUME NEW w \in Worker,
               \/ \E r \in Run : StartTool(w, r)
               \/ FailEarly(w) \/ ReadPolicy(w) \/ InspectAuthorization(w)
               \/ GateError(w) \/ GateRefuse(w) \/ ClaimRefused(w)
               \/ FailBeforeEffect(w) \/ Invoke(w) \/ FinishTool(w)
               \/ SettleTool(w) \/ DropTool(w) \/ CrashTool(w)
        PROVE  UNCHANGED <<auth, superseded>>
    BY <1>6 DEF StartTool, FailEarly, ReadPolicy, InspectAuthorization, GateError,
                GateRefuse, ClaimRefused, FailBeforeEffect, Invoke, FinishTool, SettleTool,
                DropTool, CrashTool, storeVars
  <1>7. ASSUME RunStep \/ (\E p \in Policy : ChangePolicy(p)) \/ UNCHANGED allVars
        PROVE  UNCHANGED <<auth, superseded>>
    BY <1>7 DEF RunStep, ChangePolicy, allVars, toolVars
  <1>8. ~ \E m \in Node : RecordApproval(m)
    BY DEF RecordApproval
  <1> QED
    BY <1>2, <1>3, <1>4, <1>5, <1>6, <1>7, <1>8 DEF ToolNext, ToolStep, OperatorStep

-----------------------------------------------------------------------------
(* The theorems. *)

ToolInv == Core /\ CompletedByItsEffect /\ Waiting /\ RequestIsLatest

\* The receipts start in order.
LEMMA ToolInitInv == ToolInit => ToolInv
  <1> SUFFICES ASSUME ToolInit PROVE ToolInv
    OBVIOUS
  <1>1. ToolTypeOK
    BY DEF ToolInit, ToolTypeOK, Stage, Init
  <1>2. Core
    BY <1>1 DEF Core, ToolInit, Route, Rows, Holders, Performed, EffectAtMostOnce,
                EffectIsAuthorized
  <1>3. CompletedByItsEffect /\ Waiting /\ RequestIsLatest
    BY DEF ToolInit, Init, CompletedByItsEffect, Waiting, RequestIsLatest, Open
  <1> QED
    BY <1>2, <1>3 DEF ToolInv

\* The inductive invariant of the receipts holds of every behaviour.
THEOREM ToolInvariance == ToolSpec => []ToolInv
  <1>1. Inv /\ ToolInv /\ [ToolNext]_allVars => ToolInv'
    <2> SUFFICES ASSUME Inv, ToolInv, [ToolNext]_allVars PROVE ToolInv'
      OBVIOUS
    <2>1. TypeOK
      BY DEF Inv
    <2>2. Core'
      BY <2>1, CoreStep DEF ToolInv
    <2>3. CompletedByItsEffect'
      BY CompletedStep DEF ToolInv
    <2>4. Waiting'
      BY WaitingStep DEF ToolInv
    <2>5. RequestIsLatest'
      BY <2>1, LatestStep DEF ToolInv
    <2> QED
      BY <2>2, <2>3, <2>4, <2>5 DEF ToolInv
  <1> QED
    BY <1>1, ToolInitInv, RunInvariant, PTL DEF ToolSpec

\* Rows, stages and invocations are always well formed.
THEOREM ToolTypeCorrect == ToolSpec => []ToolTypeOK
  BY ToolInvariance, PTL DEF ToolInv, Core

\* No retry, no lease given away and no crash repeats the effect of a node.
THEOREM EffectOnce == ToolSpec => []EffectAtMostOnce
  BY ToolInvariance, PTL DEF ToolInv, Core

\* What was performed is what was allowed and, where needed, approved.
THEOREM EffectAuthorized == ToolSpec => []EffectIsAuthorized
  BY ToolInvariance, PTL DEF ToolInv, Core

\* Only the lease that performed the effect completes the node.
THEOREM CompletedByEffect == ToolSpec => []CompletedByItsEffect
  BY ToolInvariance, PTL DEF ToolInv

\* A receipt does what it is for: one effect, authorized, behind every completion.
THEOREM EffectSoundness == ToolSpec => []EffectIsSound
  BY ToolTypeCorrect, EffectOnce, EffectAuthorized, CompletedByEffect, PTL DEF EffectIsSound

\* As long as nobody posts a metadata-only record for the node, a node that
\* waits for its approval can get it.
THEOREM ApprovalsStayResolvable ==
    ASSUME RecordedNode = {}
    PROVE  ToolSpec => []ApprovalResolvable
  <1>1. ToolInv => ApprovalResolvable
    BY DEF ToolInv, Waiting, RequestIsLatest, Open, ApprovalResolvable
  <1> QED
    BY <1>1, ToolInvariance, PTL

\* No step consumes a receipt against the policy in force.
THEOREM PolicyInForce == ToolSpec => RevocationStops
  <1> DEFINE Stops ==
        \A n \in Node :
          /\ auth'[n] # NoAuth /\ auth'[n].status = "consumed"
          /\ auth[n] # auth'[n]
          => /\ policy \in AllowPolicy
             /\ policy = auth'[n].binding.policy
             /\ policy \in ApprovalPolicy =>
                   auth[n] # NoAuth /\ auth[n].status = "approved"
  <1>1. ASSUME Inv, ToolInv, [ToolNext]_allVars,
               NEW n \in Node, auth'[n] # NoAuth, auth'[n].status = "consumed",
               auth[n] # auth'[n]
        PROVE  /\ policy \in AllowPolicy
               /\ policy = auth'[n].binding.policy
               /\ policy \in ApprovalPolicy =>
                     auth[n] # NoAuth /\ auth[n].status = "approved"
    <2> USE DEF ToolInv, Core
    <2>1. ASSUME NEW w \in Worker, GateConsume(w), claim[w].node = n
          PROVE  /\ policy \in AllowPolicy /\ policy = auth'[n].binding.policy
                 /\ auth[n] # NoAuth /\ auth[n].status = "approved"
      BY <1>1, <2>1 DEF GateConsume, At, PolicyUnchanged, BindingMatches, Bind, Row, Route, ToolTypeOK
    <2>2. ASSUME NEW w \in Worker, ClaimReceipt(w), claim[w].node = n
          PROVE  /\ policy \in AllowPolicy /\ policy = auth'[n].binding.policy
                 /\ policy \notin ApprovalPolicy
      BY <1>1, <2>2 DEF ClaimReceipt, At, PolicyUnchanged, Bind, Row, Route, ToolTypeOK
    <2>3. ASSUME NEW w \in Worker, GateRequest(w), claim[w].node = n
          PROVE  FALSE
      BY <1>1, <2>3 DEF GateRequest, Row, ToolTypeOK
    <2>4. ASSUME NEW w \in Worker, Invoke(w)
          PROVE  FALSE
      BY <1>1, <2>4 DEF Invoke, storeVars
    <2>5. ASSUME NEW d \in {"approved", "rejected"}, ResolveApproval(n, d)
          PROVE  FALSE
      BY <1>1, <2>5 DEF ResolveApproval, Row, ToolTypeOK
    <2>6. TypeOK
      BY <1>1 DEF Inv
    <2> QED
      BY <1>1, <2>1, <2>2, <2>3, <2>4, <2>5, <2>6, RowStep
  <1>2. Inv /\ ToolInv /\ [ToolNext]_allVars => [Stops]_allVars
    BY <1>1
  <1> QED
    BY <1>2, ToolInvariance, RunInvariant, PTL DEF ToolSpec, RevocationStops

\* Requests, resolutions, receipts and invocations implement OneShotEffect.
THEOREM ToolImplementsOneShot == ToolSpec => ImplementsOneShotEffect
  <1>1. ToolInit => Receipt!Init
    BY DEF ToolInit, Receipt!Init, ReceiptPhase, PhaseOf
  <1>2. ASSUME Inv, ToolInv, [ToolNext]_allVars
        PROVE  [Receipt!Next]_ReceiptPhase
    <2> USE DEF ToolInv, Core
    <2>1. TypeOK
      BY <1>2 DEF Inv
    \* A step that changes one node only, from one phase to another.
    <2>2. ASSUME NEW n \in Node, NEW from, NEW to,
                 \A m \in Node \ {n} : auth'[m] = auth[m] /\ effects'[m] = effects[m],
                 ReceiptPhase[n] = from, ReceiptPhase'[n] = to
          PROVE  Receipt!Move(n, from, to)
      <3>1. \A m \in Node \ {n} : ReceiptPhase'[m] = ReceiptPhase[m]
        BY <2>2 DEF ReceiptPhase
      <3>2. /\ ReceiptPhase = [m \in Node |-> ReceiptPhase[m]]
            /\ ReceiptPhase' = [m \in Node |-> ReceiptPhase'[m]]
        BY DEF ReceiptPhase
      <3>3. ReceiptPhase' = [ReceiptPhase EXCEPT ![n] = to]
        BY <2>2, <3>1, <3>2
      <3> QED
        BY <2>2, <3>3 DEF Receipt!Move
    <2>3. ASSUME NEW w \in Worker, GateRequest(w)
          PROVE  Receipt!Next
      <3> DEFINE n == claim[w].node
      <3>1. n \in Node /\ auth[n] = NoAuth
        BY <1>2, <2>1, <2>3, ClaimOfStage DEF GateRequest, At
      <3>2. effects[n] = {}
        BY <1>2, <3>1 DEF EffectIsAuthorized
      <3>3. stage[w] = "gate" /\ seen[w] \in Policy
        BY <1>2, <2>3, ToolAssumption DEF GateRequest, At, Route
      <3>4. Row("requested", Bind(w), "nobody") \in Auth
        BY <3>3 DEF Row, Bind, Auth, AuthStatus, Resolver, Binding
      <3>5. /\ auth'[n] = Row("requested", Bind(w), "nobody")
            /\ auth'[n] # NoAuth /\ auth'[n].status = "requested" /\ effects'[n] = {}
            /\ \A m \in Node \ {n} : auth'[m] = auth[m] /\ effects'[m] = effects[m]
        BY <1>2, <2>3, <3>1, <3>2, <3>4, ToolAssumption DEF GateRequest, ToolTypeOK, Row
      <3>6. ReceiptPhase[n] = "open" /\ ReceiptPhase'[n] = "waiting"
        BY <3>1, <3>2, <3>5 DEF ReceiptPhase, PhaseOf
      <3> QED
        BY <2>2, <3>1, <3>5, <3>6 DEF Receipt!Next, Receipt!Submit
    <2>4. ASSUME NEW w \in Worker, GateConsume(w)
          PROVE  Receipt!Next
      <3> DEFINE n == claim[w].node
      <3>1. /\ n \in Node /\ auth[n] # NoAuth /\ auth[n].status = "approved"
            /\ auth[n] \in Auth
        BY <1>2, <2>1, <2>4, ClaimOfStage DEF GateConsume, At, ToolTypeOK
      <3>2. effects[n] = {}
        BY <1>2, <3>1 DEF EffectIsAuthorized
      <3>3. Row("consumed", auth[n].binding, auth[n].resolvedBy) \in Auth
        BY <3>1 DEF Row, Auth, AuthStatus
      <3>4. /\ auth'[n] # NoAuth /\ auth'[n].status = "consumed" /\ effects'[n] = {}
            /\ \A m \in Node \ {n} : auth'[m] = auth[m] /\ effects'[m] = effects[m]
        BY <1>2, <2>4, <3>1, <3>2, <3>3, ToolAssumption DEF GateConsume, ToolTypeOK, Row
      <3>5. ReceiptPhase[n] = "granted" /\ ReceiptPhase'[n] = "spent"
        BY <3>1, <3>2, <3>4 DEF ReceiptPhase, PhaseOf
      <3> QED
        BY <2>2, <3>1, <3>4, <3>5 DEF Receipt!Next, Receipt!Spend
    <2>5. ASSUME NEW w \in Worker, ClaimReceipt(w)
          PROVE  Receipt!Next
      <3> DEFINE n == claim[w].node
      <3>1. n \in Node /\ auth[n] = NoAuth
        BY <1>2, <2>1, <2>5, ClaimOfStage DEF ClaimReceipt, At
      <3>2. effects[n] = {}
        BY <1>2, <3>1 DEF EffectIsAuthorized
      <3>3. stage[w] = "claim" /\ seen[w] \in Policy
        BY <1>2, <2>5, ToolAssumption DEF ClaimReceipt, At, Route
      <3>4. Row("consumed", Bind(w), "implicit") \in Auth
        BY <3>3 DEF Row, Bind, Auth, AuthStatus, Resolver, Binding
      <3>5. /\ auth'[n] # NoAuth /\ auth'[n].status = "consumed" /\ effects'[n] = {}
            /\ \A m \in Node \ {n} : auth'[m] = auth[m] /\ effects'[m] = effects[m]
        BY <1>2, <2>5, <3>1, <3>2, <3>4, ToolAssumption DEF ClaimReceipt, ToolTypeOK, Row
      <3>6. ReceiptPhase[n] = "open" /\ ReceiptPhase'[n] = "spent"
        BY <3>1, <3>2, <3>5 DEF ReceiptPhase, PhaseOf
      <3> QED
        BY <2>2, <3>1, <3>5, <3>6 DEF Receipt!Next, Receipt!Spend
    <2>6. ASSUME NEW w \in Worker, Invoke(w)
          PROVE  Receipt!Next
      <3> DEFINE n == claim[w].node
      <3>1. /\ n \in Node /\ Spent(n) /\ effects[n] = {}
        BY <1>2, <2>1, <2>6, ClaimOfStage DEF Invoke, At, Holders
      <3>2. /\ auth' = auth /\ effects'[n] # {}
            /\ \A m \in Node \ {n} : effects'[m] = effects[m]
        BY <1>2, <2>6, <3>1 DEF Invoke, storeVars, ToolTypeOK
      <3>3. ReceiptPhase[n] = "spent" /\ ReceiptPhase'[n] = "performed"
        BY <3>1, <3>2 DEF ReceiptPhase, PhaseOf, Spent
      <3> QED
        BY <2>2, <3>1, <3>2, <3>3 DEF Receipt!Next, Receipt!Perform
    <2>7. ASSUME NEW n \in Node, NEW d \in {"approved", "rejected"}, ResolveApproval(n, d)
          PROVE  Receipt!Next
      <3>1. /\ auth[n] # NoAuth /\ auth[n].status = "requested" /\ auth[n] \in Auth
        BY <1>2, <2>7 DEF ResolveApproval, ToolTypeOK
      <3>2. effects[n] = {}
        BY <1>2, <3>1 DEF EffectIsAuthorized
      <3>3. Row(d, auth[n].binding, "operator") \in Auth
        BY <3>1 DEF Row, Auth, AuthStatus, Resolver
      <3>4. /\ auth'[n] # NoAuth /\ auth'[n].status = d /\ effects'[n] = {}
            /\ \A m \in Node \ {n} : auth'[m] = auth[m] /\ effects'[m] = effects[m]
        BY <1>2, <2>7, <3>1, <3>2, <3>3, ToolAssumption DEF ResolveApproval, ToolTypeOK, Row
      <3>5. CASE d = "approved"
        <4>1. ReceiptPhase[n] = "waiting" /\ ReceiptPhase'[n] = "granted"
          BY <3>1, <3>2, <3>4, <3>5 DEF ReceiptPhase, PhaseOf
        <4> QED
          BY <2>2, <3>4, <4>1 DEF Receipt!Next, Receipt!Grant
      <3>6. CASE d = "rejected"
        <4>1. ReceiptPhase[n] = "waiting" /\ ReceiptPhase'[n] = "refused"
          BY <3>1, <3>2, <3>4, <3>6 DEF ReceiptPhase, PhaseOf
        <4> QED
          BY <2>2, <3>4, <4>1 DEF Receipt!Next, Receipt!Refuse
      <3> QED
        BY <3>5, <3>6
    <2>8. ASSUME \A n \in Node : auth'[n] = auth[n] /\ effects'[n] = effects[n]
          PROVE  ReceiptPhase' = ReceiptPhase
      BY <2>8 DEF ReceiptPhase
    <2> QED
      BY <1>2, <2>1, <2>3, <2>4, <2>5, <2>6, <2>7, <2>8, RowStep
  <1> QED
    BY <1>1, <1>2, ToolInvariance, RunInvariant, PTL
    DEF ToolSpec, ImplementsOneShotEffect, Receipt!Spec
=============================================================================
