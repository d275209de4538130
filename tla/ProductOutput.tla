--------------------------- MODULE ProductOutput ---------------------------
(***************************************************************************)
(* Delivering the approved result of one product task (output_product_task *)
(* and the HTTP handler around it).  A Draft PR goes through a durable     *)
(* operation of two leased phases, push and pull request, whose record,    *)
(* the task and GitHub change in separate steps; changes are applied to a  *)
(* local folder under a receipt written before the effect; an artifact     *)
(* only needs its receipt.  Any number of calls run at the same time, in   *)
(* one process or in several, and any of them may die.                     *)
(***************************************************************************)
EXTENDS Integers

CONSTANTS
    Operator,       \* concurrent calls
    OutputIntents,  \* the intents the task may have been admitted with
    MaxDeaths       \* bound: calls that die

ASSUME OutputAssumption ==
    /\ OutputIntents \subseteq {"draft_pr", "apply_local_changes", "artifact_only"}
    /\ MaxDeaths \in Nat

VARIABLES
    intent,         \* product_tasks.output_intent
    product,        \* product_tasks row: status and version
    operation,      \* product_output_operation of the artifact, state none when absent
    leased,         \* the phase in progress was claimed less than 15 minutes ago
    delivery,       \* product_output_receipt of the artifact, and its rollback
    github,         \* the branch and the pull request that exist
    source,         \* the operator's folder, and how often it was written
    evidence,       \* task versions with committed terminal evidence
    call,           \* where each call is
    held,           \* each call: expected task version, operation version, outcome
    deaths          \* calls that died

ovars == <<intent, product, operation, leased, delivery, github, source, evidence,
           call, held, deaths>>

MaxAttempts == 4

\* Statuses in which output may be asked for; the approval was given at version 1.
Open == {"awaiting_approval", "output_pending", "outcome_unknown"}

CallSteps == {"idle", "claim", "push", "mark", "claim_pr", "settle", "lookup", "post", "finish",
              "bind", "complete", "effect_claim", "apply", "record", "unknown",
              "rollback", "rolled_back", "not_rolled_back"}

NoPhase == [status |-> "pending", at |-> 0]

NoCall == [task |-> 0, op |-> 0, pr |-> "none", out |-> "none"]

OutInit ==
    /\ intent \in OutputIntents
    /\ product = [status |-> "awaiting_approval", version |-> 1]
    /\ operation = [state |-> "none", attempt |-> 0, version |-> 0, expected |-> 0,
                    branch |-> NoPhase, pr |-> NoPhase, terminal |-> 0]
    /\ leased = FALSE
    /\ delivery = [state |-> "none", rollback |-> "none"]
    /\ github = [branch |-> FALSE, pr |-> FALSE]
    /\ source = [content |-> "original", applies |-> 0, undos |-> 0]
    /\ evidence = {}
    /\ call = [c \in Operator |-> "idle"]
    /\ held = [c \in Operator |-> NoCall]
    /\ deaths = 0

-----------------------------------------------------------------------------
Move(c, step) == call' = [call EXCEPT ![c] = step]

\* An error, or a response without a further effect.
Return(c) == Move(c, "idle") /\ held' = [held EXCEPT ![c] = NoCall]

\* transition_product_task: the next version.
Become(status) == product' = [status |-> status, version |-> product.version + 1]

\* validate_product_output_request_task, in every transaction: the caller's
\* version is current.
Authority(c) == product.status \in Open /\ product.version = held[c].task

\* output_product_task up to its branch on the intent.  A local effect whose
\* outcome is unknown is refused; a completed task is only reported.
Output(c) ==
    /\ call[c] = "idle" /\ product.status \in Open
    /\ ~ (intent = "apply_local_changes" /\ product.status = "outcome_unknown")
    /\ held' = [held EXCEPT ![c] = [NoCall EXCEPT !.task = product.version]]
    /\ Move(c, CASE intent = "draft_pr" -> "claim"
                 [] intent = "apply_local_changes" -> "effect_claim"
                 [] OTHER -> "record")
    /\ UNCHANGED <<intent, product, operation, leased, delivery, github, source, evidence, deaths>>

-----------------------------------------------------------------------------
(* The Draft PR operation: claim_product_output_operation. *)

\* The operation keeps the task version it was made for; a caller one version
\* on is accepted while the task is output_pending.
Fits(c) ==
    \/ operation.expected = held[c].task
    \/ product.status = "output_pending" /\ operation.expected + 1 = held[c].task

\* The phase to do next.
Phase == IF operation.branch.status = "completed" THEN "pr" ELSE "branch"

\* Mutant: a claim does not count as a change of the operation.
ClaimedUnversioned(ph, v) ==
    [operation EXCEPT !.attempt = @ + 1, !.state = "active",
                      ![ph] = [status |-> "in_progress", at |-> v]]

\* claim_product_output_phase.
Claimed(ph, v) ==
    [operation EXCEPT !.attempt = @ + 1, !.version = @ + 1, !.state = "active",
                      ![ph] = [status |-> "in_progress", at |-> v]]

\* Mutant: a phase in progress is never taken over.
ClaimableOnce ==
    /\ operation.state # "completed" /\ operation.attempt < MaxAttempts
    /\ operation[Phase].status # "in_progress"

\* Nobody holds the phase, or its lease is over, and an attempt is left.
Claimable ==
    /\ operation.state # "completed" /\ operation.attempt < MaxAttempts
    /\ operation[Phase].status = "in_progress" => ~ leased

\* The first call makes the operation and holds its push.
OpenOperation(c) ==
    /\ call[c] = "claim" /\ Authority(c) /\ operation.state = "none"
    /\ operation' = [Claimed("branch", held[c].task) EXCEPT !.expected = held[c].task]
    /\ leased' = TRUE
    /\ held' = [held EXCEPT ![c].op = 1]
    /\ Move(c, "push")
    /\ UNCHANGED <<intent, product, delivery, github, source, evidence, deaths>>

\* A later call takes the phase.  A pull request whose outcome is unknown may
\* only be looked for.  The call that has just pushed goes on only when it may
\* create the pull request.
ClaimPhase(c) ==
    /\ call[c] \in {"claim", "claim_pr"} /\ operation.state # "none"
    /\ Authority(c) /\ Fits(c) /\ Claimable
    /\ operation' = Claimed(Phase, held[c].task)
    /\ leased' = TRUE
    /\ LET pr == IF Phase = "branch" THEN "none"
                 ELSE IF operation.pr.status = "outcome_unknown" THEN "reconcile" ELSE "create"
       IN IF call[c] = "claim_pr" /\ pr = "reconcile"
          THEN Return(c)
          ELSE /\ held' = [held EXCEPT ![c].op = operation'.version, ![c].pr = pr, ![c].out = "output_pending"]
               /\ Move(c, IF pr = "none" THEN "push" ELSE "settle")
    /\ UNCHANGED <<intent, product, delivery, github, source, evidence, deaths>>

\* The claim is refused, or somebody else is at it.
ClaimBusy(c) ==
    /\ call[c] \in {"claim", "claim_pr"}
    /\ \/ ~ Authority(c)
       \/ operation.state # "none" /\ ~ Fits(c)
       \/ operation[Phase].status = "in_progress" /\ (leased \/ operation.attempt >= MaxAttempts)
       \/ call[c] = "claim_pr" /\ ~ Claimable
    /\ Return(c)
    /\ UNCHANGED <<intent, product, operation, leased, delivery, github, source, evidence, deaths>>

\* The operation is complete: the task is completed with it.
ClaimReused(c) ==
    /\ call[c] = "claim" /\ Authority(c) /\ Fits(c) /\ operation.state = "completed"
    /\ Move(c, "complete")
    /\ UNCHANGED <<intent, product, operation, leased, delivery, github, source, evidence, held, deaths>>

\* No attempt is left: reconciliation required.
ClaimExhausted(c) ==
    /\ call[c] = "claim" /\ Authority(c) /\ Fits(c)
    /\ operation.state \notin {"none", "completed"} /\ operation.attempt >= MaxAttempts
    /\ operation[Phase].status # "in_progress"
    /\ held' = [held EXCEPT ![c].out = "outcome_unknown"]
    /\ Move(c, "settle")
    /\ UNCHANGED <<intent, product, operation, leased, delivery, github, source, evidence, deaths>>

\* Fifteen minutes pass.
LeaseExpires ==
    /\ leased
    /\ leased' = FALSE
    /\ UNCHANGED <<intent, product, operation, delivery, github, source, evidence, call, held, deaths>>

-----------------------------------------------------------------------------
(* The push. *)

\* Without the network gate the operation stays a plan.
PlanOnly(c) ==
    /\ call[c] = "push"
    /\ held' = [held EXCEPT ![c].out = "output_pending"]
    /\ Move(c, "settle")
    /\ UNCHANGED <<intent, product, operation, leased, delivery, github, source, evidence, deaths>>

\* push_approved_branch; blocked is a missing credential, found before it.
PushBranch(c) ==
    /\ call[c] = "push"
    /\ \E out \in {"pushed", "outcome_unknown", "failed", "blocked"} :
          /\ held' = [held EXCEPT ![c].out = out]
          /\ github' \in CASE out = "pushed" -> {[github EXCEPT !.branch = TRUE]}
                           [] out = "outcome_unknown" -> {github, [github EXCEPT !.branch = TRUE]}
                           [] OTHER -> {github}
    /\ Move(c, "mark")
    /\ UNCHANGED <<intent, product, operation, leased, delivery, source, evidence, deaths>>

\* The phase is still the caller's: its own claim, one version back when rebound.
Current(c, ph, rebind) ==
    /\ Authority(c)
    /\ operation.version = held[c].op /\ operation[ph].status = "in_progress"
    /\ \/ operation[ph].at = held[c].task
       \/ rebind /\ operation[ph].at + 1 = held[c].task

\* The phase ends, and its claim with it.
End(ph, status, state) ==
    /\ operation' = [operation EXCEPT ![ph].status = status, !.state = state, !.version = @ + 1]
    /\ leased' = FALSE

\* record_product_output_branch_pushed, mark_product_output_branch_outcome_unknown
\* and mark_product_output_branch_failed_known.
MarkBranch(c) ==
    /\ call[c] = "mark"
    /\ LET out == held[c].out IN
       IF ~ Current(c, "branch", out = "pushed" /\ product.status = "output_pending")
       THEN Return(c) /\ UNCHANGED <<operation, leased>>
       ELSE /\ CASE out = "pushed" -> End("branch", "completed", operation.state)
                [] out = "outcome_unknown" -> End("branch", "outcome_unknown", "outcome_unknown")
                [] OTHER -> End("branch", "failed_known", "failed")
            /\ IF out = "blocked" THEN Return(c)
               ELSE Move(c, IF out = "pushed" THEN "claim_pr" ELSE "settle") /\ UNCHANGED held
    /\ UNCHANGED <<intent, product, delivery, github, source, evidence, deaths>>

\* Mutant: the tail does not look at the task again.
SettleBlind(c) ==
    /\ call[c] = "settle"
    /\ Become(held[c].out)
    /\ held' = [held EXCEPT ![c].task = product'.version]
    /\ Move(c, IF held[c].pr = "none" THEN "idle" ELSE "lookup")
    /\ UNCHANGED <<intent, operation, leased, delivery, github, source, evidence, deaths>>

\* The tail of output_product_task: the task is read again and moved, from
\* whatever version it has; the handler goes on with the version it then has.
\* A version that moves between the read and the update ends the call, which
\* leaves what a death at this point leaves.
Settle(c) ==
    /\ call[c] = "settle"
    /\ IF product.status \notin Open
       THEN Return(c) /\ UNCHANGED product
       ELSE /\ IF product.status = held[c].out THEN UNCHANGED product ELSE Become(held[c].out)
            /\ IF held[c].pr = "none" THEN Return(c)
               ELSE held' = [held EXCEPT ![c].task = product'.version] /\ Move(c, "lookup")
    /\ UNCHANGED <<intent, operation, leased, delivery, github, source, evidence, deaths>>

-----------------------------------------------------------------------------
(* The pull request: create_or_reconcile_github_pull_request, then the store. *)

\* The open pull request of the branch is looked up first, and may not answer.
Lookup(c) ==
    /\ call[c] = "lookup"
    /\ \/ github.pr /\ held' = [held EXCEPT ![c].out = "created"] /\ Move(c, "finish")
       \/ ~ github.pr /\ held[c].pr = "reconcile"
          /\ held' = [held EXCEPT ![c].out = "outcome_unknown"] /\ Move(c, "finish")
       \/ ~ github.pr /\ held[c].pr = "create" /\ Move(c, "post") /\ UNCHANGED held
       \/ held' = [held EXCEPT ![c].out = "failed_known"] /\ Move(c, "finish")
    /\ UNCHANGED <<intent, product, operation, leased, delivery, github, source, evidence, deaths>>

\* GitHub has at most one open pull request for a branch that exists.
Post(c) ==
    /\ call[c] = "post"
    /\ \E out \in {"created", "failed_known", "outcome_unknown"} :
          /\ out = "created" => github.branch /\ ~ github.pr
          /\ held' = [held EXCEPT ![c].out = out]
          /\ github' \in CASE out = "created" -> {[github EXCEPT !.pr = TRUE]}
                           [] out = "outcome_unknown" -> {github, [github EXCEPT !.pr = github.branch]}
                           [] OTHER -> {github}
    /\ Move(c, "finish")
    /\ UNCHANGED <<intent, product, operation, leased, delivery, source, evidence, deaths>>

\* complete_product_output_draft_pr; a completed operation is reused.
CompletePr(c) ==
    /\ call[c] = "finish" /\ held[c].out = "created"
    /\ \/ /\ operation.state = "completed" /\ Authority(c)
          /\ Move(c, "bind") /\ held' = [held EXCEPT ![c].op = operation.version]
          /\ UNCHANGED <<operation, leased>>
       \/ /\ operation.state # "completed" /\ Current(c, "pr", product.status = "output_pending")
          /\ End("pr", "completed", "completed")
          /\ Move(c, "bind") /\ held' = [held EXCEPT ![c].op = operation'.version]
       \/ /\ ~ Authority(c) \/ (operation.state # "completed" /\ ~ Current(c, "pr", product.status = "output_pending"))
          /\ Return(c) /\ UNCHANGED <<operation, leased>>
    /\ UNCHANGED <<intent, product, delivery, github, source, evidence, deaths>>

\* mark_product_output_pr_outcome_unknown, then the task;
\* mark_product_output_pr_failed_known.  Neither may be rebound.
MarkPr(c) ==
    /\ call[c] = "finish" /\ held[c].out # "created"
    /\ LET unknown == held[c].out = "outcome_unknown" IN
       IF ~ Current(c, "pr", FALSE)
       THEN Return(c) /\ UNCHANGED <<operation, leased>>
       ELSE /\ End("pr", held[c].out, IF unknown THEN "outcome_unknown" ELSE "active")
            /\ IF unknown THEN Move(c, "unknown") /\ UNCHANGED held ELSE Return(c)
    /\ UNCHANGED <<intent, product, delivery, github, source, evidence, deaths>>

\* mark_product_task_output_outcome_unknown, from whatever version the task has.
MarkTaskUnknown(c) ==
    /\ call[c] = "unknown"
    /\ IF product.status \in {"awaiting_approval", "output_pending"}
       THEN Become("outcome_unknown") ELSE UNCHANGED product
    /\ Return(c)
    /\ UNCHANGED <<intent, operation, leased, delivery, github, source, evidence, deaths>>

\* Not bound yet, or bound to the version before while nothing is completed.
Bindable(c) ==
    \/ operation.terminal = 0
    \/ operation.terminal + 1 = held[c].task /\ product.status = "output_pending" /\ evidence = {}

\* bind_product_output_terminal_task_version.
BindTerminal(c) ==
    /\ call[c] = "bind"
    /\ IF Authority(c) /\ operation.terminal = held[c].task
       THEN Move(c, "complete") /\ UNCHANGED <<operation, held>>
       ELSE IF Authority(c) /\ Bindable(c) /\ operation.version = held[c].op
       THEN /\ operation' = [operation EXCEPT !.terminal = held[c].task, !.version = @ + 1]
            /\ Move(c, "complete") /\ UNCHANGED held
       ELSE Return(c) /\ UNCHANGED operation
    /\ UNCHANGED <<intent, product, leased, delivery, github, source, evidence, deaths>>

\* validate_terminal_product_output_record.  A receipt is also compared by
\* expected_task_version, which Authority implies: without a pull request the version
\* moves when the task completes, or when its local effect is unknown, and Output is
\* refused from then on.
RecordIsTerminal(c) ==
    IF intent = "draft_pr" THEN operation.state = "completed" /\ operation.terminal = held[c].task
                           ELSE delivery.state = "completed"

\* complete_product_task_output_authorized: status and evidence in one
\* transaction; a task that is completed already is only reported.
CompleteTask(c) ==
    /\ call[c] = "complete"
    /\ IF Authority(c) /\ RecordIsTerminal(c)
          /\ (intent = "draft_pr" => product.status # "awaiting_approval")
       THEN Become("completed") /\ evidence' = evidence \cup {product.version + 1}
       ELSE UNCHANGED <<product, evidence>>
    /\ Return(c)
    /\ UNCHANGED <<intent, operation, leased, delivery, github, source, deaths>>

-----------------------------------------------------------------------------
(* Local changes and artifacts. *)

\* claim_product_local_apply_effect: an existing receipt is never claimed again.
ClaimEffect(c) ==
    /\ call[c] = "effect_claim"
    /\ IF Authority(c) /\ delivery.state = "none"
       THEN delivery' = [delivery EXCEPT !.state = "effect_started"] /\ Move(c, "apply") /\ UNCHANGED held
       ELSE UNCHANGED delivery /\ Return(c)
    /\ UNCHANGED <<intent, product, operation, leased, github, source, evidence, deaths>>

Contents == {"original", "partial", "applied"}

Written(content, applies, undos) ==
    [content |-> content, applies |-> source.applies + applies, undos |-> source.undos + undos]

\* execute_product_task_output: what was applied before a failure is rolled
\* back, which may fail too.
ApplyEffect(c) ==
    /\ call[c] = "apply"
    /\ \E content \in Contents :
          /\ source' = Written(content, 1, 0)
          /\ Move(c, IF content = "applied" THEN "record" ELSE "unknown")
    /\ UNCHANGED <<intent, product, operation, leased, delivery, github, evidence, held, deaths>>

\* record_product_nonnetwork_output_receipt: concurrent callers of an artifact
\* share one receipt.
RecordReceipt(c) ==
    /\ call[c] = "record"
    /\ IF Authority(c)
       THEN delivery' = [delivery EXCEPT !.state = "completed"] /\ Move(c, "complete") /\ UNCHANGED held
       ELSE UNCHANGED delivery /\ Return(c)
    /\ UNCHANGED <<intent, product, operation, leased, github, source, evidence, deaths>>

\* The receipt cannot be written: a local effect is then unconfirmed.
RecordFails(c) ==
    /\ call[c] = "record" /\ intent = "apply_local_changes"
    /\ Move(c, "unknown")
    /\ UNCHANGED <<intent, product, operation, leased, delivery, github, source, evidence, held, deaths>>

\* rollback_product_task_local_folder_apply, claimed once.
ClaimRollback(c) ==
    /\ call[c] = "idle"
    /\ product.status = "completed" /\ intent = "apply_local_changes"
    /\ delivery = [state |-> "completed", rollback |-> "none"]
    /\ delivery' = [delivery EXCEPT !.rollback = "effect_started"]
    /\ Move(c, "rollback")
    /\ UNCHANGED <<intent, product, operation, leased, github, source, evidence, held, deaths>>

UndoEffect(c) ==
    /\ call[c] = "rollback"
    /\ \E content \in Contents :
          /\ source' = Written(content, 0, 1)
          /\ Move(c, IF content = "original" THEN "rolled_back" ELSE "not_rolled_back")
    /\ UNCHANGED <<intent, product, operation, leased, delivery, github, evidence, held, deaths>>

\* finish_product_local_apply_rollback; a completion that cannot be written is
\* marked unknown.
FinishRollback(c) ==
    /\ call[c] \in {"rolled_back", "not_rolled_back"}
    /\ \E s \in {"completed", "outcome_unknown"} :
          /\ s = "completed" => call[c] = "rolled_back"
          /\ delivery' = [delivery EXCEPT !.rollback = s]
    /\ Move(c, "idle")
    /\ UNCHANGED <<intent, product, operation, leased, github, source, evidence, held, deaths>>

-----------------------------------------------------------------------------
\* The process of a call dies; what it was doing may have happened.
CallDies(c) ==
    /\ call[c] # "idle" /\ deaths < MaxDeaths
    /\ deaths' = deaths + 1
    /\ github' \in CASE call[c] = "push" -> {github, [github EXCEPT !.branch = TRUE]}
                     [] call[c] = "post" -> {github, [github EXCEPT !.pr = github.branch]}
                     [] OTHER -> {github}
    /\ source' \in CASE call[c] = "apply" -> {Written(x, 1, 0) : x \in Contents}
                     [] call[c] = "rollback" -> {Written(x, 0, 1) : x \in Contents}
                     [] OTHER -> {source}
    /\ Return(c)
    /\ UNCHANGED <<intent, product, operation, leased, delivery, evidence>>

CallStep(c) ==
    \/ OpenOperation(c) \/ ClaimPhase(c) \/ ClaimBusy(c) \/ ClaimReused(c) \/ ClaimExhausted(c)
    \/ PlanOnly(c) \/ PushBranch(c) \/ MarkBranch(c) \/ Settle(c)
    \/ Lookup(c) \/ Post(c) \/ CompletePr(c) \/ MarkPr(c) \/ MarkTaskUnknown(c)
    \/ BindTerminal(c) \/ CompleteTask(c)
    \/ ClaimEffect(c) \/ ApplyEffect(c) \/ RecordReceipt(c) \/ RecordFails(c)
    \/ UndoEffect(c) \/ FinishRollback(c)

OutNext ==
    \/ \E c \in Operator : Output(c) \/ ClaimRollback(c) \/ CallStep(c) \/ CallDies(c)
    \/ LeaseExpires

OutSpec == OutInit /\ [][OutNext]_ovars

\* A call goes on, time passes, and output that was begun is asked for again.
OutFairness ==
    /\ \A c \in Operator : WF_ovars(CallStep(c))
    /\ WF_ovars(LeaseExpires)
    /\ SF_ovars(operation.state # "none" /\ \E c \in Operator : Output(c))

-----------------------------------------------------------------------------
(* Properties. *)

PhaseRecord ==
    [status : {"pending", "in_progress", "completed", "outcome_unknown", "failed_known"}, at : Nat]

Operation ==
    [state : {"none", "active", "outcome_unknown", "failed", "completed"},
     attempt : 0 .. MaxAttempts, version : Nat, expected : Nat,
     branch : PhaseRecord, pr : PhaseRecord, terminal : Nat]

Held ==
    [task : Nat, op : Nat, pr : {"none", "create", "reconcile"},
     out : {"none", "output_pending", "pushed", "outcome_unknown", "failed",
            "blocked", "created", "failed_known"}]

\* The rows, GitHub, the folder and the calls are what the code stores and
\* compares; an operation is attempted MaxAttempts times at most.
OutTypeOK ==
    /\ intent \in OutputIntents
    /\ product \in [status : Open \cup {"completed", "failed"}, version : Nat]
    /\ operation \in Operation
    /\ leased \in BOOLEAN
    /\ delivery \in [state : {"none", "effect_started", "completed"},
                     rollback : {"none", "effect_started", "completed", "outcome_unknown"}]
    /\ github \in [branch : BOOLEAN, pr : BOOLEAN]
    /\ source \in [content : Contents, applies : Nat, undos : Nat]
    /\ evidence \subseteq Nat
    /\ call \in [Operator -> CallSteps]
    /\ held \in [Operator -> Held]
    /\ deaths \in 0 .. MaxDeaths

\* Calls that may still end the phase in progress.
Holders ==
    {c \in Operator : /\ call[c] \in {"push", "mark", "settle", "lookup", "post", "finish"}
                      /\ operation[Phase].status = "in_progress" /\ held[c].op = operation.version}

\* A phase that was taken over after its lease cannot be ended by the call that
\* lost it: its late answer meets another operation version.
OneHolder == \A c, d \in Holders : c = d

\* What the operation records has happened on GitHub.
RecordedHappened ==
    /\ operation.branch.status = "completed" => github.branch
    /\ operation.pr.status = "completed" => github.pr

\* A completed task has its one terminal evidence and its output: the pull
\* request of an operation that was bound to the version before, or the
\* receipt of the one application of the changes.
CompletedIsProved ==
    /\ evidence = IF product.status = "completed" THEN {product.version} ELSE {}
    /\ product.status = "completed" =>
          CASE intent = "draft_pr" -> github.pr /\ operation.terminal + 1 = product.version
            [] intent = "apply_local_changes" ->
                  /\ delivery.state = "completed"
                  /\ delivery.rollback = "none" => source.content = "applied"
            [] OTHER -> delivery.state = "completed"

\* The operator's folder is written by one application and one rollback at
\* most, whatever is retried and whoever dies.
AppliedOnce == source.applies <= 1 /\ source.undos <= 1

\* A task that is completed or failed stays as it is.
OutcomeIsFinal ==
    [][product.status \notin Open => product' = product /\ evidence' = evidence]_ovars

\* What repeated calls cannot bring to an end: an unknown outcome, a last
\* attempt that nobody finished, a pull request that was recorded and not bound
\* to the task's version, a task that is two versions past its operation.
NeedsReconciliation ==
    \/ product.status = "outcome_unknown"
    \/ operation.attempt = MaxAttempts /\ operation[Phase].status = "in_progress"
    \/ operation.state = "completed" /\ operation.terminal # product.version
    \/ product.version > operation.expected + 1

\* A Draft PR that was begun, and is asked for again and again, completes or
\* fails the task or stays in one of those states for good.
OutputEnds ==
    (operation.state # "none") ~> [](product.status \notin Open \/ NeedsReconciliation)

\* What retried and expired calls owe to an output: one holder, records of what happened,
\* completion only with proof, and no change applied twice.
OutputIsSound ==
    /\ OutTypeOK /\ OneHolder /\ RecordedHappened
    /\ CompletedIsProved /\ AppliedOnce
=============================================================================
