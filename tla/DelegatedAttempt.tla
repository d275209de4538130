-------------------------- MODULE DelegatedAttempt --------------------------
(***************************************************************************)
(* The one attempt of a delegation (storage/.../managed_acceptance).       *)
(* One row holds the delegation, its proposal, manifest approval, one-use  *)
(* spend, the attempt lease, the journal of provider requests and the      *)
(* terminal receipt.  Scheduler workers execute the provider stages of the *)
(* product task, or a caller that holds the attempt executes one directly  *)
(* while the task is still bound to its workspace only: a request is       *)
(* claimed in the journal, sent, and reconciled in three steps, of which   *)
(* only the first and the last are transactions.                           *)
(* Meanwhile leases are given away, workers die, the delegation expires or *)
(* is revoked, the task is killed, and any number of calls try to close    *)
(* the attempt: they read the row, clean the workspace up, and then write  *)
(* the receipt.                                                            *)
(***************************************************************************)
EXTENDS Integers

LOCAL INSTANCE Functions

CONSTANTS
    Stages,         \* number of provider stages of the route
    Writer,         \* the implementer's stage, which writes to the workspace
    Closer,         \* concurrent calls that close the attempt
    Reviewer,       \* principals whose role may approve manifests and spend
    Executor,       \* principals whose role may run an attempt
    Confirmer,      \* principals whose role may confirm an artifact
    Owner,          \* the reviewer that persisted the delegation
    Nobody,         \* no principal
    Ceiling,        \* cost ceiling, in units; a request reserves one unit
    MaxLeases,      \* bound: leases of a stage
    MaxStops,       \* bound: closing calls that die or fail to clean up
    Handover        \* bound: the holder of an attempt that executed a stage directly
                    \* may still activate the task

ASSUME AttemptAssumption ==
    /\ Stages \in Nat \ {0} /\ Writer \in 1..Stages
    /\ Owner \in Reviewer /\ Nobody \notin Reviewer \cup Executor \cup Confirmer
    /\ Ceiling \in Nat /\ MaxLeases \in Nat /\ MaxStops \in Nat
    /\ Handover \in BOOLEAN

VARIABLES
    grant,          \* the delegation row without journal and terminal receipt
    lapsed,         \* expires_at has passed
    goal,           \* status of the product task
    node,           \* workflow node of each stage: status and attempt_count
    journal,        \* provider_request_journal_json, by stage
    sent,           \* external: requests of a stage the provider received
    exec,           \* what became of each lease: place, and the provider's answer
    wrote,          \* workspace actions written
    closer,         \* each closing call: place, kind, class and cost it has read
    seal,           \* terminal class of terminal_receipt_json
    stops           \* closing calls that died or failed

avars == <<grant, lapsed, goal, node, journal, sent, exec, wrote, closer, seal, stops>>

Stage == 1..Stages

\* Executions of a stage, by the lease they began with; any worker may have one.
\* The direct execution of a stage, without run and node, has lease 0.
Execution == Stage \X (0..MaxLeases)

\* Task statuses close_delegated_failure_if_bound acts on.
Failures == {"failed", "killed", "outcome_unknown"}

NoEntry == [status |-> "none", lease |-> 0, units |-> 0]
Gone == [at |-> "gone", answer |-> "none", used |-> 0]
NoClose == [at |-> "idle", kind |-> "none", class |-> "none", over |-> FALSE]

\* A delegation that has been persisted and bound to its product task.
AttemptInit ==
    /\ grant = [status |-> "active", proposed |-> FALSE, approved |-> FALSE, spend |-> "none",
                attempt |-> "none", approver |-> Owner, activator |-> Nobody, confirmer |-> Nobody]
    /\ lapsed = FALSE /\ goal = "workspace_bound"
    /\ node = [n \in Stage |-> [status |-> "pending", lease |-> 0]]
    /\ journal = [n \in Stage |-> NoEntry]
    /\ sent = [n \in Stage |-> 0]
    /\ exec = [x \in Execution |-> Gone]
    /\ wrote = 0
    /\ closer = [c \in Closer |-> NoClose]
    /\ seal = "none" /\ stops = 0

-----------------------------------------------------------------------------
(* Separated authorities on the row. *)

Active == grant.status = "active" /\ ~lapsed

Grants == UNCHANGED <<lapsed, goal, node, journal, sent, exec, wrote, closer, seal, stops>>

\* The reviewer's principal was issued again; only an untouched row follows.
Rebind(p) ==
    /\ Active /\ ~grant.proposed
    /\ grant.approver \in {p, Owner}
    /\ grant' = [grant EXCEPT !.approver = p]
    /\ Grants

Propose ==
    /\ grant.status = "active" /\ ~grant.proposed
    /\ grant' = [grant EXCEPT !.proposed = TRUE]
    /\ Grants

Approve(p) ==
    /\ Active /\ grant.proposed /\ ~grant.approved
    /\ grant.approver = p
    /\ grant' = [grant EXCEPT !.approved = TRUE]
    /\ Grants

IssueSpend(p) ==
    /\ Active /\ grant.approved /\ grant.spend = "none"
    /\ grant.approver = p
    /\ grant' = [grant EXCEPT !.spend = "active"]
    /\ Grants

AdmitAttempt(p) ==
    /\ Active /\ grant.spend = "active" /\ grant.attempt = "none"
    /\ grant.approver # p
    /\ grant' = [grant EXCEPT !.spend = "consumed", !.attempt = "admitted", !.activator = p]
    /\ Grants

Units == SumFunction([n \in Stage |-> journal[n].units])

\* The nodes completed and every request succeeded within what was reserved for it.
Evidenced ==
    /\ goal = "awaiting_approval"
    /\ \A n \in Stage : journal[n].status = "succeeded" /\ journal[n].units <= 1
    /\ Units <= Ceiling

\* The confirmer binds that evidence.
ConfirmArtifact(p) ==
    /\ Active /\ grant.attempt = "admitted" /\ grant.confirmer = Nobody
    /\ p \notin {grant.activator, grant.approver}
    /\ Evidenced
    /\ grant' = [grant EXCEPT !.confirmer = p]
    /\ Grants

\* The clock reaches expires_at, which matters to active rows only; no status
\* changes.
Lapse ==
    /\ ~lapsed /\ grant.status = "active"
    /\ lapsed' = TRUE
    /\ UNCHANGED <<grant, goal, node, journal, sent, exec, wrote, closer, seal, stops>>

-----------------------------------------------------------------------------
(* The product task. *)

Admitted == Active /\ grant.spend = "consumed" /\ grant.attempt = "admitted"

TaskBecomes(s) ==
    /\ goal' = s
    /\ UNCHANGED <<grant, lapsed, node, journal, sent, exec, wrote, closer, seal, stops>>

Activate ==
    /\ goal = "workspace_bound" /\ Admitted
    /\ Handover \/ \A n \in Stage : exec[<<n, 0>>] = Gone /\ journal[n] = NoEntry
    /\ TaskBecomes("running")

\* Finalizing a run that has ended; verification may fail.
Finalize ==
    /\ goal = "running"
    /\ \/ \E n \in Stage : node[n].status = "failed" /\ TaskBecomes("failed")
       \/ /\ \A n \in Stage : node[n].status = "completed"
          /\ \E s \in {"awaiting_approval", "failed"} : TaskBecomes(s)

\* The task is killed: it follows its run, which exists from just before the
\* activation on; the table of transitions allows it from these statuses.
KillTask ==
    /\ goal \in {"workspace_bound", "running", "awaiting_approval"}
    /\ TaskBecomes("killed")

\* Output needs the confirmation: plain approval is refused for a delegated task.
Deliver ==
    \/ /\ goal = "awaiting_approval" /\ grant.confirmer # Nobody
       /\ \E s \in {"completed", "failed", "outcome_unknown"} : TaskBecomes(s)
    \/ goal = "outcome_unknown" /\ \E s \in {"completed", "failed"} : TaskBecomes(s)

-----------------------------------------------------------------------------
(* Executing a stage. *)

Work == UNCHANGED <<grant, lapsed, goal, wrote, closer, seal, stops>>

GoOn(x, step) == exec' = [exec EXCEPT ![x] = [Gone EXCEPT !.at = step]]

\* The scheduler leases the next stage of the route.
LeaseStage(n) ==
    /\ goal = "running"
    /\ node[n].status = "pending" /\ node[n].lease < MaxLeases
    /\ n > 1 => node[n - 1].status = "completed"
    /\ node' = [node EXCEPT ![n] = [status |-> "running", lease |-> @.lease + 1]]
    /\ GoOn(<<n, node[n].lease + 1>>, "claim")
    /\ UNCHANGED <<journal, sent>> /\ Work

\* The lease expires and is recovered, whatever its holder does.
RecoverLease(n) ==
    /\ node[n].status = "running" /\ node[n].lease < MaxLeases
    /\ node' = [node EXCEPT ![n].status = "pending"]
    /\ UNCHANGED <<journal, sent, exec>> /\ Work

\* The caller that was given the attempt executes a stage, in one round.
DirectStage(n) ==
    /\ goal = "workspace_bound" /\ grant.attempt = "admitted"
    /\ exec[<<n, 0>>] = Gone /\ journal[n] = NoEntry
    /\ GoOn(<<n, 0>>, "claim")
    /\ UNCHANGED <<node, journal, sent>> /\ Work

\* The task is executable: its node leased, by whomever, or its workspace bound and
\* no node leased yet.
Executable(n) ==
    \/ goal = "workspace_bound"
    \/ goal = "running" /\ node[n].status = "running"

Claiming(x) ==
    /\ exec[x].at = "claim"
    /\ GoOn(x, "send")
    /\ journal' = [journal EXCEPT ![x[1]] = [status |-> "sending", lease |-> node[x[1]].lease, units |-> 1]]
    /\ UNCHANGED <<node, sent>> /\ Work

Unclaimed(n) == journal[n].status = "none"

\* Mutant: the claim relies on the attempt alone, not on task and node.
MayClaimForDeadTask(n) == Admitted /\ Unclaimed(n) /\ Units < Ceiling

\* Authority, the node's current lease, one request per stage, and the
\* reservation on top of what earlier requests hold.
MayClaim(n) == Admitted /\ Executable(n) /\ Unclaimed(n) /\ Units < Ceiling

ClaimRequest(x) == MayClaim(x[1]) /\ Claiming(x)

ClaimRefused(x) ==
    /\ exec[x].at = "claim"
    /\ ~MayClaim(x[1])
    /\ GoOn(x, "failed")
    /\ UNCHANGED <<node, journal, sent>> /\ Work

\* external: the provider; its usage may exceed the estimate by one unit.
Send(x) ==
    /\ exec[x].at = "send"
    /\ \E a \in {"response", "pre_send", "known", "unknown"} : \E u \in IF a = "response" THEN 1..2 ELSE {0} :
          /\ exec' = [exec EXCEPT ![x] = [at |-> "answer", answer |-> a, used |-> u]]
          /\ sent' = [sent EXCEPT ![x[1]] = IF a = "pre_send" THEN @ ELSE @ + 1]
    /\ UNCHANGED <<node, journal>> /\ Work

\* What the answer makes of the claim, and of its reservation.
Reconciled(e, a, u) ==
    CASE a = "response" -> [e EXCEPT !.status = "succeeded", !.units = u]
      [] a = "pre_send" -> [e EXCEPT !.status = "failed_before_send", !.units = 0]
      [] a = "known"    -> [e EXCEPT !.status = "failed_known_outcome", !.units = 0]
      [] a = "unknown"  -> [e EXCEPT !.status = "outcome_unknown"]

\* A failure before sending may be tried again, which the journal then refuses.
Reconcile(x) ==
    /\ exec[x].at = "answer"
    /\ LET n == x[1]
           a == exec[x].answer IN
       IF grant.attempt = "admitted" /\ journal[n].status = "sending"
       THEN /\ journal' = [journal EXCEPT ![n] = Reconciled(@, a, exec[x].used)]
            /\ \E step \in CASE a = "response" -> {IF n = Writer THEN "apply" ELSE "done"}
                             [] a = "pre_send" -> {"claim", "failed"}
                             [] OTHER -> {"failed"} : GoOn(x, step)
       ELSE GoOn(x, "failed") /\ UNCHANGED journal
    /\ UNCHANGED <<node, sent>> /\ Work

\* The answer to the claim is written under the lease the claim was made under.
Applicable(n) ==
    Executable(n) /\ journal[n].status = "succeeded" /\ journal[n].lease = node[n].lease

Writing(x) ==
    /\ exec[x].at = "apply"
    /\ wrote' = wrote + 1
    /\ GoOn(x, "done")
    /\ UNCHANGED <<grant, lapsed, goal, node, journal, sent, closer, seal, stops>>

ApplyAction(x) == Admitted /\ Applicable(x[1]) /\ Writing(x)

\* Refused, or the model's action is malformed or out of bounds.
ApplyRefused(x) ==
    /\ exec[x].at = "apply"
    /\ GoOn(x, "failed")
    /\ UNCHANGED <<node, journal, sent>> /\ Work

\* Phase 3 of the tick: fenced by the lease; a failure may be retried.
SettleStage(x) ==
    /\ exec[x].at \in {"done", "failed"}
    /\ LET n == x[1] IN
       IF node[n].status = "running" /\ node[n].lease = x[2]
       THEN \E s \in IF exec[x].at = "done" THEN {"completed"} ELSE {"pending", "failed"} :
               /\ s = "pending" => node[n].lease < MaxLeases
               /\ node' = [node EXCEPT ![n].status = s]
       ELSE UNCHANGED node
    /\ exec' = [exec EXCEPT ![x] = Gone]
    /\ UNCHANGED <<journal, sent>> /\ Work

WorkerDies(x) ==
    /\ exec[x].at # "gone" /\ node[x[1]].lease < MaxLeases
    /\ exec' = [exec EXCEPT ![x] = Gone]
    /\ UNCHANGED <<node, journal, sent>> /\ Work

-----------------------------------------------------------------------------
(* Closing the attempt. *)

Closing == UNCHANGED <<lapsed, goal, node, journal, sent, exec, wrote>>

Begin(c, kind, class) ==
    /\ closer[c].at = "idle"
    /\ closer' = [closer EXCEPT ![c] = [at |-> "cleaning", kind |-> kind, class |-> class, over |-> Units > Ceiling]]
    /\ UNCHANGED <<seal, stops>> /\ Closing

\* The task's error_detail, which the code asks for as well, is not a field of it.
FailureClass ==
    IF goal = "outcome_unknown" \/ \E n \in Stage : journal[n].status \in {"sending", "outcome_unknown"}
    THEN "outcome_unknown"
    ELSE IF goal = "killed" THEN "cancelled" ELSE "failed"

\* Mutant: a row that was revoked is left to the revocation.
CloseActiveFailure(c) ==
    /\ goal \in Failures /\ grant.status = "active" /\ grant.attempt = "admitted"
    /\ Begin(c, "failure", FailureClass) /\ UNCHANGED grant

CloseFailure(c) ==
    /\ goal \in Failures /\ grant.status \in {"active", "revoked"} /\ grant.attempt = "admitted"
    /\ Begin(c, "failure", FailureClass) /\ UNCHANGED grant

\* The output principal closes a completed task.
CloseSuccess(c) ==
    /\ goal = "completed" /\ grant.confirmer # Nobody /\ grant.attempt # "none"
    /\ seal = "none"
    /\ Begin(c, "success", "succeeded") /\ UNCHANGED grant

\* Revocation commits before it looks for an attempt to close, and may be repeated.
Revoke(c) ==
    /\ closer[c].at = "idle"
    /\ grant.status \in {"active", "revoked"} /\ grant.attempt # "closed"
    /\ grant' = [grant EXCEPT !.status = "revoked", !.spend = "revoked"]
    /\ closer' = [closer EXCEPT ![c] = [NoClose EXCEPT !.at = "revoked"]]
    /\ UNCHANGED <<seal, stops>> /\ Closing

CloseRevoked(c) ==
    /\ closer[c].at = "revoked"
    /\ closer' = [closer EXCEPT ![c] =
           IF grant.status = "revoked" /\ grant.attempt = "admitted"
           THEN [at |-> "cleaning", kind |-> "revoked", class |-> "revoked", over |-> Units > Ceiling]
           ELSE NoClose]
    /\ UNCHANGED <<grant, seal, stops>> /\ Closing

\* The workspace has been removed; the receipt is written in one transaction.
Sealing(c, ok, status) ==
    /\ closer[c].at = "cleaning"
    /\ IF ok
       THEN /\ seal' = closer[c].class
            /\ grant' = [grant EXCEPT !.status = status, !.spend = status, !.attempt = "closed"]
       ELSE UNCHANGED <<grant, seal>>
    /\ closer' = [closer EXCEPT ![c] = NoClose]
    /\ UNCHANGED stops /\ Closing

\* A receipt is written once, for a cost below the ceiling.
CompleteAttempt(c) ==
    /\ closer[c].kind \in {"failure", "success"}
    /\ Sealing(c, seal = "none" /\ ~closer[c].over,
               IF grant.status = "revoked" THEN "revoked" ELSE "expired")

\* Mutant: the update is not conditional on the attempt.
SealRevokedBlind(c) ==
    /\ closer[c].kind = "revoked"
    /\ Sealing(c, grant.status = "revoked", "revoked")

SealRevoked(c) ==
    /\ closer[c].kind = "revoked"
    /\ Sealing(c, grant.status = "revoked" /\ grant.attempt = "admitted", "revoked")

\* The call dies, or the workspace cannot be removed.
CloserStops(c) ==
    /\ closer[c].at # "idle" /\ stops < MaxStops
    /\ closer' = [closer EXCEPT ![c] = NoClose]
    /\ stops' = stops + 1
    /\ UNCHANGED <<grant, seal>> /\ Closing

-----------------------------------------------------------------------------
CloserStep(c) == CloseRevoked(c) \/ CompleteAttempt(c) \/ SealRevoked(c)

AttemptNext ==
    \/ \E p \in Reviewer : Rebind(p) \/ Approve(p) \/ IssueSpend(p)
    \/ \E p \in Executor : AdmitAttempt(p)
    \/ \E p \in Confirmer : ConfirmArtifact(p)
    \/ Propose \/ Lapse \/ Activate \/ Finalize \/ KillTask \/ Deliver
    \/ \E n \in Stage : LeaseStage(n) \/ DirectStage(n) \/ RecoverLease(n)
    \/ \E x \in Execution :
          ClaimRequest(x) \/ ClaimRefused(x) \/ Send(x) \/ Reconcile(x) \/ ApplyAction(x) \/ ApplyRefused(x)
          \/ SettleStage(x) \/ WorkerDies(x)
    \/ \E c \in Closer : CloseFailure(c) \/ CloseSuccess(c) \/ Revoke(c) \/ CloserStep(c) \/ CloserStops(c)

AttemptSpec == AttemptInit /\ [][AttemptNext]_avars

\* Finalizing is asked for again until it succeeds, and a call goes on.
AttemptFairness ==
    /\ \A c \in Closer : WF_avars(CloserStep(c))
    /\ WF_avars(\E c \in Closer : CloseFailure(c) \/ CloseSuccess(c))

-----------------------------------------------------------------------------
(* Properties. *)

\* Every variable stays within the values the row and the calls can have.
AttemptTypeOK ==
    /\ grant \in [status : {"active", "revoked", "expired"}, proposed : BOOLEAN, approved : BOOLEAN,
                  spend : {"none", "active", "consumed", "revoked", "expired"},
                  attempt : {"none", "admitted", "closed"}, approver : Reviewer,
                  activator : Executor \cup {Nobody}, confirmer : Confirmer \cup {Nobody}]
    /\ goal \in Failures \cup {"workspace_bound", "running", "awaiting_approval", "completed"}
    /\ node \in [Stage -> [status : {"pending", "running", "completed", "failed"}, lease : 0..MaxLeases]]
    /\ \A n \in Stage : journal[n].units \in 0..2
    /\ seal \in {"none", "succeeded", "failed", "cancelled", "outcome_unknown", "revoked"}
    /\ stops \in 0..MaxStops

\* A stage's request reaches the provider at most once, through lost leases,
\* dead workers, retries of the node and late answers.
SentOnce == \A n \in Stage : sent[n] <= 1

InFlight(n) == \E x \in Execution : x[1] = n /\ exec[x].at \in {"send", "answer"}

\* A receipt that calls the attempt failed or cancelled is right that nothing is
\* left open at the provider, although the journal was read before the cleanup;
\* one that calls it succeeded has every request succeeded and confirmed.
SealIsSound ==
    /\ seal \in {"failed", "cancelled"} =>
          \A n \in Stage : journal[n].status \notin {"sending", "outcome_unknown"} /\ ~InFlight(n)
    /\ seal = "succeeded" =>
          /\ goal = "completed" /\ grant.confirmer # Nobody
          /\ \A n \in Stage : journal[n].status = "succeeded"

\* Approving the manifest, running the attempt and confirming its result are
\* three principals.
DutiesAreSeparate ==
    /\ grant.activator # Nobody => grant.activator # grant.approver
    /\ grant.confirmer # Nobody => grant.confirmer \notin {grant.activator, grant.approver}

\* Whoever closes first, the receipt and the closed attempt stay as written.
SealedForGood ==
    [][seal # "none" => seal' = seal /\ grant'.attempt = "closed" /\ grant'.status = grant.status]_avars

\* Nothing is written to the workspace once a call has begun to clean it up.
WritesBeforeCleanup ==
    [][wrote' # wrote => \A c \in Closer : closer[c].at # "cleaning"]_avars

\* An admitted attempt whose task has ended is closed, also after a revocation
\* that stopped half way, unless a request used more than the ceiling.
AttemptEnds ==
    (grant.attempt = "admitted" /\ goal \in Failures \cup {"completed"})
        ~> (grant.attempt = "closed" \/ Units > Ceiling)

\* What a stage's lease, journal and receipt owe to the delegation: one request, a
\* receipt that tells what happened, and approvals by different people.
StageIsSound == AttemptTypeOK /\ SentOnce /\ SealIsSound /\ DutiesAreSeparate

\* What is closed stays closed: the receipt is not rewritten, and the workspace is not
\* written to once its cleanup began.
AttemptIsFinal == SealedForGood /\ WritesBeforeCleanup
=============================================================================
