--------------------------- MODULE DeliveryProofs ---------------------------
(***************************************************************************)
(* Proofs of the safety properties of ProductWorkspace, for any number of  *)
(* concurrent callers and of crashes, of LocalFolder, for any number of    *)
(* files, any change and any edits of the owner, and of ProductOutput, for *)
(* any number of concurrent calls and of calls that die.                   *)
(***************************************************************************)
EXTENDS ProductWorkspace, LocalFolder, ProductOutput, TLAPS

(* What the properties of a folder rest on. *)

Contents4 == {"none", "old", "new", "edited"}

Forward == {"check", "backup", "present", "replace", "marker"}
Backward == {"undo", "restore", "undone"}

\* Types, and where the file in hand can be at each place of the code.
FolderTypes ==
    /\ change \in [File -> {"modify", "add", "delete"}]
    /\ folder \in [File -> Contents4] /\ backup \in [File -> Contents4]
    /\ cur \in 0 .. Files /\ stopped \in 0 .. Files
    /\ pos \in Forward \cup Backward \cup {"done", "unconfirmed"}
    /\ pos \in Forward \cup {"restore"} => cur > 0
    /\ pos = "done" => cur = Files
    /\ pos = "undone" => cur = 0
    /\ pos \in Forward \cup {"done"} => stopped = 0

\* Files with a copy and a marker that a rollback can rely on.
Saved(f) ==
    \/ pos \in Forward /\ f < cur
    \/ pos \in {"replace", "marker"} /\ f = cur
    \/ pos \in Backward \cup {"done"} /\ f <= cur

\* Files that are as they were: not reached yet, or put back.
Original(f) ==
    \/ pos \in Forward /\ f > cur
    \/ pos \in Forward \ {"marker"} /\ f = cur
    \/ pos \in Backward /\ f > cur /\ f # stopped

\* A file its owner has left alone is saved before it is replaced, and is as it
\* was before its turn and after its rollback.
FileInv(f) ==
    f \notin touched =>
        /\ Before(f) = "old" => folder[f] = "old" \/ backup[f] = "old"
        /\ Saved(f) /\ Before(f) = "old" => backup[f] = "old" /\ stem[f] \in present
        /\ pos = "present" /\ f = cur => backup[f] = "old"
        /\ Original(f) => folder[f] = Before(f)

\* An edit of the file in hand is known to have raced with the work on it.
EditInv ==
    pos \in {"backup", "present", "replace", "marker", "restore"} /\ folder[cur] = "edited"
        => cur \in raced

FolderInv ==
    /\ FolderTypes
    /\ \A f \in File : Before(f) = "none" => backup[f] = "none"
    /\ pos \in {"backup", "present"} => Before(cur) = "old"
    /\ \A f \in File : FileInv(f)
    /\ EditInv

-----------------------------------------------------------------------------

\* The folder is ready for its first file.
LEMMA FolderStarts == FolderInit => FolderInv
  <1> SUFFICES ASSUME FolderInit PROVE FolderInv
    OBVIOUS
  <1> USE FolderAssumption DEF File
  <1>1. FolderTypes
    BY DEF FolderInit, FolderTypes, Contents4, Forward, Backward, Before
  <1> QED
    BY <1>1 DEF FolderInit, FolderInv, FolderTypes, FileInv, Saved, Original, EditInv, Before,
                Forward, Backward

\* Every step keeps the types and the place of the file in hand.
LEMMA FolderTypeStep == FolderTypes /\ [FolderNext]_fvars => FolderTypes'
  <1> SUFFICES ASSUME FolderTypes, [FolderNext]_fvars PROVE FolderTypes'
    OBVIOUS
  <1> USE FolderAssumption DEF File, FolderTypes, Contents4, Forward, Backward
  <1>1. CASE CheckPreimage
    BY <1>1 DEF CheckPreimage, UndoEarlier
  <1>2. CASE Backup
    BY <1>2 DEF Backup
  <1>3. CASE MarkPresent
    BY <1>3 DEF MarkPresent
  <1>4. CASE Replace
    BY <1>4 DEF Replace, After
  <1>5. CASE MarkApplied
    BY <1>5 DEF MarkApplied
  <1>6. CASE StepFails
    BY <1>6 DEF StepFails, UndoEarlier
  <1>7. CASE MarkerFails
    <2>1. folder' \in [File -> Contents4]
      BY <1>7 DEF MarkerFails
    <2> QED
      BY <1>7, <2>1 DEF MarkerFails, UndoEarlier
  <1>8. CASE AskRollback
    BY <1>8 DEF AskRollback
  <1>9. CASE CheckPostimage
    BY <1>9 DEF CheckPostimage
  <1>10. CASE Restore
    BY <1>10 DEF Restore
  <1>11. CASE RestoreFails
    BY <1>11 DEF RestoreFails
  <1>12. CASE Undone
    BY <1>12 DEF Undone
  <1>13. ASSUME NEW f \in File, EditFile(f) PROVE FolderTypes'
    BY <1>13 DEF EditFile
  <1>14. CASE UNCHANGED fvars
    BY <1>14 DEF fvars
  <1> QED
    BY <1>1, <1>2, <1>3, <1>4, <1>5, <1>6, <1>7, <1>8, <1>9, <1>10, <1>11, <1>12, <1>13, <1>14
       DEF FolderNext

\* Copies are made only of files that were there, and between the look at a file
\* and the end of the work on it an edit is noticed.
LEMMA FolderWorkStep ==
    ASSUME FolderInv, [FolderNext]_fvars
    PROVE  /\ (\A f \in File : Before(f) = "none" => backup[f] = "none")'
           /\ (pos \in {"backup", "present"} => Before(cur) = "old")'
           /\ EditInv'
  <1> USE FolderAssumption DEF File, FolderInv, FolderTypes, Contents4, Forward, Backward, EditInv,
                              Before, After
  <1>1. CASE CheckPreimage
    BY <1>1 DEF CheckPreimage, UndoEarlier
  <1>2. CASE Backup
    BY <1>2 DEF Backup
  <1>3. CASE MarkPresent
    BY <1>3 DEF MarkPresent
  <1>4. CASE Replace
    BY <1>4 DEF Replace
  <1>5. CASE MarkApplied
    BY <1>5 DEF MarkApplied
  <1>6. CASE StepFails
    BY <1>6 DEF StepFails, UndoEarlier
  <1>7. CASE MarkerFails
    BY <1>7 DEF MarkerFails, UndoEarlier
  <1>8. CASE AskRollback
    BY <1>8 DEF AskRollback
  <1>9. CASE CheckPostimage
    BY <1>9 DEF CheckPostimage
  <1>10. CASE Restore
    BY <1>10 DEF Restore
  <1>11. CASE RestoreFails
    BY <1>11 DEF RestoreFails
  <1>12. CASE Undone
    BY <1>12 DEF Undone
  <1>13. ASSUME NEW g \in File, EditFile(g)
         PROVE  /\ (\A f \in File : Before(f) = "none" => backup[f] = "none")'
                /\ (pos \in {"backup", "present"} => Before(cur) = "old")'
                /\ EditInv'
    BY <1>13 DEF EditFile
  <1>14. CASE UNCHANGED fvars
    BY <1>14 DEF fvars
  <1> QED
    BY <1>1, <1>2, <1>3, <1>4, <1>5, <1>6, <1>7, <1>8, <1>9, <1>10, <1>11, <1>12, <1>13, <1>14
       DEF FolderNext

\* A step keeps what is known of a file its owner has left alone.
LEMMA FileStep ==
    ASSUME FolderInv, [FolderNext]_fvars, NEW f \in File
    PROVE  FileInv(f)'
  <1> USE FolderAssumption DEF File, FolderInv, FolderTypes, Contents4, Forward, Backward,
                              FileInv, Saved, Original, Before, After
  <1>1. CASE CheckPreimage
    BY <1>1 DEF CheckPreimage, UndoEarlier
  <1>2. CASE Backup
    BY <1>2 DEF Backup
  <1>3. CASE MarkPresent
    BY <1>3 DEF MarkPresent
  <1>4. CASE Replace
    BY <1>4 DEF Replace
  <1>5. CASE MarkApplied
    BY <1>5 DEF MarkApplied
  <1>6. CASE StepFails
    BY <1>6 DEF StepFails, UndoEarlier
  <1>7. CASE MarkerFails
    BY <1>7 DEF MarkerFails, UndoEarlier
  <1>8. CASE AskRollback
    BY <1>8 DEF AskRollback
  <1>9. CASE CheckPostimage
    BY <1>9 DEF CheckPostimage
  <1>10. CASE Restore
    BY <1>10 DEF Restore
  <1>11. CASE RestoreFails
    BY <1>11 DEF RestoreFails
  <1>12. CASE Undone
    BY <1>12 DEF Undone
  <1>13. ASSUME NEW g \in File, EditFile(g) PROVE FileInv(f)'
    BY <1>13 DEF EditFile
  <1>14. CASE UNCHANGED fvars
    BY <1>14 DEF fvars
  <1> QED
    BY <1>1, <1>2, <1>3, <1>4, <1>5, <1>6, <1>7, <1>8, <1>9, <1>10, <1>11, <1>12, <1>13, <1>14
       DEF FolderNext

\* The inductive invariant of an application and its rollback.
THEOREM FolderInvariance == FolderSpec => []FolderInv
  <1>1. FolderInv /\ [FolderNext]_fvars => FolderInv'
    <2> SUFFICES ASSUME FolderInv, [FolderNext]_fvars PROVE FolderInv'
      OBVIOUS
    <2>1. FolderTypes'
      BY FolderTypeStep DEF FolderInv
    <2>2. \A f \in File : FileInv(f)'
      BY FileStep
    <2>3. (\A f \in File : FileInv(f))'
      BY <2>2 DEF File
    <2> QED
      BY <2>1, <2>3, FolderWorkStep DEF FolderInv
  <1> QED
    BY <1>1, FolderStarts, PTL DEF FolderSpec

\* Wherever apply_local_folder_changes or its rollback stops, the old content of a
\* file its owner left alone is in the folder or in the rollback directory, and a
\* rollback that reports success has put every such file back.
THEOREM FolderSoundness == FolderSpec => []FolderIsSound
  <1>1. FolderInv => FolderIsSound
    BY FolderAssumption DEF FolderInv, FolderTypes, FileInv, Original, Backward, Forward, File, FolderIsSound,
           PreimageKept, UndoneIsRestored
  <1> QED
    BY <1>1, FolderInvariance, PTL

\* An edit is lost only when it was made to the file in hand after the code had
\* looked at it.
THEOREM FolderEditsSurvive == FolderSpec => EditsSurvive
  <1>1. FolderInv /\ [FolderNext]_fvars =>
            [\A f \in File : folder[f] = "edited" /\ folder'[f] # "edited" => f \in raced]_fvars
    <2> SUFFICES ASSUME FolderInv, FolderNext, NEW f \in File,
                        folder[f] = "edited", folder'[f] # "edited"
                 PROVE  f \in raced
      OBVIOUS
    <2> USE FolderAssumption DEF File, FolderInv, FolderTypes, Contents4, EditInv, Forward, Backward
    <2>1. CASE Replace
      BY <2>1 DEF Replace
    <2>2. CASE MarkerFails
      BY <2>2 DEF MarkerFails
    <2>3. CASE Restore
      BY <2>3 DEF Restore
    <2>4. ASSUME NEW g \in File, EditFile(g) PROVE FALSE
      BY <2>4 DEF EditFile
    <2>5. CASE UNCHANGED folder
      BY <2>5
    <2> QED
      BY <2>1, <2>2, <2>3, <2>4, <2>5
         DEF FolderNext, CheckPreimage, Backup, MarkPresent, MarkApplied, StepFails, AskRollback,
             CheckPostimage, RestoreFails, Undone
  <1> QED
    BY <1>1, FolderInvariance, PTL DEF FolderSpec, EditsSurvive

-----------------------------------------------------------------------------
(* What the properties of an output rest on. *)

Op(state, attempt, version, expected, branch, pr, terminal) ==
    [state |-> state, attempt |-> attempt, version |-> version, expected |-> expected,
     branch |-> branch, pr |-> pr, terminal |-> terminal]

\* The pull request is begun when the branch is there, and ends the operation.
OpInv ==
    /\ operation.state = "none" =>
          /\ operation.version = 0 /\ operation.attempt = 0
          /\ operation.branch.status = "pending" /\ operation.pr.status = "pending"
    /\ operation.state # "none" => operation.version > 0
    /\ operation.pr.status # "pending" => operation.branch.status = "completed"
    /\ operation.state = "completed" <=> operation.pr.status = "completed"

\* What a call has read and what it is about to write.
CallInv(c) ==
    /\ held[c].op <= operation.version
    /\ call[c] = "claim" => held[c].op = 0
    /\ call[c] = "bind" => operation.state # "none"
    /\ call[c] = "settle" => held[c].out \in {"output_pending", "outcome_unknown", "failed"}
    /\ call[c] = "mark" => held[c].out \in {"pushed", "outcome_unknown", "failed", "blocked"}
    /\ call[c] = "mark" /\ held[c].out = "pushed" => github.branch
    /\ call[c] = "finish" => held[c].out \in {"created", "outcome_unknown", "failed_known"}
    /\ call[c] = "finish" /\ held[c].out = "created" => github.pr

\* Calls that hold the application of the changes, or their rollback.
Appliers  == {c \in Operator : call[c] \in {"apply", "record"} /\ intent = "apply_local_changes"}
Restorers == {c \in Operator : call[c] \in {"rollback", "rolled_back", "not_rolled_back"}}

\* The receipts of a local effect are as far as the effect, or behind it.
EffectInv ==
    /\ \A c \in Operator : call[c] \in {"effect_claim", "apply"} => intent = "apply_local_changes"
    /\ \A c \in Appliers :
          /\ delivery.state = "effect_started"
          /\ call[c] = "apply" => source.applies = 0
          /\ call[c] = "record" => source.content = "applied"
    /\ \A c \in Restorers :
          /\ intent = "apply_local_changes"
          /\ delivery.state = "completed" /\ delivery.rollback = "effect_started"
          /\ call[c] = "rollback" => source.undos = 0
    /\ \A c, d \in Appliers : c = d
    /\ \A c, d \in Restorers : c = d
    /\ delivery.state = "none" => source.applies = 0
    /\ delivery.rollback = "none" => source.undos = 0
    /\ source.applies <= 1 /\ source.undos <= 1
    /\ (intent = "apply_local_changes" /\ delivery.state = "completed" /\ delivery.rollback = "none")
          => source.content = "applied"

HolderSteps == {"push", "mark", "settle", "lookup", "post", "finish"}

\* No two calls carry the same version of the operation.
VersionInv ==
    operation.version > 0 =>
        \A c, d \in Operator :
            /\ call[c] \in HolderSteps /\ held[c].op = operation.version
            /\ call[d] \in HolderSteps /\ held[d].op = operation.version
            => c = d

OutInv ==
    /\ OutTypeOK
    /\ OpInv
    /\ \A c \in Operator : CallInv(c)
    /\ github.pr => github.branch
    /\ RecordedHappened
    /\ VersionInv
    /\ EffectInv
    /\ CompletedIsProved

\* The first states.
LEMMA OutStarts == OutInit => OutInv
  <1> SUFFICES ASSUME OutInit PROVE OutInv
    OBVIOUS
  <1> USE OutputAssumption DEF OutInit, NoCall, NoPhase
  <1>1. OutTypeOK
    <2>1. operation \in Operation
      BY DEF Operation, PhaseRecord, MaxAttempts
    <2>2. NoCall \in Held
      BY DEF Held
    <2>3. held \in [Operator -> Held] /\ call \in [Operator -> CallSteps]
      BY <2>2 DEF CallSteps
    <2>4. /\ product \in [status : Open \cup {"completed", "failed"}, version : Nat]
          /\ delivery \in [state : {"none", "effect_started", "completed"},
                           rollback : {"none", "effect_started", "completed", "outcome_unknown"}]
      BY DEF Open
    <2>5. /\ github \in [branch : BOOLEAN, pr : BOOLEAN]
          /\ source \in [content : Contents, applies : Nat, undos : Nat]
      BY DEF Contents
    <2>6. intent \in OutputIntents /\ evidence \subseteq Nat /\ deaths \in 0 .. MaxDeaths
      OBVIOUS
    <2>7. leased \in BOOLEAN
      OBVIOUS
    <2> QED
      BY <2>1, <2>3, <2>4, <2>5, <2>6, <2>7, Zenon DEF OutTypeOK
  <1>2. OpInv /\ VersionInv /\ RecordedHappened /\ CompletedIsProved
    BY DEF OpInv, VersionInv, RecordedHappened, CompletedIsProved
  <1>3. EffectInv
    BY DEF EffectInv, Appliers, Restorers
  <1>4. \A c \in Operator : CallInv(c)
    BY DEF CallInv
  <1> QED
    BY <1>1, <1>2, <1>3, <1>4 DEF OutInv

-----------------------------------------------------------------------------
(* The writers of the operation, field by field. *)

\* A record of such fields is an operation.
LEMMA OpType ==
    ASSUME NEW st \in {"none", "active", "outcome_unknown", "failed", "completed"},
           NEW a \in 0 .. MaxAttempts, NEW v \in Nat, NEW e \in Nat, NEW t \in Nat,
           NEW b \in PhaseRecord, NEW p \in PhaseRecord
    PROVE  Op(st, a, v, e, b, p, t) \in Operation
  BY DEF Op, Operation

\* claim_product_output_phase for the branch, by the call that makes the operation.
LEMMA OpenFields ==
    ASSUME operation \in Operation, NEW v, NEW q,
           q = [Claimed("branch", v) EXCEPT !.expected = v]
    PROVE  q = Op("active", operation.attempt + 1, operation.version + 1, v,
                  [status |-> "in_progress", at |-> v], operation.pr, operation.terminal)
  BY Zenon DEF Claimed, Op, Operation

\* The same for the branch of an operation that exists.
LEMMA ClaimBranchFields ==
    ASSUME operation \in Operation, NEW v, NEW q, q = Claimed("branch", v)
    PROVE  q = Op("active", operation.attempt + 1, operation.version + 1, operation.expected,
                  [status |-> "in_progress", at |-> v], operation.pr, operation.terminal)
  BY Zenon DEF Claimed, Op, Operation

\* The same for its pull request.
LEMMA ClaimPrFields ==
    ASSUME operation \in Operation, NEW v, NEW q, q = Claimed("pr", v)
    PROVE  q = Op("active", operation.attempt + 1, operation.version + 1, operation.expected,
                  operation.branch, [status |-> "in_progress", at |-> v], operation.terminal)
  BY Zenon DEF Claimed, Op, Operation

\* The end of the push.
LEMMA EndBranchFields ==
    ASSUME operation \in Operation, NEW st, NEW state, NEW q,
           q = [operation EXCEPT !["branch"].status = st, !.state = state, !.version = @ + 1]
    PROVE  q = Op(state, operation.attempt, operation.version + 1, operation.expected,
                  [status |-> st, at |-> operation.branch.at], operation.pr, operation.terminal)
  BY Zenon DEF Op, Operation, PhaseRecord

\* The end of the pull request.
LEMMA EndPrFields ==
    ASSUME operation \in Operation, NEW st, NEW state, NEW q,
           q = [operation EXCEPT !["pr"].status = st, !.state = state, !.version = @ + 1]
    PROVE  q = Op(state, operation.attempt, operation.version + 1, operation.expected,
                  operation.branch, [status |-> st, at |-> operation.pr.at], operation.terminal)
  BY Zenon DEF Op, Operation, PhaseRecord

\* bind_product_output_terminal_task_version.
LEMMA BindFields ==
    ASSUME operation \in Operation, NEW t, NEW q,
           q = [operation EXCEPT !.terminal = t, !.version = @ + 1]
    PROVE  q = Op(operation.state, operation.attempt, operation.version + 1, operation.expected,
                  operation.branch, operation.pr, t)
  BY Zenon DEF Op, Operation

-----------------------------------------------------------------------------
(* What each writer of the operation does to it. *)

\* Some caller writes version + 1; the operation is as OpInv says.
Advances ==
    /\ operation' \in Operation
    /\ operation'.version = operation.version + 1

\* The first claim.
LEMMA OpenEffect ==
    ASSUME OutTypeOK, OpInv, NEW c \in Operator, OpenOperation(c)
    PROVE  /\ Advances
           /\ operation'.version = 1 /\ operation'.state = "active"
           /\ operation'.branch.status = "in_progress" /\ operation'.pr.status = "pending"
           /\ operation'.terminal = operation.terminal
  <1>1. held[c].task \in Nat /\ operation \in Operation
    BY DEF OutTypeOK, Held
  <1>2. operation' = Op("active", operation.attempt + 1, operation.version + 1, held[c].task,
                        [status |-> "in_progress", at |-> held[c].task], operation.pr, operation.terminal)
    BY <1>1, OpenFields DEF OpenOperation
  <1>3. operation.attempt = 0 /\ operation.version = 0 /\ operation.pr.status = "pending"
    BY DEF OpInv, OpenOperation
  <1>4. /\ operation.pr \in PhaseRecord /\ operation.terminal \in Nat
        /\ [status |-> "in_progress", at |-> held[c].task] \in PhaseRecord
    BY <1>1 DEF Operation, PhaseRecord
  <1>5. operation' \in Operation
    BY <1>1, <1>2, <1>3, <1>4, OpType DEF MaxAttempts
  <1> QED
    BY <1>2, <1>3, <1>5 DEF Op, Advances

\* A later claim, of the phase that is next.
LEMMA ClaimEffectOp ==
    ASSUME OutTypeOK, OpInv, NEW c \in Operator, ClaimPhase(c)
    PROVE  /\ Advances
           /\ operation'.state = "active" /\ operation.state \notin {"none", "completed"}
           /\ operation'.terminal = operation.terminal
           /\ \/ /\ operation.branch.status # "completed" /\ operation'.branch.status = "in_progress"
                 /\ operation'.pr = operation.pr
              \/ /\ operation.branch.status = "completed" /\ operation'.branch = operation.branch
                 /\ operation'.pr.status = "in_progress"
  <1>1. /\ held[c].task \in Nat /\ operation \in Operation
        /\ operation.attempt \in 0 .. (MaxAttempts - 1)
        /\ operation.state \notin {"none", "completed"}
    BY DEF OutTypeOK, Held, ClaimPhase, Claimable, MaxAttempts, Operation
  <1>2. /\ operation.branch \in PhaseRecord /\ operation.pr \in PhaseRecord
        /\ operation.terminal \in Nat /\ operation.version \in Nat /\ operation.expected \in Nat
        /\ [status |-> "in_progress", at |-> held[c].task] \in PhaseRecord
    BY <1>1 DEF Operation, PhaseRecord
  <1>3. CASE operation.branch.status = "completed"
    <2>1. operation' = Claimed("pr", held[c].task)
      BY <1>3 DEF ClaimPhase, Phase
    <2>2. operation' = Op("active", operation.attempt + 1, operation.version + 1, operation.expected,
                          operation.branch, [status |-> "in_progress", at |-> held[c].task],
                          operation.terminal)
      BY <1>1, <2>1, ClaimPrFields
    <2>3. operation' \in Operation
      <3>1. operation.attempt + 1 \in 0 .. MaxAttempts /\ operation.version + 1 \in Nat
        BY <1>1, <1>2 DEF MaxAttempts
      <3> QED
        BY <1>2, <2>2, <3>1, OpType
    <2> QED
      BY <1>1, <1>3, <2>2, <2>3 DEF Op, Advances
  <1>4. CASE operation.branch.status # "completed"
    <2>1. operation' = Claimed("branch", held[c].task)
      BY <1>4 DEF ClaimPhase, Phase
    <2>2. operation' = Op("active", operation.attempt + 1, operation.version + 1, operation.expected,
                          [status |-> "in_progress", at |-> held[c].task], operation.pr,
                          operation.terminal)
      BY <1>1, <2>1, ClaimBranchFields
    <2>3. operation' \in Operation
      <3>1. operation.attempt + 1 \in 0 .. MaxAttempts /\ operation.version + 1 \in Nat
        BY <1>1, <1>2 DEF MaxAttempts
      <3> QED
        BY <1>2, <2>2, <3>1, OpType
    <2> QED
      BY <1>1, <1>4, <2>2, <2>3 DEF Op, Advances
  <1> QED
    BY <1>3, <1>4

\* The end of the push, if the claim is still the caller's.
LEMMA MarkBranchEffect ==
    ASSUME OutTypeOK, OpInv, NEW c \in Operator, MarkBranch(c), CallInv(c)
    PROVE  \/ operation' = operation /\ call'[c] = "idle"
           \/ /\ Advances
              /\ operation.branch.status = "in_progress" /\ operation'.pr = operation.pr
              /\ operation'.terminal = operation.terminal
              /\ operation'.state \notin {"none", "completed"}
              /\ operation'.branch.status # "pending"
              /\ operation'.branch.status = "completed" => held[c].out = "pushed"
  <1> DEFINE out == held[c].out
  <1>1. operation \in Operation /\ out \in {"pushed", "outcome_unknown", "failed", "blocked"}
    BY DEF OutTypeOK, MarkBranch, CallInv
  <1>2. /\ operation.branch \in PhaseRecord /\ operation.pr \in PhaseRecord
        /\ operation.terminal \in Nat /\ operation.version \in Nat /\ operation.expected \in Nat
        /\ operation.attempt \in 0 .. MaxAttempts
        /\ operation.state \in {"none", "active", "outcome_unknown", "failed", "completed"}
    BY <1>1 DEF Operation
  <1>3. CASE ~ Current(c, "branch", out = "pushed" /\ product.status = "output_pending")
    BY <1>3 DEF MarkBranch, Return, Move, OutTypeOK
  <1>4. CASE Current(c, "branch", out = "pushed" /\ product.status = "output_pending")
    <2>1. operation.branch.status = "in_progress" /\ operation.state \notin {"none", "completed"}
      BY <1>4 DEF Current, OpInv
    <2>2. PICK st \in {"completed", "outcome_unknown", "failed_known"},
               state \in {"active", "outcome_unknown", "failed"} :
            /\ operation' = [operation EXCEPT !["branch"].status = st, !.state = state, !.version = @ + 1]
            /\ st = "completed" => out = "pushed"
      <3>1. CASE out = "pushed"
        BY <1>2, <1>4, <2>1, <3>1 DEF MarkBranch, End
      <3>2. CASE out = "outcome_unknown"
        BY <1>4, <3>2 DEF MarkBranch, End
      <3>3. CASE out \in {"failed", "blocked"}
        BY <1>4, <3>3 DEF MarkBranch, End
      <3> QED
        BY <1>1, <3>1, <3>2, <3>3
    <2>3. operation' = Op(state, operation.attempt, operation.version + 1, operation.expected,
                          [status |-> st, at |-> operation.branch.at], operation.pr, operation.terminal)
      BY <1>1, <2>2, EndBranchFields
    <2>4. [status |-> st, at |-> operation.branch.at] \in PhaseRecord
      BY <1>2 DEF PhaseRecord
    <2>5. operation' \in Operation
      BY <1>2, <2>3, <2>4, OpType
    <2>6. /\ operation'.state = state /\ operation'.branch.status = st
          /\ operation'.version = operation.version + 1
          /\ operation'.pr = operation.pr /\ operation'.terminal = operation.terminal
      BY <2>3 DEF Op
    <2> QED
      BY <2>1, <2>2, <2>5, <2>6 DEF Advances
  <1> QED
    BY <1>3, <1>4

\* The end of the pull request: completed by a call that saw it, or not.
LEMMA EndPrEffect ==
    ASSUME OutTypeOK, OpInv, NEW c \in Operator, CompletePr(c) \/ MarkPr(c), CallInv(c)
    PROVE  \/ operation' = operation
           \/ /\ Advances
              /\ operation.pr.status = "in_progress" /\ operation'.branch = operation.branch
              /\ operation'.terminal = operation.terminal
              /\ operation'.pr.status # "pending" /\ operation'.state # "none"
              /\ operation'.state = "completed" <=> operation'.pr.status = "completed"
              /\ operation'.pr.status = "completed" => github.pr
  <1>1. operation \in Operation /\ call[c] = "finish"
        /\ held[c].out \in {"created", "outcome_unknown", "failed_known"}
    BY DEF OutTypeOK, CompletePr, MarkPr, CallInv
  <1>2. /\ operation.branch \in PhaseRecord /\ operation.pr \in PhaseRecord
        /\ operation.terminal \in Nat /\ operation.version \in Nat /\ operation.expected \in Nat
        /\ operation.attempt \in 0 .. MaxAttempts
    BY <1>1 DEF Operation
  <1>3. ASSUME operation' # operation
        PROVE  \E st \in {"completed", "outcome_unknown", "failed_known"},
                  state \in {"completed", "active", "outcome_unknown"} :
                 /\ operation' = [operation EXCEPT !["pr"].status = st, !.state = state, !.version = @ + 1]
                 /\ operation.pr.status = "in_progress"
                 /\ state = "completed" <=> st = "completed"
                 /\ st = "completed" => held[c].out = "created"
    <2>1. CASE CompletePr(c)
      BY <1>3, <2>1 DEF CompletePr, End, Current
    <2>2. CASE MarkPr(c) /\ held[c].out = "outcome_unknown"
      BY <1>3, <2>2 DEF MarkPr, End, Current
    <2>3. CASE MarkPr(c) /\ held[c].out = "failed_known"
      BY <1>3, <2>3 DEF MarkPr, End, Current
    <2> QED
      BY <1>1, <2>1, <2>2, <2>3 DEF MarkPr
  <1>4. CASE operation' # operation
    <2>1. PICK st \in {"completed", "outcome_unknown", "failed_known"},
               state \in {"completed", "active", "outcome_unknown"} :
                 /\ operation' = [operation EXCEPT !["pr"].status = st, !.state = state, !.version = @ + 1]
                 /\ operation.pr.status = "in_progress"
                 /\ state = "completed" <=> st = "completed"
                 /\ st = "completed" => held[c].out = "created"
      BY <1>3, <1>4
    <2>2. operation' = Op(state, operation.attempt, operation.version + 1, operation.expected,
                          operation.branch, [status |-> st, at |-> operation.pr.at], operation.terminal)
      BY <1>1, <2>1, EndPrFields
    <2>3. [status |-> st, at |-> operation.pr.at] \in PhaseRecord
      BY <1>2 DEF PhaseRecord
    <2>4. operation' \in Operation
      BY <1>2, <2>2, <2>3, OpType
    <2>5. /\ operation'.state = state /\ operation'.pr.status = st
          /\ operation'.version = operation.version + 1
          /\ operation'.branch = operation.branch /\ operation'.terminal = operation.terminal
      BY <2>2 DEF Op
    <2> QED
      BY <1>1, <2>1, <2>4, <2>5 DEF Advances, CallInv
  <1> QED
    BY <1>4

\* Binding the terminal version.
LEMMA BindEffect ==
    ASSUME OutTypeOK, NEW c \in Operator, BindTerminal(c)
    PROVE  \/ operation' = operation
           \/ /\ Advances
              /\ operation'.state = operation.state
              /\ operation'.branch = operation.branch /\ operation'.pr = operation.pr
              /\ Authority(c)
  <1>1. operation \in Operation /\ held[c].task \in Nat
    BY DEF OutTypeOK, Held
  <1>2. /\ operation.branch \in PhaseRecord /\ operation.pr \in PhaseRecord
        /\ operation.version \in Nat /\ operation.expected \in Nat
        /\ operation.attempt \in 0 .. MaxAttempts
        /\ operation.state \in {"none", "active", "outcome_unknown", "failed", "completed"}
    BY <1>1 DEF Operation
  <1>3. CASE operation' # operation
    <2>1. /\ operation' = [operation EXCEPT !.terminal = held[c].task, !.version = @ + 1]
          /\ Authority(c)
      BY <1>3 DEF BindTerminal
    <2>2. operation' = Op(operation.state, operation.attempt, operation.version + 1, operation.expected,
                          operation.branch, operation.pr, held[c].task)
      BY <1>1, <2>1, BindFields
    <2>3. operation' \in Operation
      <3>1. operation.version + 1 \in Nat
        BY <1>2
      <3> QED
        BY <1>1, <1>2, <2>2, <3>1, OpType
    <2> QED
      BY <2>1, <2>2, <2>3 DEF Op, Advances
  <1> QED
    BY <1>3

-----------------------------------------------------------------------------
(* What a call notes, and its place. *)

Others(c) == \A d \in Operator : d # c => held'[d] = held[d]

\* Each way a call changes what it holds.
LEMMA HeldClaims ==
    ASSUME held \in [Operator -> Held], NEW c \in Operator, NEW x \in Nat,
           NEW y \in {"none", "create", "reconcile"}, NEW z \in {"output_pending"},
           held' = [held EXCEPT ![c].op = x, ![c].pr = y, ![c].out = z]
    PROVE  held' \in [Operator -> Held] /\ held'[c].op = x /\ held'[c].out = z /\ Others(c)
  <1>1. held' \in [Operator -> Held]
    BY DEF Held
  <1> QED
    BY <1>1 DEF Held, Others

\* What an answer leaves with the call.
LEMMA HeldOutcome ==
    ASSUME held \in [Operator -> Held], NEW c \in Operator,
           NEW z \in {"output_pending", "pushed", "outcome_unknown", "failed", "blocked", "created",
                      "failed_known"},
           held' = [held EXCEPT ![c].out = z]
    PROVE  held' \in [Operator -> Held] /\ held'[c].op = held[c].op /\ held'[c].out = z /\ Others(c)
  BY DEF Held, Others

\* The operation version it takes over.
LEMMA HeldVersion ==
    ASSUME held \in [Operator -> Held], NEW c \in Operator, NEW x \in Nat,
           held' = [held EXCEPT ![c].op = x]
    PROVE  held' \in [Operator -> Held] /\ held'[c].op = x /\ held'[c].out = held[c].out /\ Others(c)
  BY DEF Held, Others

\* The task version it goes on with.
LEMMA HeldTask ==
    ASSUME held \in [Operator -> Held], NEW c \in Operator, NEW x \in Nat,
           held' = [held EXCEPT ![c].task = x]
    PROVE  /\ held' \in [Operator -> Held] /\ held'[c].op = held[c].op
           /\ held'[c].out = held[c].out /\ Others(c)
  BY DEF Held, Others

\* A call that begins.
LEMMA HeldBegins ==
    ASSUME held \in [Operator -> Held], NEW c \in Operator, NEW x \in Nat,
           held' = [held EXCEPT ![c] = [NoCall EXCEPT !.task = x]]
    PROVE  /\ held' \in [Operator -> Held] /\ held'[c].op = 0
           /\ held'[c].out = "none" /\ Others(c)
  BY DEF Held, NoCall, Others

\* A call that returns.
LEMMA HeldReturns ==
    ASSUME held \in [Operator -> Held], call \in [Operator -> CallSteps], NEW c \in Operator, Return(c)
    PROVE  /\ held' \in [Operator -> Held] /\ held'[c].op = 0 /\ Others(c)
           /\ call' \in [Operator -> CallSteps] /\ call'[c] = "idle"
           /\ \A d \in Operator : d # c => call'[d] = call[d]
  BY DEF Held, NoCall, Others, Return, Move, CallSteps

\* What a step of one call leaves to the others.
LEMMA CallMoves ==
    ASSUME call \in [Operator -> CallSteps], NEW c \in Operator, NEW step \in CallSteps, Move(c, step)
    PROVE  /\ call' \in [Operator -> CallSteps] /\ call'[c] = step
           /\ \A d \in Operator : d # c => call'[d] = call[d]
  BY DEF Move

\* transition_product_task keeps the row well formed.
LEMMA BecomesType ==
    ASSUME OutTypeOK, NEW s \in Open \cup {"completed", "failed"}, Become(s)
    PROVE  /\ product' \in [status : Open \cup {"completed", "failed"}, version : Nat]
           /\ product'.status = s /\ product'.version = product.version + 1
  BY DEF OutTypeOK, Become

-----------------------------------------------------------------------------
(* A step of a call leaves the other calls alone, and what the caller then  *)
(* holds is true of the rows: each action in turn.                          *)

OutFrame(c) ==
    /\ call' \in [Operator -> CallSteps] /\ held' \in [Operator -> Held]
    /\ \A d \in Operator : d # c => call'[d] = call[d] /\ held'[d] = held[d]

\* A call that holds the operation's version has just taken it, or had it before.
Carries(c) ==
    (operation'.version > 0 /\ call'[c] \in HolderSteps /\ held'[c].op = operation'.version)
        => \/ operation'.version = operation.version + 1
           \/ call[c] \in HolderSteps /\ held[c].op = operation.version

OutTells(c) == OutFrame(c) /\ CallInv(c)' /\ Carries(c)

\* An error, or the end of a call: it holds nothing.
LEMMA ReturnTells ==
    ASSUME OutTypeOK, NEW c \in Operator, Return(c), operation' \in Operation
    PROVE  OutTells(c)
  <1>1. /\ OutFrame(c)
        /\ held'[c].op = 0 /\ call'[c] = "idle"
    BY HeldReturns DEF OutTypeOK, OutFrame, Others
  <1>2. operation'.version \in Nat
    BY DEF Operation
  <1> QED
    BY <1>1, <1>2 DEF OutTells, CallInv, Carries, HolderSteps

\* The caller notes an answer, or nothing, and goes on.
LEMMA AnswerTells ==
    ASSUME OutTypeOK, NEW c \in Operator, CallInv(c), NEW step \in CallSteps, Move(c, step),
           NEW z \in {"output_pending", "pushed", "outcome_unknown", "failed", "blocked", "created",
                      "failed_known"},
           held' = [held EXCEPT ![c].out = z], UNCHANGED operation,
           step \in HolderSteps => call[c] \in HolderSteps \/ held[c].op = 0,
           step \notin {"claim", "bind"},
           step = "settle" => z \in {"output_pending", "outcome_unknown", "failed"},
           step = "mark" => z \in {"pushed", "outcome_unknown", "failed", "blocked"},
           step = "mark" /\ z = "pushed" => github'.branch,
           step = "finish" => z \in {"created", "outcome_unknown", "failed_known"},
           step = "finish" /\ z = "created" => github'.pr
    PROVE  OutTells(c)
  <1>1. /\ held' \in [Operator -> Held] /\ held'[c].op = held[c].op /\ held'[c].out = z /\ Others(c)
    BY HeldOutcome DEF OutTypeOK
  <1>2. /\ call' \in [Operator -> CallSteps] /\ call'[c] = step
        /\ \A d \in Operator : d # c => call'[d] = call[d]
    BY CallMoves DEF OutTypeOK
  <1> QED
    BY <1>1, <1>2 DEF OutTells, OutFrame, CallInv, Carries, Others

\* The caller goes on with what it has.
LEMMA KeepTells ==
    ASSUME OutTypeOK, NEW c \in Operator, CallInv(c), NEW step \in CallSteps, Move(c, step),
           UNCHANGED held, operation' \in Operation, operation'.version >= operation.version,
           step \notin {"claim", "settle", "mark", "finish", "bind"},
           step \in HolderSteps => call[c] \in HolderSteps /\ UNCHANGED operation
    PROVE  OutTells(c)
  <1>1. /\ call' \in [Operator -> CallSteps] /\ call'[c] = step
        /\ \A d \in Operator : d # c => call'[d] = call[d]
    BY CallMoves DEF OutTypeOK
  <1>2. held' \in [Operator -> Held] /\ held[c].op \in Nat
    BY DEF OutTypeOK, Held
  <1>3. operation'.version \in Nat /\ operation.version \in Nat
    BY DEF Operation, OutTypeOK
  <1> QED
    BY <1>1, <1>2, <1>3 DEF OutTells, OutFrame, CallInv, Carries

\* The calls, whatever a call does.
LEMMA OutCallStep ==
    ASSUME OutTypeOK, OpInv, NEW c \in Operator, CallInv(c),
           Output(c) \/ ClaimRollback(c) \/ CallStep(c) \/ CallDies(c)
    PROVE  OutTells(c)
  <1>1. /\ operation \in Operation /\ operation.version \in Nat /\ held \in [Operator -> Held]
        /\ call \in [Operator -> CallSteps] /\ call[c] \in CallSteps
        /\ product.version \in Nat /\ held[c].op \in Nat /\ held[c].task \in Nat
        /\ github \in [branch : BOOLEAN, pr : BOOLEAN]
    BY DEF OutTypeOK, Operation, Held
  <1>2. CASE Output(c)
    <2>1. PICK step \in {"claim", "effect_claim", "record"} : Move(c, step)
      BY <1>2 DEF Output
    <2>2. /\ call' \in [Operator -> CallSteps] /\ call'[c] = step
          /\ \A d \in Operator : d # c => call'[d] = call[d]
      BY <1>1, <2>1, CallMoves DEF CallSteps
    <2>3. /\ held' \in [Operator -> Held] /\ held'[c].op = 0 /\ Others(c)
      BY <1>1, <1>2, HeldBegins DEF Output
    <2>4. operation' = operation
      BY <1>2 DEF Output
    <2> QED
      BY <1>1, <2>2, <2>3, <2>4 DEF OutTells, OutFrame, CallInv, Carries, Others, HolderSteps
  <1>3. CASE OpenOperation(c)
    <2>1. Advances /\ operation'.version = 1
      BY <1>3, OpenEffect
    <2>2. /\ call' \in [Operator -> CallSteps] /\ call'[c] = "push"
          /\ \A d \in Operator : d # c => call'[d] = call[d]
      BY <1>1, <1>3, CallMoves DEF CallSteps, OpenOperation
    <2>3. /\ held' \in [Operator -> Held] /\ held'[c].op = 1 /\ Others(c)
      BY <1>1, <1>3, HeldVersion DEF OpenOperation
    <2> QED
      BY <1>1, <2>1, <2>2, <2>3 DEF OutTells, OutFrame, CallInv, Carries, Others, Advances
  <1>4. CASE ClaimPhase(c)
    <2>1. Advances
      BY <1>4, ClaimEffectOp
    <2>2. CASE Return(c)
      BY <2>1, <2>2, ReturnTells DEF Advances
    <2>3. CASE ~ Return(c)
      <3>1. PICK y \in {"none", "create", "reconcile"} :
              /\ held' = [held EXCEPT ![c].op = operation'.version, ![c].pr = y,
                                      ![c].out = "output_pending"]
              /\ Move(c, IF y = "none" THEN "push" ELSE "settle")
        BY <1>4, <2>3 DEF ClaimPhase
      <3>2. operation'.version \in Nat
        BY <2>1 DEF Advances, Operation
      <3>3. /\ held' \in [Operator -> Held] /\ held'[c].op = operation'.version
            /\ held'[c].out = "output_pending" /\ Others(c)
        BY <1>1, <3>1, <3>2, HeldClaims
      <3>4. PICK step \in {"push", "settle"} : Move(c, step)
        BY <3>1
      <3>5. /\ call' \in [Operator -> CallSteps] /\ call'[c] = step
            /\ \A d \in Operator : d # c => call'[d] = call[d]
        BY <1>1, <3>4, CallMoves DEF CallSteps
      <3> QED
        BY <1>1, <2>1, <3>2, <3>3, <3>5 DEF OutTells, OutFrame, CallInv, Carries, Others, Advances
    <2> QED
      BY <2>2, <2>3
  <1>5. CASE ClaimBusy(c) \/ MarkTaskUnknown(c) \/ CompleteTask(c) \/ CallDies(c)
    BY <1>1, <1>5, ReturnTells DEF ClaimBusy, MarkTaskUnknown, CompleteTask, CallDies
  <1>6. CASE ClaimReused(c)
    BY <1>1, <1>6, KeepTells DEF ClaimReused, CallSteps, HolderSteps
  <1>7. CASE ClaimExhausted(c)
    BY <1>1, <1>7, AnswerTells DEF ClaimExhausted, CallSteps, CallInv
  <1>8. CASE PlanOnly(c)
    BY <1>1, <1>8, AnswerTells DEF PlanOnly, CallSteps, HolderSteps
  <1>9. CASE PushBranch(c)
    <2>1. PICK out \in {"pushed", "outcome_unknown", "failed", "blocked"} :
            /\ held' = [held EXCEPT ![c].out = out]
            /\ out = "pushed" => github'.branch
      BY <1>1, <1>9 DEF PushBranch
    <2> QED
      BY <1>1, <1>9, <2>1, AnswerTells DEF PushBranch, CallSteps, HolderSteps
  <1>10. CASE MarkBranch(c)
    <2>1. operation' \in Operation /\ operation'.version >= operation.version
      BY <1>1, <1>10, MarkBranchEffect DEF Advances
    <2>2. CASE Return(c)
      BY <2>1, <2>2, ReturnTells
    <2>3. CASE ~ Return(c)
      <3>1. /\ Move(c, IF held[c].out = "pushed" THEN "claim_pr" ELSE "settle") /\ UNCHANGED held
            /\ call[c] = "mark" /\ operation' # operation
        <4>1. Current(c, "branch", held[c].out = "pushed" /\ product.status = "output_pending")
          BY <1>10, <2>3 DEF MarkBranch
        <4>2. held[c].out # "blocked" /\ call[c] = "mark"
          BY <1>10, <2>3, <4>1 DEF MarkBranch
        <4>3. \/ operation' = operation /\ call'[c] = "idle"
              \/ Advances
          BY <1>10, MarkBranchEffect
        <4>4. Move(c, IF held[c].out = "pushed" THEN "claim_pr" ELSE "settle") /\ UNCHANGED held
          BY <1>10, <4>1, <4>2 DEF MarkBranch
        <4>5. call'[c] # "idle"
          BY <1>1, <4>4 DEF Move
        <4> QED
          BY <1>1, <4>2, <4>3, <4>4, <4>5 DEF Advances
      <3>2. operation'.version = operation.version + 1
        BY <1>10, <3>1, MarkBranchEffect DEF Advances
      <3>3. PICK step \in {"claim_pr", "settle"} :
              Move(c, step) /\ (step = "settle" => held[c].out # "pushed")
        BY <3>1
      <3>4. /\ call' \in [Operator -> CallSteps] /\ call'[c] = step
            /\ \A d \in Operator : d # c => call'[d] = call[d]
        BY <1>1, <3>3, CallMoves DEF CallSteps
      <3>5. held[c].out \in {"pushed", "outcome_unknown", "failed"}
        <4>1. held[c].out # "blocked"
          BY <1>10, <2>3 DEF MarkBranch
        <4> QED
          BY <3>1, <4>1 DEF CallInv
      <3> QED
        BY <1>1, <3>1, <3>2, <3>3, <3>4, <3>5 DEF OutTells, OutFrame, CallInv, Carries
    <2> QED
      BY <2>2, <2>3
  <1>11. CASE Settle(c)
    <2>1. CASE Return(c)
      BY <1>1, <1>11, <2>1, ReturnTells DEF Settle
    <2>2. CASE ~ Return(c)
      <3>1. held' = [held EXCEPT ![c].task = product'.version] /\ Move(c, "lookup")
            /\ call[c] = "settle" /\ operation' = operation
        BY <1>11, <2>2 DEF Settle
      <3>2. product'.version \in Nat
        BY <1>1, <1>11, <2>2 DEF Settle, Become
      <3>3. /\ held' \in [Operator -> Held] /\ held'[c].op = held[c].op /\ Others(c)
        BY <1>1, <3>1, <3>2, HeldTask
      <3>4. /\ call' \in [Operator -> CallSteps] /\ call'[c] = "lookup"
            /\ \A d \in Operator : d # c => call'[d] = call[d]
        BY <1>1, <3>1, CallMoves DEF CallSteps
      <3> QED
        BY <1>1, <3>1, <3>3, <3>4 DEF OutTells, OutFrame, CallInv, Carries, Others, HolderSteps
    <2> QED
      BY <2>1, <2>2
  <1>12. CASE Lookup(c)
    <2>1. CASE Move(c, "post") /\ UNCHANGED held
      BY <1>1, <1>12, <2>1, KeepTells DEF Lookup, CallSteps, HolderSteps
    <2>2. ASSUME NEW z \in {"created", "outcome_unknown", "failed_known"}, z = "created" => github.pr,
                 held' = [held EXCEPT ![c].out = z], Move(c, "finish")
          PROVE  OutTells(c)
      BY <1>1, <1>12, <2>2, AnswerTells DEF Lookup, CallSteps, HolderSteps
    <2> QED
      BY <1>12, <2>1, <2>2 DEF Lookup
  <1>13. CASE Post(c)
    <2>1. PICK out \in {"created", "failed_known", "outcome_unknown"} :
            /\ held' = [held EXCEPT ![c].out = out]
            /\ out = "created" => github'.pr
      BY <1>1, <1>13 DEF Post
    <2> QED
      BY <1>1, <1>13, <2>1, AnswerTells DEF Post, CallSteps, HolderSteps
  <1>14. CASE CompletePr(c) \/ MarkPr(c)
    <2>1. operation' \in Operation /\ operation'.version >= operation.version
      BY <1>1, <1>14, EndPrEffect DEF Advances
    <2>2. CASE Return(c)
      BY <2>1, <2>2, ReturnTells
    <2>3. CASE /\ Move(c, "bind") /\ held' = [held EXCEPT ![c].op = operation'.version]
               /\ operation'.state # "none"
      <3>1. operation'.version \in Nat
        BY <2>1 DEF Operation
      <3>2. /\ held' \in [Operator -> Held] /\ held'[c].op = operation'.version /\ Others(c)
        BY <1>1, <2>3, <3>1, HeldVersion
      <3>3. /\ call' \in [Operator -> CallSteps] /\ call'[c] = "bind"
            /\ \A d \in Operator : d # c => call'[d] = call[d]
        BY <1>1, <2>3, CallMoves DEF CallSteps
      <3> QED
        BY <2>3, <3>1, <3>2, <3>3 DEF OutTells, OutFrame, CallInv, Carries, Others, HolderSteps
    <2>4. CASE Move(c, "unknown") /\ UNCHANGED held
      BY <2>1, <2>4, KeepTells DEF CallSteps, HolderSteps
    <2>5. CASE CompletePr(c)
      <3>1. operation'.state # "none" \/ Return(c)
        <4>1. CASE operation.state = "completed" /\ UNCHANGED operation
          BY <4>1
        <4>2. CASE End("pr", "completed", "completed")
          BY <1>1, <4>2 DEF End, Operation
        <4> QED
          BY <2>5, <4>1, <4>2 DEF CompletePr
      <3> QED
        <4>1. CASE operation.state = "completed" /\ UNCHANGED operation /\ Move(c, "bind")
                   /\ held' = [held EXCEPT ![c].op = operation.version]
          BY <2>3, <4>1
        <4>2. CASE Move(c, "bind") /\ held' = [held EXCEPT ![c].op = operation'.version] /\ ~ Return(c)
          BY <2>3, <3>1, <4>2
        <4> QED
          BY <2>2, <2>5, <4>1, <4>2 DEF CompletePr
    <2>6. CASE MarkPr(c)
      BY <2>2, <2>4, <2>6 DEF MarkPr
    <2> QED
      BY <1>14, <2>5, <2>6
  <1>15. CASE BindTerminal(c)
    <2>1. operation' \in Operation /\ operation'.version >= operation.version
      BY <1>1, <1>15, BindEffect DEF Advances
    <2>2. CASE Return(c)
      BY <2>1, <2>2, ReturnTells
    <2>3. CASE Move(c, "complete") /\ UNCHANGED held
      BY <2>1, <2>3, KeepTells DEF CallSteps, HolderSteps
    <2> QED
      BY <1>15, <2>2, <2>3 DEF BindTerminal
  <1>16. CASE ClaimEffect(c) \/ RecordReceipt(c)
    <2>1. CASE Return(c)
      BY <1>1, <1>16, <2>1, ReturnTells DEF ClaimEffect, RecordReceipt
    <2>2. ASSUME NEW step \in {"apply", "complete"}, Move(c, step), UNCHANGED held
          PROVE  OutTells(c)
      BY <1>1, <1>16, <2>2, KeepTells DEF ClaimEffect, RecordReceipt, CallSteps, HolderSteps
    <2> QED
      BY <1>16, <2>1, <2>2 DEF ClaimEffect, RecordReceipt
  <1>17. CASE ApplyEffect(c) \/ RecordFails(c) \/ ClaimRollback(c) \/ UndoEffect(c) \/ FinishRollback(c)
    <2>1. PICK step \in {"record", "unknown", "rollback", "rolled_back", "not_rolled_back", "idle"} :
            Move(c, step)
      BY <1>17 DEF ApplyEffect, RecordFails, ClaimRollback, UndoEffect, FinishRollback
    <2>2. UNCHANGED <<held, operation>>
      BY <1>17 DEF ApplyEffect, RecordFails, ClaimRollback, UndoEffect, FinishRollback
    <2> QED
      BY <1>1, <2>1, <2>2, KeepTells DEF CallSteps, HolderSteps
  <1> QED
    BY <1>2, <1>3, <1>4, <1>5, <1>6, <1>7, <1>8, <1>9, <1>10, <1>11, <1>12, <1>13, <1>14, <1>15,
       <1>16, <1>17 DEF CallStep

-----------------------------------------------------------------------------
(* What a step does to the rows, GitHub and the folder. *)

\* A branch or a pull request is never lost, and there is none without its branch.
LEMMA GithubGrows ==
    ASSUME OutTypeOK, github.pr => github.branch, OutNext
    PROVE  /\ github' \in [branch : BOOLEAN, pr : BOOLEAN]
           /\ github.branch => github'.branch
           /\ github.pr => github'.pr
           /\ github'.pr => github'.branch
  <1>1. github \in [branch : BOOLEAN, pr : BOOLEAN]
    BY DEF OutTypeOK
  <1>2. CASE github' = github
    BY <1>1, <1>2
  <1>3. CASE github' = [github EXCEPT !.branch = TRUE]
    BY <1>1, <1>3
  <1>4. CASE github' = [github EXCEPT !.pr = github.branch]
    BY <1>1, <1>4
  <1>5. CASE github' = [github EXCEPT !.pr = TRUE] /\ github.branch
    BY <1>1, <1>5
  <1>6. CASE LeaseExpires
    BY <1>2, <1>6 DEF LeaseExpires
  <1>7. ASSUME NEW c \in Operator, PushBranch(c) \/ Post(c) \/ CallDies(c)
        PROVE  \/ github' = github
               \/ github' = [github EXCEPT !.branch = TRUE]
               \/ github' = [github EXCEPT !.pr = github.branch]
               \/ github' = [github EXCEPT !.pr = TRUE] /\ github.branch
    <2>1. CASE PushBranch(c)
      BY <2>1 DEF PushBranch
    <2>2. CASE Post(c)
      BY <2>2 DEF Post
    <2>3. CASE CallDies(c)
      BY <2>3 DEF CallDies
    <2> QED
      BY <1>7, <2>1, <2>2, <2>3
  <1>8. ASSUME NEW c \in Operator, Output(c) \/ ClaimRollback(c) \/ CallStep(c) \/ CallDies(c),
               ~ (PushBranch(c) \/ Post(c) \/ CallDies(c))
        PROVE  github' = github
    BY <1>8 DEF CallStep, Output, ClaimRollback, OpenOperation, ClaimPhase, ClaimBusy, ClaimReused,
        ClaimExhausted, PlanOnly, MarkBranch, Settle, Lookup, CompletePr, MarkPr, MarkTaskUnknown,
        BindTerminal, CompleteTask, ClaimEffect, ApplyEffect, RecordReceipt, RecordFails, UndoEffect,
        FinishRollback
  <1> QED
    BY <1>2, <1>3, <1>4, <1>5, <1>6, <1>7, <1>8 DEF OutNext

\* The operation moves one version at a time, and records what has happened.
LEMMA OperationStep ==
    ASSUME OutInv, OutNext
    PROVE  /\ operation' \in Operation
           /\ operation' = operation \/ operation'.version = operation.version + 1
           /\ OpInv' /\ RecordedHappened'
           /\ operation.state # "none" => operation'.state # "none"
           /\ operation'.terminal = operation.terminal \/ product.status \in Open
  <1>1. /\ github.branch => github'.branch
        /\ github.pr => github'.pr
    BY GithubGrows DEF OutInv
  <1>2. /\ operation \in Operation /\ operation.version \in Nat
        /\ OutTypeOK /\ OpInv /\ RecordedHappened /\ \A c \in Operator : CallInv(c)
    BY DEF OutInv, OutTypeOK, Operation
  <1>3. CASE operation' = operation
    BY <1>1, <1>2, <1>3 DEF OpInv, RecordedHappened
  <1>4. ASSUME NEW c \in Operator, OpenOperation(c)
        PROVE  /\ operation'.terminal = operation.terminal /\ Advances
               /\ OpInv' /\ RecordedHappened' /\ operation'.state # "none"
    BY <1>1, <1>2, <1>4, OpenEffect DEF Advances, OpInv, RecordedHappened
  <1>5. ASSUME NEW c \in Operator, ClaimPhase(c)
        PROVE  /\ operation'.terminal = operation.terminal /\ Advances
               /\ OpInv' /\ RecordedHappened' /\ operation'.state # "none"
    BY <1>1, <1>2, <1>5, ClaimEffectOp DEF Advances, OpInv, RecordedHappened
  <1>6. ASSUME NEW c \in Operator, MarkBranch(c), operation' # operation
        PROVE  /\ operation'.terminal = operation.terminal /\ Advances
               /\ OpInv' /\ RecordedHappened' /\ operation'.state # "none"
    BY <1>1, <1>2, <1>6, MarkBranchEffect DEF Advances, OpInv, RecordedHappened, CallInv, MarkBranch
  <1>7. ASSUME NEW c \in Operator, CompletePr(c) \/ MarkPr(c), operation' # operation
        PROVE  /\ operation'.terminal = operation.terminal /\ Advances
               /\ OpInv' /\ RecordedHappened' /\ operation'.state # "none"
    <2>1. /\ Advances
          /\ operation.pr.status = "in_progress" /\ operation'.branch = operation.branch
          /\ operation'.terminal = operation.terminal
          /\ operation'.pr.status # "pending" /\ operation'.state # "none"
          /\ operation'.state = "completed" <=> operation'.pr.status = "completed"
          /\ operation'.pr.status = "completed" => github.pr
      BY <1>2, <1>7, EndPrEffect
    <2> QED
      BY <1>1, <1>2, <2>1 DEF Advances, OpInv, RecordedHappened
  <1>8. ASSUME NEW c \in Operator, BindTerminal(c), operation' # operation
        PROVE  /\ product.status \in Open /\ Advances
               /\ OpInv' /\ RecordedHappened' /\ operation'.state # "none"
    <2>1. /\ Advances /\ operation'.state = operation.state
          /\ operation'.branch = operation.branch /\ operation'.pr = operation.pr /\ Authority(c)
      BY <1>2, <1>8, BindEffect
    <2>2. operation.state # "none"
      BY <1>2, <1>8 DEF CallInv, BindTerminal
    <2> QED
      BY <1>1, <1>2, <2>1, <2>2 DEF Advances, OpInv, RecordedHappened, Authority
  <1>9. ASSUME operation' # operation
        PROVE  \E c \in Operator : \/ OpenOperation(c) \/ ClaimPhase(c) \/ MarkBranch(c)
                                   \/ CompletePr(c) \/ MarkPr(c) \/ BindTerminal(c)
    BY <1>9 DEF OutNext, CallStep, Output, ClaimRollback, ClaimBusy, ClaimReused,
        ClaimExhausted, PlanOnly, PushBranch, Post, Settle, Lookup, MarkTaskUnknown,
        CompleteTask, ClaimEffect, ApplyEffect, RecordReceipt, RecordFails, UndoEffect,
        FinishRollback, LeaseExpires, CallDies
  <1> QED
    BY <1>2, <1>3, <1>4, <1>5, <1>6, <1>7, <1>8, <1>9 DEF Advances

\* The task's completion, by a call whose record is terminal.
Completes(c) ==
    /\ Authority(c) /\ RecordIsTerminal(c)
    /\ product' = [status |-> "completed", version |-> product.version + 1]
    /\ evidence' = evidence \cup {product.version + 1}
    /\ UNCHANGED <<intent, operation, delivery, github, source>>

\* The task stays, moves between the open statuses, or is completed.
LEMMA ProductStep ==
    ASSUME OutInv, OutNext
    PROVE  /\ product' \in [status : Open \cup {"completed", "failed"}, version : Nat]
           /\ \/ UNCHANGED <<product, evidence>>
              \/ product.status \in Open /\ product'.status # "completed" /\ UNCHANGED evidence
              \/ \E c \in Operator : Completes(c)
  <1>1. /\ OutTypeOK /\ product \in [status : Open \cup {"completed", "failed"}, version : Nat]
        /\ product.version + 1 \in Nat
        /\ \A c \in Operator : CallInv(c)
    BY DEF OutInv, OutTypeOK
  <1>2. ASSUME NEW c \in Operator, Settle(c)
        PROVE  /\ product' \in [status : Open \cup {"completed", "failed"}, version : Nat]
               /\ product' = product \/ (product.status \in Open /\ product'.status # "completed")
               /\ UNCHANGED evidence
    <2>1. held[c].out \in {"output_pending", "outcome_unknown", "failed"}
      BY <1>1, <1>2 DEF CallInv, Settle
    <2>2. held[c].out \in Open \cup {"completed", "failed"} /\ held[c].out # "completed"
      BY <2>1 DEF Open
    <2>3. CASE product' = product
      BY <1>1, <1>2, <2>3 DEF Settle
    <2>4. CASE product.status \in Open /\ Become(held[c].out)
      BY <1>1, <1>2, <2>2, <2>4, BecomesType DEF Settle
    <2> QED
      BY <1>2, <2>3, <2>4 DEF Settle
  <1>3. ASSUME NEW c \in Operator, MarkTaskUnknown(c)
        PROVE  /\ product' \in [status : Open \cup {"completed", "failed"}, version : Nat]
               /\ product' = product \/ (product.status \in Open /\ product'.status # "completed")
               /\ UNCHANGED evidence
    <2>1. CASE product' = product
      BY <1>1, <1>3, <2>1 DEF MarkTaskUnknown
    <2>2. CASE product.status \in {"awaiting_approval", "output_pending"} /\ Become("outcome_unknown")
      BY <1>1, <1>3, <2>2, BecomesType DEF MarkTaskUnknown, Open
    <2> QED
      BY <1>3, <2>1, <2>2 DEF MarkTaskUnknown
  <1>4. ASSUME NEW c \in Operator, CompleteTask(c)
        PROVE  /\ product' \in [status : Open \cup {"completed", "failed"}, version : Nat]
               /\ UNCHANGED <<product, evidence>> \/ Completes(c)
    <2>1. CASE UNCHANGED <<product, evidence>>
      BY <1>1, <2>1
    <2>2. CASE ~ UNCHANGED <<product, evidence>>
      <3>1. Completes(c)
        BY <1>4, <2>2 DEF CompleteTask, Completes, Become
      <3> QED
        BY <1>1, <3>1 DEF Completes
    <2> QED
      BY <2>1, <2>2
  <1>5. ASSUME ~ \E c \in Operator : Settle(c) \/ MarkTaskUnknown(c) \/ CompleteTask(c)
        PROVE  UNCHANGED <<product, evidence>>
    BY <1>5 DEF OutNext, CallStep, Output, ClaimRollback, OpenOperation, ClaimPhase, ClaimBusy,
        ClaimReused, ClaimExhausted, PlanOnly, PushBranch, MarkBranch, Post, Lookup, CompletePr, MarkPr,
        BindTerminal, ClaimEffect, ApplyEffect, RecordReceipt, RecordFails, UndoEffect,
        FinishRollback, LeaseExpires, CallDies
  <1> QED
    BY <1>1, <1>2, <1>3, <1>4, <1>5

\* A completed task keeps the proof of its completion.
LEMMA CompletedStep ==
    ASSUME OutInv, OutNext, EffectInv'
    PROVE  CompletedIsProved' /\ evidence' \subseteq Nat
  <1>1. /\ OutTypeOK /\ CompletedIsProved /\ OpInv /\ RecordedHappened /\ EffectInv
        /\ product.version \in Nat /\ evidence \subseteq Nat
        /\ operation \in Operation /\ operation.terminal \in Nat
    BY DEF OutInv, OutTypeOK, Operation
  <1>2. /\ github.pr => github'.pr
        /\ product' \in [status : Open \cup {"completed", "failed"}, version : Nat]
    BY GithubGrows, ProductStep DEF OutInv
  <1>3. intent' = intent
    BY DEF OutNext, CallStep, Output, ClaimRollback, OpenOperation, ClaimPhase, ClaimBusy,
        ClaimReused, ClaimExhausted, PlanOnly, PushBranch, MarkBranch, Settle, Post, Lookup, CompletePr,
        MarkPr, MarkTaskUnknown, BindTerminal, CompleteTask, ClaimEffect, ApplyEffect, RecordReceipt,
        RecordFails, UndoEffect, FinishRollback, LeaseExpires, CallDies
  <1>4. CASE UNCHANGED <<product, evidence>>
    <2>1. CASE product.status # "completed"
      BY <1>1, <1>4, <2>1 DEF CompletedIsProved
    <2>2. CASE product.status = "completed"
      <3>1. operation'.terminal = operation.terminal
        BY <2>2, OperationStep DEF Open
      <3>2. delivery.state = "completed" => delivery'.state = "completed"
        BY DEF OutNext, CallStep, Output, ClaimRollback, OpenOperation, ClaimPhase, ClaimBusy,
            ClaimReused, ClaimExhausted, PlanOnly, PushBranch, MarkBranch, Settle, Post, Lookup,
            CompletePr, MarkPr, MarkTaskUnknown, BindTerminal, CompleteTask, ClaimEffect, ApplyEffect,
            RecordReceipt, RecordFails, UndoEffect, FinishRollback, LeaseExpires, CallDies, OutInv,
            OutTypeOK
      <3>3. evidence' = {product'.version}
        BY <1>1, <1>4, <2>2 DEF CompletedIsProved
      <3>4. CASE intent = "draft_pr"
        BY <1>1, <1>2, <1>3, <1>4, <2>2, <3>1, <3>3, <3>4 DEF CompletedIsProved
      <3>5. CASE intent = "apply_local_changes"
        BY <1>1, <1>3, <1>4, <2>2, <3>2, <3>3, <3>5 DEF CompletedIsProved, EffectInv
      <3>6. CASE intent \notin {"draft_pr", "apply_local_changes"}
        BY <1>1, <1>3, <1>4, <2>2, <3>2, <3>3, <3>6 DEF CompletedIsProved
      <3> QED
        BY <3>4, <3>5, <3>6
    <2> QED
      BY <1>1, <1>4, <2>1, <2>2
  <1>5. CASE product.status \in Open /\ product'.status # "completed" /\ UNCHANGED evidence
    BY <1>1, <1>5 DEF CompletedIsProved, Open
  <1>6. ASSUME NEW c \in Operator, Completes(c)
        PROVE  CompletedIsProved' /\ evidence' \subseteq Nat
    <2>1. evidence = {} /\ product.version = held[c].task
      BY <1>1, <1>6 DEF Completes, Authority, CompletedIsProved, Open
    <2>2. product'.status = "completed" /\ product'.version = product.version + 1
          /\ evidence' = {product'.version} /\ evidence' \subseteq Nat
      BY <1>1, <1>6, <2>1 DEF Completes
    <2>3. CASE intent = "draft_pr"
      <3>1. operation.state = "completed" /\ operation.terminal = held[c].task
        BY <1>6, <2>3 DEF Completes, RecordIsTerminal
      <3>2. github'.pr /\ operation'.terminal + 1 = product'.version
        BY <1>1, <1>6, <2>1, <2>2, <3>1 DEF Completes, OpInv, RecordedHappened
      <3> QED
        BY <1>3, <2>2, <2>3, <3>2 DEF CompletedIsProved
    <2>4. CASE intent # "draft_pr"
      <3>1. delivery'.state = "completed"
        BY <1>6, <2>4 DEF Completes, RecordIsTerminal
      <3> QED
        BY <1>3, <2>2, <2>4, <3>1 DEF CompletedIsProved, EffectInv
    <2> QED
      BY <2>3, <2>4
  <1> QED
    BY <1>4, <1>5, <1>6, ProductStep

-----------------------------------------------------------------------------
(* The local effect and its receipts. *)

Deliveries == [state : {"none", "effect_started", "completed"},
               rollback : {"none", "effect_started", "completed", "outcome_unknown"}]
Sources == [content : Contents, applies : Nat, undos : Nat]

EffectOK == EffectInv' /\ delivery' \in Deliveries /\ source' \in Sources

\* A step that is not about the effect.
LEMMA EffectAside ==
    ASSUME EffectInv, delivery \in Deliveries, source \in Sources, NEW c \in Operator, OutFrame(c),
           UNCHANGED <<intent, delivery, source>>,
           call'[c] \notin {"apply", "rollback", "rolled_back", "not_rolled_back"},
           call'[c] = "effect_claim" => intent = "apply_local_changes",
           call'[c] = "record" => intent # "apply_local_changes"
    PROVE  EffectOK
  <1>1. Appliers' \subseteq Appliers /\ Restorers' \subseteq Restorers
    BY DEF OutFrame, Appliers, Restorers
  <1>2. \A d \in Appliers' \cup Restorers' : call'[d] = call[d]
    BY DEF OutFrame, Appliers, Restorers
  <1> QED
    BY <1>1, <1>2 DEF EffectOK, EffectInv, OutFrame

\* The effect, step by step: claimed, applied, recorded, claimed back, undone, finished.
LEMMA EffectStep ==
    ASSUME OutInv, NEW c \in Operator, OutTells(c),
           Output(c) \/ ClaimRollback(c) \/ CallStep(c) \/ CallDies(c)
    PROVE  EffectOK
  <1>1. /\ EffectInv /\ delivery \in Deliveries /\ source \in Sources /\ OutFrame(c)
        /\ call \in [Operator -> CallSteps]
    BY DEF OutInv, OutTypeOK, OutTells, Deliveries, Sources
  <1>2. source.applies \in Nat /\ source.undos \in Nat
    BY <1>1 DEF Sources
  <1> USE DEF EffectOK
  <1>3. CASE ClaimEffect(c) /\ delivery' # delivery
    <2>1. /\ delivery.state = "none" /\ delivery' = [delivery EXCEPT !.state = "effect_started"]
          /\ call[c] = "effect_claim" /\ call'[c] = "apply" /\ UNCHANGED <<intent, source>>
      BY <1>1, <1>3 DEF ClaimEffect, Move
    <2>2. delivery' \in Deliveries /\ source' \in Sources /\ delivery'.state = "effect_started"
          /\ delivery'.rollback = delivery.rollback
      BY <1>1, <2>1 DEF Deliveries
    <2>3. Appliers = {} /\ Restorers = {}
      BY <1>1, <2>1 DEF EffectInv
    <2>4. Appliers' \subseteq {c} /\ Restorers' = {}
      BY <2>1, <2>3, <1>1 DEF OutFrame, Appliers, Restorers
    <2> QED
      BY <1>1, <2>1, <2>2, <2>3, <2>4 DEF EffectInv, OutFrame
  <1>4. CASE ApplyEffect(c) \/ (CallDies(c) /\ call[c] = "apply")
    <2>1. PICK x \in Contents :
            /\ source' = Written(x, 1, 0)
            /\ call'[c] \in {"record", "unknown", "idle"} /\ (call'[c] = "record" => x = "applied")
      BY <1>1, <1>4 DEF ApplyEffect, CallDies, Move, Return
    <2>2. call[c] = "apply" /\ UNCHANGED <<intent, delivery>>
      BY <1>4 DEF ApplyEffect, CallDies
    <2>3. c \in Appliers /\ source.applies = 0 /\ delivery.state = "effect_started"
      BY <1>1, <2>2 DEF EffectInv, Appliers
    <2>4. Appliers' \subseteq {c} /\ Restorers' = {}
      BY <1>1, <2>1, <2>2, <2>3 DEF OutFrame, Appliers, Restorers, EffectInv
    <2>5. source'.content = x /\ source'.applies = 1 /\ source'.undos = source.undos /\ source' \in Sources
      BY <1>2, <2>1, <2>3 DEF Written, Sources
    <2> QED
      BY <1>1, <2>1, <2>2, <2>3, <2>4, <2>5 DEF EffectInv, OutFrame
  <1>5. CASE RecordReceipt(c) /\ Authority(c)
    <2>1. /\ delivery' = [delivery EXCEPT !.state = "completed"] /\ UNCHANGED <<intent, source>>
          /\ call[c] = "record" /\ call'[c] = "complete"
      BY <1>1, <1>5 DEF RecordReceipt, Move
    <2>2. delivery' \in Deliveries /\ source' \in Sources /\ delivery'.state = "completed"
          /\ delivery'.rollback = delivery.rollback
      BY <1>1, <2>1 DEF Deliveries
    <2>3. CASE intent = "apply_local_changes"
      <3>1. c \in Appliers /\ source.content = "applied" /\ delivery.state = "effect_started"
        BY <1>1, <2>1, <2>3 DEF EffectInv, Appliers
      <3>2. Appliers' = {} /\ Restorers' = {}
        BY <1>1, <2>1, <3>1 DEF OutFrame, Appliers, Restorers, EffectInv
      <3> QED
        BY <1>1, <2>1, <2>2, <3>1, <3>2 DEF EffectInv, OutFrame
    <2>4. CASE intent # "apply_local_changes"
      <3>1. Appliers' = {} /\ Restorers' = {}
        BY <1>1, <2>1, <2>4 DEF OutFrame, Appliers, Restorers, EffectInv
      <3> QED
        BY <1>1, <2>1, <2>2, <2>4, <3>1 DEF EffectInv, OutFrame
    <2> QED
      BY <2>3, <2>4
  <1>6. CASE ClaimRollback(c)
    <2>1. /\ delivery.state = "completed" /\ delivery.rollback = "none"
          /\ delivery' = [delivery EXCEPT !.rollback = "effect_started"]
          /\ intent = "apply_local_changes" /\ UNCHANGED <<intent, source>> /\ call'[c] = "rollback"
      BY <1>1, <1>6 DEF ClaimRollback, Move
    <2>2. /\ delivery' \in Deliveries /\ source' \in Sources
          /\ delivery'.state = "completed" /\ delivery'.rollback = "effect_started"
      BY <1>1, <2>1 DEF Deliveries
    <2>3. Restorers' \subseteq {c} /\ Appliers' = {} /\ source.undos = 0
      BY <1>1, <2>1 DEF OutFrame, Appliers, Restorers, EffectInv
    <2> QED
      BY <1>1, <2>1, <2>2, <2>3 DEF EffectInv, OutFrame
  <1>7. CASE UndoEffect(c) \/ (CallDies(c) /\ call[c] = "rollback")
    <2>1. PICK x \in Contents :
            /\ source' = Written(x, 0, 1)
            /\ call'[c] \in {"rolled_back", "not_rolled_back", "idle"}
      BY <1>1, <1>7 DEF UndoEffect, CallDies, Move, Return
    <2>2. call[c] = "rollback" /\ UNCHANGED <<intent, delivery>>
      BY <1>7 DEF UndoEffect, CallDies
    <2>3. /\ c \in Restorers /\ source.undos = 0 /\ intent = "apply_local_changes"
          /\ delivery.state = "completed" /\ delivery.rollback = "effect_started"
      BY <1>1, <2>2 DEF EffectInv, Restorers
    <2>4. Restorers' \subseteq {c} /\ Appliers' = {}
      BY <1>1, <2>1, <2>2, <2>3 DEF OutFrame, Appliers, Restorers, EffectInv
    <2>5. /\ source'.content = x /\ source'.applies = source.applies /\ source'.undos = 1
          /\ source' \in Sources
      BY <1>2, <2>1, <2>3 DEF Written, Sources
    <2> QED
      BY <1>1, <2>1, <2>2, <2>3, <2>4, <2>5 DEF EffectInv, OutFrame
  <1>8. CASE FinishRollback(c)
    <2>1. PICK s \in {"completed", "outcome_unknown"} : delivery' = [delivery EXCEPT !.rollback = s]
      BY <1>8 DEF FinishRollback
    <2>2. /\ call[c] \in {"rolled_back", "not_rolled_back"} /\ call'[c] = "idle"
          /\ UNCHANGED <<intent, source>>
      BY <1>1, <1>8 DEF FinishRollback, Move
    <2>3. delivery' \in Deliveries /\ delivery'.state = delivery.state /\ delivery'.rollback = s
      BY <1>1, <2>1 DEF Deliveries
    <2>4. c \in Restorers /\ delivery.state = "completed"
      BY <1>1, <2>2 DEF EffectInv, Restorers
    <2>5. Restorers' = {} /\ Appliers' = {}
      BY <1>1, <2>2, <2>4 DEF OutFrame, Appliers, Restorers, EffectInv
    <2> QED
      BY <1>1, <2>2, <2>3, <2>4, <2>5 DEF EffectInv, OutFrame
  <1>9. CASE Output(c)
    <2>1. /\ UNCHANGED <<intent, delivery, source>>
          /\ call'[c] = CASE intent = "draft_pr" -> "claim"
                          [] intent = "apply_local_changes" -> "effect_claim"
                          [] OTHER -> "record"
      BY <1>1, <1>9 DEF Output, Move
    <2> QED
      BY <1>1, <2>1, EffectAside
  <1>10. CASE /\ UNCHANGED <<intent, delivery, source>>
              /\ call'[c] \notin {"apply", "rollback", "rolled_back", "not_rolled_back", "effect_claim",
                                  "record"}
    BY <1>1, <1>10, EffectAside
  <1>11. ASSUME CallDies(c), call[c] \notin {"apply", "rollback"}
         PROVE  UNCHANGED <<intent, delivery, source>> /\ call'[c] = "idle"
    BY <1>1, <1>11 DEF CallDies, Return, Move
  <1>12. ASSUME \/ OpenOperation(c) \/ ClaimPhase(c) \/ ClaimBusy(c) \/ ClaimReused(c) \/ ClaimExhausted(c)
                \/ PlanOnly(c) \/ PushBranch(c) \/ Settle(c) \/ Lookup(c) \/ Post(c)
         PROVE  /\ UNCHANGED <<intent, delivery, source>>
                /\ call'[c] \in {"push", "idle", "settle", "complete", "mark", "lookup", "finish", "post"}
    BY <1>1, <1>12 DEF OpenOperation, ClaimPhase, ClaimBusy, ClaimReused, ClaimExhausted, PlanOnly,
       PushBranch, Settle, Lookup, Post, Move, Return
  <1>13. ASSUME MarkBranch(c) \/ CompletePr(c) \/ MarkPr(c) \/ MarkTaskUnknown(c)
                \/ BindTerminal(c) \/ CompleteTask(c) \/ RecordFails(c)
         PROVE  /\ UNCHANGED <<intent, delivery, source>>
                /\ call'[c] \in {"idle", "claim_pr", "settle", "bind", "unknown", "complete"}
    BY <1>1, <1>13 DEF MarkBranch, CompletePr, MarkPr, MarkTaskUnknown, BindTerminal, CompleteTask,
       RecordFails, Move, Return
  <1>14. ASSUME \/ ClaimEffect(c) /\ delivery' = delivery
                \/ RecordReceipt(c) /\ ~ Authority(c)
         PROVE  UNCHANGED <<intent, delivery, source>> /\ call'[c] = "idle"
    <2>1. CASE RecordReceipt(c) /\ ~ Authority(c)
      BY <1>1, <2>1 DEF RecordReceipt, Return, Move
    <2>2. CASE ClaimEffect(c) /\ delivery' = delivery
      <3>1. ~ (Authority(c) /\ delivery.state = "none")
        BY <1>1, <2>2 DEF ClaimEffect, Deliveries
      <3> QED
        BY <1>1, <2>2, <3>1 DEF ClaimEffect, Return, Move
    <2> QED
      BY <1>14, <2>1, <2>2
  <1> HIDE DEF EffectOK
  <1>15. CASE CallDies(c)
    BY <1>4, <1>7, <1>10, <1>11, <1>15
  <1>16. CASE \/ OpenOperation(c) \/ ClaimPhase(c) \/ ClaimBusy(c) \/ ClaimReused(c) \/ ClaimExhausted(c)
              \/ PlanOnly(c) \/ PushBranch(c) \/ Settle(c) \/ Lookup(c) \/ Post(c)
    BY <1>10, <1>12, <1>16
  <1>17. CASE MarkBranch(c) \/ CompletePr(c) \/ MarkPr(c) \/ MarkTaskUnknown(c)
              \/ BindTerminal(c) \/ CompleteTask(c) \/ RecordFails(c)
    BY <1>10, <1>13, <1>17
  <1>18. CASE ClaimEffect(c) \/ RecordReceipt(c)
    BY <1>3, <1>5, <1>10, <1>14, <1>18
  <1> QED
    BY <1>4, <1>6, <1>7, <1>8, <1>9, <1>15, <1>16, <1>17, <1>18 DEF CallStep

-----------------------------------------------------------------------------
(* The invariant of an output. *)

\* What no call changes but by one of the steps above.
LEMMA OutRest ==
    ASSUME OutTypeOK, OutNext
    PROVE  intent' = intent /\ leased' \in BOOLEAN /\ deaths' \in 0 .. MaxDeaths
  <1>1. intent' = intent
    BY DEF OutNext, CallStep, Output, ClaimRollback, OpenOperation, ClaimPhase, ClaimBusy,
        ClaimReused, ClaimExhausted, PlanOnly, PushBranch, MarkBranch, Settle, Post, Lookup, CompletePr,
        MarkPr, MarkTaskUnknown, BindTerminal, CompleteTask, ClaimEffect, ApplyEffect, RecordReceipt,
        RecordFails, UndoEffect, FinishRollback, LeaseExpires, CallDies
  <1>2. ASSUME ~ LeaseExpires,
               ~ \E c \in Operator : \/ OpenOperation(c) \/ ClaimPhase(c)
                                     \/ MarkBranch(c) \/ CompletePr(c) \/ MarkPr(c)
        PROVE  leased' = leased
    <2>1. PICK c \in Operator :
            \/ Output(c) \/ ClaimRollback(c) \/ ClaimBusy(c) \/ ClaimReused(c) \/ ClaimExhausted(c)
            \/ PlanOnly(c) \/ PushBranch(c) \/ Settle(c) \/ Lookup(c) \/ Post(c) \/ MarkTaskUnknown(c)
            \/ BindTerminal(c) \/ CompleteTask(c) \/ ClaimEffect(c) \/ ApplyEffect(c)
            \/ RecordReceipt(c) \/ RecordFails(c) \/ UndoEffect(c) \/ FinishRollback(c) \/ CallDies(c)
      BY <1>2 DEF OutNext, CallStep
    <2> QED
      BY <2>1 DEF Output, ClaimRollback, ClaimBusy, ClaimReused, ClaimExhausted, PlanOnly,
         PushBranch, Settle, Post, Lookup, MarkTaskUnknown, BindTerminal, CompleteTask, ClaimEffect,
         ApplyEffect, RecordReceipt, RecordFails, UndoEffect, FinishRollback, CallDies
  <1>3. ASSUME ~ \E c \in Operator : CallDies(c)
        PROVE  deaths' = deaths
    BY <1>3 DEF OutNext, CallStep, Output, ClaimRollback, OpenOperation, ClaimPhase, ClaimBusy,
        ClaimReused, ClaimExhausted, PlanOnly, PushBranch, MarkBranch, Settle, Post, Lookup, CompletePr,
        MarkPr, MarkTaskUnknown, BindTerminal, CompleteTask, ClaimEffect, ApplyEffect, RecordReceipt,
        RecordFails, UndoEffect, FinishRollback, LeaseExpires
  <1>4. deaths' \in 0 .. MaxDeaths
    BY <1>3, OutputAssumption DEF OutTypeOK, CallDies
  <1>5. leased' \in BOOLEAN
    <2>1. CASE leased' = leased
      BY <2>1 DEF OutTypeOK
    <2>2. CASE LeaseExpires
      BY <2>2 DEF LeaseExpires
    <2>3. ASSUME NEW c \in Operator, OpenOperation(c) \/ ClaimPhase(c)
          PROVE  leased' \in BOOLEAN
      BY <2>3 DEF OpenOperation, ClaimPhase
    <2>4. ASSUME NEW c \in Operator, MarkBranch(c) \/ CompletePr(c) \/ MarkPr(c)
          PROVE  leased' \in BOOLEAN
      <3>1. CASE MarkBranch(c)
        <4>1. leased' = leased \/ leased' = FALSE
          BY <3>1 DEF MarkBranch, End
        <4> QED
          BY <2>1, <4>1
      <3>2. CASE CompletePr(c)
        <4>1. leased' = leased \/ leased' = FALSE
          BY <3>2 DEF CompletePr, End
        <4> QED
          BY <2>1, <4>1
      <3>3. CASE MarkPr(c)
        <4>1. leased' = leased \/ leased' = FALSE
          BY <3>3 DEF MarkPr, End
        <4> QED
          BY <2>1, <4>1
      <3> QED
        BY <2>4, <3>1, <3>2, <3>3
    <2> QED
      BY <1>2, <2>1, <2>2, <2>3, <2>4
  <1> QED
    BY <1>1, <1>4, <1>5

\* No two calls carry one version of the operation: a claim takes a new one.
LEMMA VersionStep ==
    ASSUME OutInv, OutNext, NEW c \in Operator, OutTells(c)
    PROVE  VersionInv' /\ \A d \in Operator : CallInv(d)'
  <1>1. /\ operation' \in Operation /\ operation \in Operation
        /\ operation' = operation \/ operation'.version = operation.version + 1
        /\ operation.state # "none" => operation'.state # "none"
        /\ github.branch => github'.branch
        /\ github.pr => github'.pr
    BY OperationStep, GithubGrows DEF OutInv, OutTypeOK
  <1>2. operation.version \in Nat /\ operation'.version \in Nat
    BY <1>1 DEF Operation
  <1>3. \A d \in Operator : CallInv(d) /\ held[d].op \in Nat
    BY DEF OutInv, OutTypeOK, Held
  <1>4. ASSUME NEW d \in Operator, d # c
        PROVE  CallInv(d)'
    <2>1. call'[d] = call[d] /\ held'[d] = held[d]
      BY <1>4 DEF OutTells, OutFrame
    <2>2. held[d].op <= operation'.version
      BY <1>1, <1>2, <1>3 DEF CallInv
    <2> QED
      BY <1>1, <1>3, <2>1, <2>2 DEF CallInv
  <1>5. CASE operation'.version = operation.version + 1
    <2>1. ASSUME NEW d \in Operator, held'[d].op = operation'.version
          PROVE  d = c
      BY <1>2, <1>3, <1>5, <2>1 DEF CallInv, OutTells, OutFrame
    <2> QED
      BY <1>4, <2>1 DEF VersionInv, OutTells
  <1>6. CASE operation' = operation
    <2>1. ASSUME NEW d \in Operator, operation.version > 0,
                 call'[d] \in HolderSteps, held'[d].op = operation'.version
          PROVE  call[d] \in HolderSteps /\ held[d].op = operation.version
      BY <1>2, <1>6, <2>1 DEF OutTells, OutFrame, Carries
    <2>2. VersionInv
      BY DEF OutInv
    <2>3. VersionInv'
      BY <1>6, <2>1, <2>2 DEF VersionInv
    <2> QED
      BY <1>4, <2>3 DEF OutTells
  <1> QED
    BY <1>1, <1>5, <1>6

\* A call's step preserves the invariant.
LEMMA OutCallKeeps ==
    ASSUME OutInv, NEW c \in Operator, Output(c) \/ ClaimRollback(c) \/ CallStep(c) \/ CallDies(c)
    PROVE  OutInv'
  <1>1. OutNext
    BY DEF OutNext
  <1>2. OutTells(c)
    BY OutCallStep DEF OutInv
  <1>3. EffectInv' /\ delivery' \in Deliveries /\ source' \in Sources
    BY <1>2, EffectStep DEF EffectOK
  <1>4. CompletedIsProved' /\ evidence' \subseteq Nat
    BY <1>1, <1>3, CompletedStep
  <1>5. /\ operation' \in Operation /\ OpInv' /\ RecordedHappened'
    BY <1>1, OperationStep
  <1>6. /\ github' \in [branch : BOOLEAN, pr : BOOLEAN]
        /\ github'.pr => github'.branch
    BY <1>1, GithubGrows DEF OutInv
  <1>7. product' \in [status : Open \cup {"completed", "failed"}, version : Nat]
    BY <1>1, ProductStep
  <1>8. call' \in [Operator -> CallSteps] /\ held' \in [Operator -> Held]
    BY <1>2 DEF OutTells, OutFrame
  <1>9. intent' \in OutputIntents /\ leased' \in BOOLEAN /\ deaths' \in 0 .. MaxDeaths
    <2>1. intent \in OutputIntents /\ OutTypeOK
      BY DEF OutInv, OutTypeOK
    <2> QED
      BY <1>1, <2>1, OutRest
  <1>10. OutTypeOK'
    BY <1>3, <1>4, <1>5, <1>6, <1>7, <1>8, <1>9, Zenon DEF OutTypeOK, Deliveries, Sources
  <1>11. VersionInv' /\ \A d \in Operator : CallInv(d)'
    BY <1>1, <1>2, VersionStep
  <1> QED
    BY <1>3, <1>4, <1>5, <1>6, <1>10, <1>11, Zenon DEF OutInv

\* The lease runs out: nobody learns of it.
LEMMA LeaseKeeps ==
    ASSUME OutInv, LeaseExpires \/ UNCHANGED ovars
    PROVE  OutInv'
  <1>1. /\ UNCHANGED <<intent, product, operation, delivery, github, source, evidence, call, held, deaths>>
        /\ leased' \in BOOLEAN
    BY DEF LeaseExpires, ovars, OutInv, OutTypeOK
  <1>2. OutTypeOK'
    <2>1. OutTypeOK
      BY DEF OutInv
    <2> QED
      BY <1>1, <2>1 DEF OutTypeOK
  <1>3. /\ OpInv' /\ VersionInv' /\ RecordedHappened' /\ CompletedIsProved'
        /\ github'.pr => github'.branch
    BY <1>1 DEF OutInv, OpInv, VersionInv, RecordedHappened, CompletedIsProved
  <1>4. EffectInv'
    BY <1>1 DEF OutInv, EffectInv, Appliers, Restorers
  <1>5. \A c \in Operator : CallInv(c)'
    BY <1>1 DEF OutInv, CallInv
  <1> QED
    BY <1>2, <1>3, <1>4, <1>5, Zenon DEF OutInv

\* The invariant holds for any number of concurrent calls and any number of deaths.
THEOREM OutInvariance == OutSpec => []OutInv
  <1>1. OutInit => OutInv
    BY OutStarts
  <1>2. OutInv /\ [OutNext]_ovars => OutInv'
    BY OutCallKeeps, LeaseKeeps DEF OutNext
  <1> QED
    BY <1>1, <1>2, PTL DEF OutSpec

\* output_product_task, claimed, retried, taken over after its lease or killed at any
\* point: one call at most can end the phase in progress, the operation records only
\* what GitHub has, a completed task has its one evidence and its output, and the
\* operator's folder is written once and rolled back once at most.
THEOREM OutSoundness == OutSpec => []OutputIsSound
  <1>1. OutInv => OutputIsSound
    <2> SUFFICES ASSUME OutInv PROVE OutputIsSound
      OBVIOUS
    <2>1. OneHolder
      <3> SUFFICES ASSUME NEW c \in Holders, NEW d \in Holders PROVE c = d
        BY DEF OneHolder
      <3>1. operation.version \in Nat /\ operation[Phase].status = "in_progress"
        BY DEF OutInv, OutTypeOK, Operation, Holders
      <3>2. operation.version > 0
        BY <3>1 DEF OutInv, OpInv, Phase
      <3> QED
        BY <3>2 DEF OutInv, VersionInv, Holders, HolderSteps
    <2>2. AppliedOnce
      BY DEF OutInv, EffectInv, AppliedOnce
    <2> QED
      BY <2>1, <2>2 DEF OutInv, OutputIsSound
  <1> QED
    BY <1>1, OutInvariance, PTL

\* The tail of output_product_task and every store operation after it read the task
\* again: a task that is completed or failed stays as it is, with its evidence.
THEOREM OutcomeFinal == OutSpec => OutcomeIsFinal
  <1>1. OutInv /\ [OutNext]_ovars =>
            [product.status \notin Open => product' = product /\ evidence' = evidence]_ovars
    <2> SUFFICES ASSUME OutInv, OutNext, product.status \notin Open
                 PROVE  product' = product /\ evidence' = evidence
      OBVIOUS
    <2> QED
      BY ProductStep DEF Completes, Authority
  <1> QED
    BY <1>1, OutInvariance, PTL DEF OutSpec, OutcomeIsFinal

-----------------------------------------------------------------------------
(* What the properties of a preparation rest on. *)

\* Where the work on the path is: the marker and the receipt name it.
InTree == {"tree", "record", "bind", "compensate", "fail"}
Preparing == InTree \cup {"marker", "ready"}
Ending == {"close", "retire", "unmark"}

\* The work between the check of the task and its end is done under the guard.
GuardInv == \A c \in Caller : at[c] \in Preparing \cup {"check", "close"} => lock = c

\* What a call knows of the task and its receipt at each place of the code.
PlaceInv(c) ==
    /\ at[c] # "idle" => task.status # "none"
    /\ at[c] \in Preparing \cup {"lock", "check"} =>
          /\ local[c].rc # "none"
          /\ task.status \in Final \cup {"workspace_preparing"}
    /\ at[c] \in Preparing => task.status = "workspace_preparing"
    /\ at[c] \in Ending => task.status \in Final
    /\ local[c].rc # "none" => task.status \notin {"none", "admitted"}
    /\ local[c].rc = "marker_ready" /\ task.status = "workspace_preparing" => receipt = "marker_ready"

\* What it knows of the path.
PathInv(c) ==
    /\ at[c] \in InTree \cup {"ready"} => marker = "valid"
    /\ at[c] \in InTree => receipt = "marker_ready"
    /\ at[c] \in {"record", "bind"} => tree \in {"partial", "complete"} /\ HashFits(tree)
    /\ at[c] = "fail" => tree = "absent"

\* The receipt is written with the status, and noted ready after the marker.
ReceiptInv ==
    /\ receipt # "none" => task.status \notin {"none", "admitted"}
    /\ receipt = "marker_ready" /\ task.status = "workspace_preparing" => marker = "valid"

WsInv ==
    /\ WsTypeOK
    /\ GuardInv
    /\ \A c \in Caller : PlaceInv(c)
    /\ \A c \in Caller : PathInv(c)
    /\ ReceiptInv
    /\ PreparingHasReceipt
    /\ TreeIsAttributed
    /\ BoundHasTree
    /\ FailedLeavesNoTree

Statuses == Final \cup {"none", "admitted", "workspace_preparing"}
Tasks == [status : Statuses, version : Nat, ec3 : BOOLEAN]

TaskRow(status, version, ec3) == [status |-> status, version |-> version, ec3 |-> ec3]

\* The three updates of the row, field by field.
LEMMA TaskFields ==
    ASSUME task \in Tasks, NEW s, NEW n, NEW q
    PROVE  /\ q = [task EXCEPT !.status = s, !.version = @ + 1] => q = TaskRow(s, task.version + 1, task.ec3)
           /\ q = [task EXCEPT !.status = s, !.version = n] => q = TaskRow(s, n, task.ec3)
           /\ q = [task EXCEPT !.ec3 = s, !.version = @ + 1] => q = TaskRow(task.status, task.version + 1, s)
  <1>1. q = [task EXCEPT !.status = s, !.version = @ + 1] => q = TaskRow(s, task.version + 1, task.ec3)
    BY Zenon DEF Tasks, TaskRow
  <1>2. q = [task EXCEPT !.status = s, !.version = n] => q = TaskRow(s, n, task.ec3)
    BY Zenon DEF Tasks, TaskRow
  <1>3. q = [task EXCEPT !.ec3 = s, !.version = @ + 1] => q = TaskRow(task.status, task.version + 1, s)
    BY Zenon DEF Tasks, TaskRow
  <1> QED
    BY <1>1, <1>2, <1>3

\* A new status has a new version.
LEMMA StatusSet ==
    ASSUME task \in Tasks, NEW s \in Statuses, SetStatus(s)
    PROVE  task' \in Tasks /\ task'.status = s
  <1>1. task' = TaskRow(s, task.version + 1, task.ec3)
    BY TaskFields DEF SetStatus
  <1>2. task.version + 1 \in Nat /\ task.ec3 \in BOOLEAN
    BY DEF Tasks
  <1> QED
    BY <1>1, <1>2 DEF TaskRow, Tasks

\* reserve_product_task leaves a task it finds as it is.
LEMMA TaskReserved ==
    ASSUME task \in Tasks, NEW c, Admit(c)
    PROVE  /\ task' \in Tasks
           /\ task'.status = IF task.status = "none" THEN "admitted" ELSE task.status
  <1>1. CASE task.status = "none"
    <2>1. task' = TaskRow("admitted", 1, task.ec3)
      BY <1>1, TaskFields DEF Admit
    <2> QED
      BY <1>1, <2>1 DEF TaskRow, Tasks, Statuses
  <1> QED
    BY <1>1 DEF Admit

\* A task marked for EC3 keeps its status.
LEMMA TaskMarked ==
    ASSUME task \in Tasks, MarkEc3Required
    PROVE  task' \in Tasks /\ task'.status = task.status
  <1>1. task' = TaskRow(task.status, task.version + 1, TRUE)
    BY TaskFields DEF MarkEc3Required
  <1>2. task.version + 1 \in Nat /\ task.status \in Statuses
    BY DEF Tasks
  <1> QED
    BY <1>1, <1>2 DEF TaskRow, Tasks

\* What a call has read: nothing, a receipt, or the version of the task.
LEMMA CallForgets ==
    ASSUME local \in [Caller -> Calls], NEW c \in Caller, NEW k \in {"admit", "recover"},
           local' = [local EXCEPT ![c] = Fresh(k)]
    PROVE  /\ local' \in [Caller -> Calls] /\ local'[c].rc = "none"
           /\ \A d \in Caller : d # c => local'[d] = local[d]
  BY DEF Calls, Fresh

LEMMA CallReadsReceipt ==
    ASSUME local \in [Caller -> Calls], NEW c \in Caller,
           NEW x \in {"none", "planned", "marker_ready"}, local' = [local EXCEPT ![c].rc = x]
    PROVE  /\ local' \in [Caller -> Calls] /\ local'[c].rc = x
           /\ \A d \in Caller : d # c => local'[d] = local[d]
  BY DEF Calls

LEMMA CallReadsVersion ==
    ASSUME local \in [Caller -> Calls], NEW c \in Caller,
           NEW n \in Nat, local' = [local EXCEPT ![c].seen = n]
    PROVE  /\ local' \in [Caller -> Calls] /\ local'[c].rc = local[c].rc
           /\ \A d \in Caller : d # c => local'[d] = local[d]
  BY DEF Calls

\* A call that leaves drops its guard and what it has read.
LEMMA CallLeaves ==
    ASSUME WsTypeOK, NEW c \in Caller, NEW step \in Steps, Leave(c, step)
    PROVE  /\ at' \in [Caller -> Steps] /\ at' = [at EXCEPT ![c] = step]
           /\ lock' \in Caller \cup {None}
           /\ lock' = IF lock = c THEN None ELSE lock
           /\ local' \in [Caller -> Calls] /\ local'[c].rc = "none"
           /\ \A d \in Caller : d # c => local'[d] = local[d]
           /\ intake' = intake
  <1>1. local \in [Caller -> Calls] /\ at \in [Caller -> Steps] /\ lock \in Caller \cup {None}
    BY DEF WsTypeOK
  <1>2. (IF step = "idle" THEN "admit" ELSE local[c].kind) \in {"admit", "recover"}
    BY <1>1 DEF Calls
  <1>3. local' = [local EXCEPT ![c] = Fresh(IF step = "idle" THEN "admit" ELSE local[c].kind)]
    BY DEF Leave
  <1>4. local' \in [Caller -> Calls] /\ local'[c].rc = "none"
        /\ \A d \in Caller : d # c => local'[d] = local[d]
    BY <1>1, <1>2, <1>3, CallForgets
  <1> QED
    BY <1>1, <1>4 DEF Leave, Goto

\* The first state.
LEMMA WsStarts == WsInit => WsInv
  BY WorkspaceAssumption
     DEF WsInit, WsInv, WsTypeOK, Final, Steps, Calls, Fresh, GuardInv, PlaceInv, PathInv, InTree, Preparing,
         Ending, ReceiptInv, PreparingHasReceipt, TreeIsAttributed, BoundHasTree, FailedLeavesNoTree

\* Every step of a call keeps the types.
LEMMA WsCallTypes ==
    ASSUME WsTypeOK, NEW c \in Caller, Admit(c) \/ Recover(c) \/ Step(c) \/ Exhaust(c) \/ Failure(c)
    PROVE  WsTypeOK'
  <1>0. /\ task \in Tasks /\ local \in [Caller -> Calls] /\ at \in [Caller -> Steps]
        /\ "idle" \in Steps /\ "start" \in Steps
    BY DEF WsTypeOK, Tasks, Statuses, Steps
  <1>a. task' \in Tasks => (task \in [status : Final \cup {"none", "admitted", "workspace_preparing"},
                                      version : Nat, ec3 : BOOLEAN])'
    BY DEF Tasks, Statuses, Final
  <1>b. {"admitted", "workspace_preparing", "workspace_bound", "failed"} \subseteq Statuses
    BY DEF Statuses, Final
  <1>c. Fault => faults' \in 0 .. MaxFaults
    BY WorkspaceAssumption DEF Fault, WsTypeOK
  <1>d. Conflict(c) => Leave(c, "idle") \/ Leave(c, "start")
    BY DEF Conflict
  <1>1. CASE Admit(c)
    BY <1>0, <1>1, <1>a, TaskReserved, CallForgets DEF Admit, WsTypeOK, Goto, Steps
  <1>2. CASE Recover(c)
    BY <1>0, <1>2, CallForgets DEF Recover, WsTypeOK, Goto, Steps
  <1>3. CASE Start(c)
    BY <1>3 DEF Start, WsTypeOK, Goto, Steps
  <1>4. CASE Exhaust(c)
    BY <1>0, <1>4, CallLeaves DEF Exhaust, WsTypeOK
  <1>5. CASE EnsureReceipt(c)
    <2>1. CASE receipt # "none"
      BY <1>0, <1>5, <2>1, CallReadsReceipt DEF EnsureReceipt, WsTypeOK, Goto, Steps
    <2>2. CASE receipt = "none" /\ task.status = "admitted"
      BY <1>0, <1>5, <1>a, <1>b, <2>2, CallReadsReceipt, StatusSet DEF EnsureReceipt, WsTypeOK, Goto, Steps
    <2>3. CASE receipt = "none" /\ task.status # "admitted"
      BY <1>0, <1>5, <2>3, CallForgets DEF EnsureReceipt, WsTypeOK, Goto, Steps
    <2> QED
      BY <2>1, <2>2, <2>3
  <1>6. CASE AcquireLock(c)
    BY <1>6 DEF AcquireLock, WsTypeOK, Goto, Steps
  <1>7. CASE LockBusy(c)
    BY <1>7 DEF LockBusy, WsTypeOK, Goto, Steps
  <1>8. CASE CheckTask(c)
    BY <1>8 DEF CheckTask, WsTypeOK, Goto, Steps
  <1>9. CASE WriteMarker(c)
    <2>1. CASE marker = "short"
      BY <1>0, <1>9, <2>1, CallLeaves DEF WriteMarker, WsTypeOK
    <2>2. CASE marker # "short"
      BY <1>9, <2>2 DEF WriteMarker, WsTypeOK, Goto, Steps
    <2> QED
      BY <2>1, <2>2
  <1>10. CASE MarkReady(c)
    <2>1. CASE receipt = "planned"
      BY <1>10, <2>1 DEF MarkReady, WsTypeOK, Goto, Steps
    <2>2. CASE receipt # "planned"
      BY <1>0, <1>10, <1>d, <2>2, CallLeaves DEF MarkReady, WsTypeOK
    <2> QED
      BY <2>1, <2>2
  <1>11. CASE PrepareGit(c)
    <2>1. CASE tree \in {"stub", "debris"}
      BY <1>0, <1>11, <2>1, CallLeaves DEF PrepareGit, WsTypeOK
    <2>2. CASE tree \notin {"stub", "debris"}
      BY <1>11, <2>2 DEF PrepareGit, WsTypeOK, Goto, Steps
    <2> QED
      BY <2>1, <2>2
  <1>12. CASE PrepareGitFails(c)
    BY <1>0, <1>12, <1>c, CallLeaves DEF PrepareGitFails, WsTypeOK, Interrupted
  <1>13. CASE StageFolder(c)
    BY <1>13 DEF StageFolder, WsTypeOK, Goto, Steps
  <1>14. CASE StageFolderFails(c)
    BY <1>c, <1>14 DEF StageFolderFails, WsTypeOK, Goto, Steps
  <1>15. CASE RecordWorkspace(c)
    <2>1. task.version \in Nat
      BY <1>0 DEF Tasks
    <2>2. local' = [local EXCEPT ![c].seen = task.version]
      BY <1>15 DEF RecordWorkspace
    <2>3. local' \in [Caller -> Calls]
      BY <1>0, <2>1, <2>2, CallReadsVersion
    <2> QED
      BY <1>15, <2>3 DEF RecordWorkspace, WsTypeOK, Goto, Steps
  <1>16. CASE Bind(c)
    <2>1. CASE task.version = local[c].seen
      BY <1>0, <1>16, <1>a, <1>b, <2>1, StatusSet DEF Bind, WsTypeOK, Goto, Steps
    <2>2. CASE task.version # local[c].seen
      BY <1>0, <1>16, <1>d, <2>2, CallLeaves DEF Bind, WsTypeOK
    <2> QED
      BY <2>1, <2>2
  <1>17. CASE StoreFails(c)
    BY <1>c, <1>17 DEF StoreFails, WsTypeOK, Goto, Steps
  <1>18. CASE Compensate(c)
    BY <1>18 DEF Compensate, WsTypeOK, Goto, Steps
  <1>19. CASE CompensateRefused(c)
    BY <1>0, <1>19, CallLeaves DEF CompensateRefused, WsTypeOK
  <1>20. CASE CompensateFails(c)
    BY <1>0, <1>c, <1>20, CallLeaves DEF CompensateFails, WsTypeOK, HalfRemoved
  <1>21. CASE FailTask(c)
    BY <1>0, <1>21, <1>a, <1>b, StatusSet DEF FailTask, WsTypeOK, Goto, Steps
  <1>22. CASE FailTaskFails(c)
    BY <1>0, <1>c, <1>d, <1>22, CallLeaves DEF FailTaskFails, WsTypeOK
  <1>23. CASE CloseOwn(c)
    BY <1>23 DEF CloseOwn, WsTypeOK, Goto, Steps
  <1>24. CASE Retire(c)
    <2>1. CASE receipt = "none"
      BY <1>0, <1>24, <2>1, CallLeaves DEF Retire, WsTypeOK
    <2>2. CASE receipt # "none"
      BY <1>24, <2>2 DEF Retire, WsTypeOK, Goto, Steps
    <2> QED
      BY <2>1, <2>2
  <1>25. CASE RemoveMarker(c)
    BY <1>0, <1>25, CallLeaves DEF RemoveMarker, WsTypeOK
  <1>26. CASE Unavailable(c)
    BY <1>0, <1>c, <1>26, CallLeaves DEF Unavailable, WsTypeOK
  <1>27. CASE Crash(c)
    BY <1>0, <1>c, <1>27, CallLeaves DEF Crash, WsTypeOK, Interrupted, HalfRemoved
  <1> QED
    BY <1>1, <1>2, <1>3, <1>4, <1>5, <1>6, <1>7, <1>8, <1>9, <1>10, <1>11, <1>12, <1>13, <1>14, <1>15,
       <1>16, <1>17, <1>18, <1>19, <1>20, <1>21, <1>22, <1>23, <1>24, <1>25, <1>26, <1>27
       DEF Step, Failure

\* Every step of a call keeps the rest of the invariant.
LEMMA WsCallKeeps ==
    ASSUME WsInv, NEW c \in Caller, Admit(c) \/ Recover(c) \/ Step(c) \/ Exhaust(c) \/ Failure(c)
    PROVE  /\ GuardInv' /\ (\A d \in Caller : PlaceInv(d))' /\ (\A d \in Caller : PathInv(d))' /\ ReceiptInv'
           /\ PreparingHasReceipt' /\ TreeIsAttributed' /\ BoundHasTree' /\ FailedLeavesNoTree'
  <1>0. /\ WsTypeOK /\ task \in Tasks /\ task.status \in Statuses
        /\ local \in [Caller -> Calls] /\ at \in [Caller -> Steps]
        /\ \A d \in Caller : local[d].rc \in {"none", "planned", "marker_ready"}
        /\ "idle" \in Steps /\ "start" \in Steps
    BY DEF WsInv, WsTypeOK, Tasks, Statuses, Steps, Calls
  <1>b. {"admitted", "workspace_preparing", "workspace_bound", "failed"} \subseteq Statuses
    BY DEF Statuses, Final
  <1>d. Conflict(c) => Leave(c, "idle") \/ Leave(c, "start")
    BY DEF Conflict
  <1>e. \A step \in Steps : Leave(c, step) =>
            /\ at' = [at EXCEPT ![c] = step]
            /\ lock' = IF lock = c THEN None ELSE lock
            /\ local'[c].rc = "none"
            /\ \A d \in Caller : d # c => local'[d] = local[d]
            /\ intake' = intake
    BY <1>0, CallLeaves
  <1>f. receipt \in {"none", "planned", "marker_ready"} /\ marker \in {"none", "short", "valid"}
        /\ tree \in {"absent", "stub", "partial", "complete", "debris"} /\ None \notin Caller
    BY <1>0, WorkspaceAssumption DEF WsTypeOK
  <1> USE <1>0, <1>f DEF WsInv, GuardInv, PlaceInv, PathInv, InTree, Preparing, Ending, ReceiptInv,
          PreparingHasReceipt, TreeIsAttributed, BoundHasTree, FailedLeavesNoTree, Final, Statuses, HashFits, Goto
  <1>1. CASE Admit(c)
    <2>1. task'.status = IF task.status = "none" THEN "admitted" ELSE task.status
      BY <1>1, TaskReserved
    <2>2. local'[c].rc = "none" /\ \A d \in Caller : d # c => local'[d] = local[d]
      BY <1>1, CallForgets DEF Admit
    <2> QED
      BY <1>1, <2>1, <2>2 DEF Admit
  <1>2. CASE Recover(c)
    BY <1>2, CallForgets DEF Recover
  <1>3. CASE Start(c)
    BY <1>3 DEF Start
  <1>4. CASE Exhaust(c)
    BY <1>4, <1>e DEF Exhaust
  <1>5. CASE EnsureReceipt(c)
    <2>1. CASE receipt # "none"
      BY <1>5, <2>1, CallReadsReceipt DEF EnsureReceipt
    <2>2. CASE receipt = "none" /\ task.status = "admitted"
      BY <1>5, <1>b, <2>2, CallReadsReceipt, StatusSet DEF EnsureReceipt
    <2>3. CASE receipt = "none" /\ task.status # "admitted"
      BY <1>5, <2>3, CallForgets DEF EnsureReceipt
    <2> QED
      BY <2>1, <2>2, <2>3
  <1>6. CASE AcquireLock(c)
    BY <1>6 DEF AcquireLock
  <1>7. CASE LockBusy(c)
    BY <1>7 DEF LockBusy
  <1>8. CASE CheckTask(c)
    BY <1>8 DEF CheckTask
  <1>9. CASE WriteMarker(c)
    <2>1. CASE marker = "short"
      BY <1>9, <1>e, <2>1 DEF WriteMarker
    <2>2. CASE marker # "short"
      BY <1>9, <2>2 DEF WriteMarker
    <2> QED
      BY <2>1, <2>2
  <1>10. CASE MarkReady(c)
    <2>1. CASE receipt = "planned"
      BY <1>10, <2>1 DEF MarkReady
    <2>2. CASE receipt # "planned"
      BY <1>10, <1>d, <1>e, <2>2 DEF MarkReady
    <2> QED
      BY <2>1, <2>2
  <1>11. CASE PrepareGit(c)
    <2>1. CASE tree \in {"stub", "debris"}
      BY <1>11, <1>e, <2>1 DEF PrepareGit
    <2>2. CASE tree \notin {"stub", "debris"}
      BY <1>11, <2>2 DEF PrepareGit
    <2> QED
      BY <2>1, <2>2
  <1>12. CASE PrepareGitFails(c)
    BY <1>12, <1>e DEF PrepareGitFails
  <1>13. CASE StageFolder(c)
    BY <1>13 DEF StageFolder
  <1>14. CASE StageFolderFails(c)
    BY <1>14 DEF StageFolderFails
  <1>15. CASE RecordWorkspace(c)
    <2>1. task.version \in Nat
      BY DEF Tasks
    <2>2. local' = [local EXCEPT ![c].seen = task.version]
      BY <1>15 DEF RecordWorkspace
    <2>3. local'[c].rc = local[c].rc /\ \A d \in Caller : d # c => local'[d] = local[d]
      BY <2>1, <2>2, CallReadsVersion
    <2> QED
      BY <1>15, <2>3 DEF RecordWorkspace
  <1>16. CASE Bind(c)
    <2>1. CASE task.version = local[c].seen
      BY <1>16, <1>b, <2>1, StatusSet DEF Bind
    <2>2. CASE task.version # local[c].seen
      BY <1>16, <1>d, <1>e, <2>2 DEF Bind
    <2> QED
      BY <2>1, <2>2
  <1>17. CASE StoreFails(c)
    BY <1>17 DEF StoreFails
  <1>18. CASE Compensate(c)
    BY <1>18 DEF Compensate
  <1>19. CASE CompensateRefused(c)
    BY <1>19, <1>e DEF CompensateRefused
  <1>20. CASE CompensateFails(c)
    BY <1>20, <1>e DEF CompensateFails
  <1>21. CASE FailTask(c)
    BY <1>21, <1>b, StatusSet DEF FailTask
  <1>22. CASE FailTaskFails(c)
    BY <1>22, <1>d, <1>e DEF FailTaskFails
  <1>23. CASE CloseOwn(c)
    BY <1>23 DEF CloseOwn
  <1>24. CASE Retire(c)
    <2>1. CASE receipt = "none"
      BY <1>24, <1>e, <2>1 DEF Retire
    <2>2. CASE receipt # "none"
      BY <1>24, <2>2 DEF Retire
    <2> QED
      BY <2>1, <2>2
  <1>25. CASE RemoveMarker(c)
    BY <1>25, <1>e DEF RemoveMarker
  <1>26. CASE Unavailable(c)
    BY <1>26, <1>e DEF Unavailable
  <1>27. CASE Crash(c)
    BY <1>27, <1>e DEF Crash
  <1> QED
    BY <1>1, <1>2, <1>3, <1>4, <1>5, <1>6, <1>7, <1>8, <1>9, <1>10, <1>11, <1>12, <1>13, <1>14, <1>15,
       <1>16, <1>17, <1>18, <1>19, <1>20, <1>21, <1>22, <1>23, <1>24, <1>25, <1>26, <1>27
       DEF Step, Failure

\* The inductive invariant of a preparation.
THEOREM WsInvariance == WsSpec => []WsInv
  <1>1. WsInv /\ [WsNext]_wvars => WsInv'
    <2> SUFFICES ASSUME WsInv, [WsNext]_wvars PROVE WsInv'
      OBVIOUS
    <2>1. ASSUME NEW c \in Caller, Admit(c) \/ Recover(c) \/ Step(c) \/ Exhaust(c) \/ Failure(c)
          PROVE  WsInv'
      <3>1. WsTypeOK'
        BY <2>1, WsCallTypes DEF WsInv
      <3> QED
        BY <2>1, <3>1, WsCallKeeps DEF WsInv
    <2>2. CASE MarkEc3Required
      <3>1. task \in Tasks
        BY DEF WsInv, WsTypeOK, Tasks, Statuses
      <3>2. task' \in Tasks /\ task'.status = task.status
        BY <2>2, <3>1, TaskMarked
      <3>3. WsTypeOK'
        BY <2>2, <3>2 DEF MarkEc3Required, WsInv, WsTypeOK, Tasks, Statuses, Final
      <3> QED
        BY <2>2, <3>2, <3>3
           DEF MarkEc3Required, WsInv, GuardInv, PlaceInv, PathInv, HashFits, ReceiptInv, PreparingHasReceipt,
               TreeIsAttributed, BoundHasTree, FailedLeavesNoTree
    <2>3. CASE UNCHANGED wvars
      BY <2>3 DEF wvars, WsInv, WsTypeOK, GuardInv, PlaceInv, PathInv, HashFits, ReceiptInv,
                  PreparingHasReceipt, TreeIsAttributed, BoundHasTree, FailedLeavesNoTree
    <2> QED
      BY <2>1, <2>2, <2>3 DEF WsNext
  <1> QED
    BY <1>1, WsStarts, PTL DEF WsSpec

\* Whatever calls interleave and wherever they die, a task in preparation has its
\* receipt, what is on disk is named by receipt and marker, a bound task has the tree
\* its intake pinned, and a failed one has none.
THEOREM WorkspaceSoundness == WsSpec => []WorkspaceIsAttributed
  <1>1. WsInv => WorkspaceIsAttributed
    BY DEF WsInv, WorkspaceIsAttributed
  <1> QED
    BY <1>1, WsInvariance, PTL

\* No recovery, retry or late call touches a task that is bound or failed, its
\* worktree or its workspace rows.
THEOREM FinishedFinal == WsSpec => FinishedIsFinished
  <1>1. WsInv /\ [WsNext]_wvars =>
            [task.status \in Final => task'.status = task.status /\ tree' = tree /\ rows' = rows]_wvars
    <2> SUFFICES ASSUME WsInv, WsNext, task.status \in Final
                 PROVE  task'.status = task.status /\ tree' = tree /\ rows' = rows
      OBVIOUS
    <2>0. task \in Tasks
      BY DEF WsInv, WsTypeOK, Tasks, Statuses
    <2>1. CASE MarkEc3Required
      BY <2>0, <2>1, TaskMarked DEF MarkEc3Required
    <2>2. ASSUME NEW c \in Caller, Admit(c) \/ Recover(c) \/ Step(c) \/ Exhaust(c) \/ Failure(c)
          PROVE  task'.status = task.status /\ tree' = tree /\ rows' = rows
      <3>1. at[c] \notin Preparing /\ task.status \notin {"none", "admitted", "workspace_preparing"}
        BY DEF WsInv, PlaceInv, Preparing, Final
      <3>2. CASE Admit(c)
        BY <2>0, <3>1, <3>2, TaskReserved DEF Admit
      <3>3. CASE EnsureReceipt(c)
        BY <3>1, <3>3 DEF EnsureReceipt
      <3> QED
        BY <2>2, <3>1, <3>2, <3>3
           DEF Preparing, InTree, Step, Failure, Recover, Start, Exhaust, AcquireLock, LockBusy, CheckTask,
               WriteMarker, MarkReady, PrepareGit, PrepareGitFails, StageFolder, StageFolderFails,
               RecordWorkspace, Bind, StoreFails, Compensate, CompensateRefused, CompensateFails, FailTask,
               FailTaskFails, CloseOwn, Retire, RemoveMarker, Unavailable, Crash
    <2> QED
      BY <2>1, <2>2 DEF WsNext
  <1> QED
    BY <1>1, WsInvariance, PTL DEF WsSpec, FinishedIsFinished

=============================================================================
