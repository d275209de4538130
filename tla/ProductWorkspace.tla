-------------------------- MODULE ProductWorkspace --------------------------
(***************************************************************************)
(* Preparing the workspace of one product task (storage/.../product_tasks).*)
(* Any number of callers admit the same intake or recover the task at the  *)
(* same time, in one process or in several, and any of them may die.  The  *)
(* steps are transactions and file operations: the task becomes            *)
(* workspace_preparing together with a receipt of the path it will use, a  *)
(* file lock is tried, a marker file is written and noted in the receipt,  *)
(* git adds the worktree (or the source folder is copied), a supervised    *)
(* workspace row is recorded, and the task is bound.  A preparation that   *)
(* fails with a known outcome removes the worktree and fails the task; one *)
(* whose outcome is unknown leaves everything for a later recovery.        *)
(***************************************************************************)
EXTENDS Integers

CONSTANTS
    Caller,         \* concurrent calls of admit_product_task / recover_product_task_workspace
    Intakes,        \* [mode, pinned]: the intake's workspace mode, and does it pin the content
    MaxFaults,      \* bound: crashes and failing calls
    None            \* nobody holds the lock

ASSUME WorkspaceAssumption ==
    /\ Intakes \subseteq [mode : {"git_worktree", "local_folder"}, pinned : BOOLEAN]
    /\ MaxFaults \in Nat
    /\ None \notin Caller

VARIABLES
    intake,         \* the intake the task was admitted with
    task,           \* product_tasks row: status, version, marked for EC3
    receipt,        \* product_task_workspace_preparations row and its marker_state
    marker,         \* the marker file
    tree,           \* the receipt's path and its registration with the target repository
    rows,           \* supervised workspaces recorded for the provisional run
    lock,           \* holder of the preparation guard
    at,             \* where each call is
    local,          \* each call: kind, receipt state and task version it has read
    faults          \* crashes and failures so far

wvars == <<intake, task, receipt, marker, tree, rows, lock, at, local, faults>>

\* The two outcomes of a preparation; every later status counts as bound.
Final == {"workspace_bound", "failed"}

Steps == {"idle", "start", "ensure", "lock", "check", "marker", "ready", "tree", "record",
          "bind", "compensate", "fail", "close", "retire", "unmark"}

Calls == [kind : {"admit", "recover"}, rc : {"none", "planned", "marker_ready"}, seen : Nat]

\* A call that has read nothing.
Fresh(kind) == [kind |-> kind, rc |-> "none", seen |-> 0]

WsInit ==
    /\ intake \in Intakes
    /\ task = [status |-> "none", version |-> 0, ec3 |-> FALSE]
    /\ receipt = "none" /\ marker = "none" /\ tree = "absent" /\ rows = 0
    /\ lock = None
    /\ at = [c \in Caller |-> "idle"]
    /\ local = [c \in Caller |-> Fresh("admit")]
    /\ faults = 0

-----------------------------------------------------------------------------
Goto(c, step) == at' = [at EXCEPT ![c] = step]

\* The guard and what was read are dropped with the function that took them.
Leave(c, step) ==
    /\ Goto(c, step)
    /\ lock' = IF lock = c THEN None ELSE lock
    /\ local' = [local EXCEPT ![c] = Fresh(IF step = "idle" THEN "admit" ELSE @.kind)]
    /\ UNCHANGED intake

\* An error the caller's loop retries: admission re-reads the task, recovery
\* retries only when the guard is busy.
Conflict(c) == Leave(c, IF local[c].kind = "admit" THEN "start" ELSE "idle")

Fault == faults < MaxFaults /\ faults' = faults + 1

SetStatus(s) == task' = [task EXCEPT !.status = s, !.version = @ + 1]

-----------------------------------------------------------------------------
(* Entering. *)

\* admit_product_task: reserve_product_task inserts the task or finds it.
Admit(c) ==
    /\ at[c] = "idle"
    /\ task' = IF task.status = "none" THEN [task EXCEPT !.status = "admitted", !.version = 1]
                                       ELSE task
    /\ local' = [local EXCEPT ![c] = Fresh("admit")]
    /\ Goto(c, "start")
    /\ UNCHANGED <<intake, receipt, marker, tree, rows, lock, faults>>

\* recover_product_task_workspace.
Recover(c) ==
    /\ at[c] = "idle" /\ task.status # "none"
    /\ local' = [local EXCEPT ![c] = Fresh("recover")]
    /\ Goto(c, "start")
    /\ UNCHANGED <<intake, task, receipt, marker, tree, rows, lock, faults>>

\* Mutant: recovery, too, waits for the owner.
StartWaits(c) ==
    /\ at[c] = "start"
    /\ task.status # "workspace_preparing"
    /\ Goto(c, IF task.status \in Final THEN "retire" ELSE "ensure")
    /\ UNCHANGED <<intake, task, receipt, marker, tree, rows, lock, local, faults>>

\* One round of either loop.  An admission that finds the task in preparation
\* waits for its owner; recovery enters.
Start(c) ==
    /\ at[c] = "start"
    /\ task.status = "workspace_preparing" => local[c].kind = "recover"
    /\ Goto(c, IF task.status \in Final THEN "retire" ELSE "ensure")
    /\ UNCHANGED <<intake, task, receipt, marker, tree, rows, lock, local, faults>>

\* An admission reaches its retry limit while another owner prepares.
Exhaust(c) ==
    /\ at[c] = "start" /\ local[c].kind = "admit" /\ task.status = "workspace_preparing"
    /\ Leave(c, "idle")
    /\ UNCHANGED <<task, receipt, marker, tree, rows, faults>>

\* reserve_product_task for an EC3 admission of a task that was admitted
\* without: a version of its own, in whatever status the task is.
MarkEc3Required ==
    /\ task.status # "none" /\ ~ task.ec3
    /\ task' = [task EXCEPT !.ec3 = TRUE, !.version = @ + 1]
    /\ UNCHANGED <<intake, receipt, marker, tree, rows, lock, at, local, faults>>

\* ensure_product_task_workspace_preparation_receipt: an existing receipt is
\* returned whatever the status; otherwise status and receipt are one
\* transaction.  Without either, the owner has finished and retired it.
EnsureReceipt(c) ==
    /\ at[c] = "ensure"
    /\ IF receipt # "none"
       THEN /\ local' = [local EXCEPT ![c].rc = receipt]
            /\ Goto(c, "lock")
            /\ UNCHANGED <<task, receipt>>
       ELSE IF task.status = "admitted"
       THEN /\ SetStatus("workspace_preparing")
            /\ receipt' = "planned"
            /\ local' = [local EXCEPT ![c].rc = "planned"]
            /\ Goto(c, "lock")
       ELSE Goto(c, "idle") /\ local' = [local EXCEPT ![c] = Fresh("admit")] /\ UNCHANGED <<task, receipt>>
    /\ UNCHANGED <<intake, marker, tree, rows, lock, faults>>

-----------------------------------------------------------------------------
(* The guard. *)

AcquireLock(c) ==
    /\ at[c] = "lock" /\ lock = None
    /\ lock' = c
    /\ Goto(c, "check")
    /\ UNCHANGED <<intake, task, receipt, marker, tree, rows, local, faults>>

\* The guard is only tried: the call starts over or, at its limit, gives up.
LockBusy(c) ==
    /\ at[c] = "lock" /\ lock # None
    /\ \E step \in {"start", "idle"} : Goto(c, step)
    /\ UNCHANGED <<intake, task, receipt, marker, tree, rows, lock, local, faults>>

\* The task is read again under the guard: a finished one is left alone.
CheckTask(c) ==
    /\ at[c] = "check"
    /\ Goto(c, IF task.status \in Final THEN "retire" ELSE "marker")
    /\ UNCHANGED <<intake, task, receipt, marker, tree, rows, lock, local, faults>>

\* Mutant: the marker is only made for a receipt that is already noted ready.
WriteMarkerLate(c) ==
    /\ at[c] = "marker"
    /\ Leave(c, "tree") /\ UNCHANGED <<task, receipt, marker, tree, rows, faults>>

\* validate_product_task_workspace_preparation_marker: created for a planned
\* receipt, otherwise it must be there and complete.
WriteMarker(c) ==
    /\ at[c] = "marker"
    /\ \/ /\ marker = "none" /\ local[c].rc = "planned"
          /\ marker' = "valid" /\ Goto(c, "ready")
          /\ UNCHANGED <<intake, local, lock>>
       \/ /\ marker = "valid"
          /\ Goto(c, IF local[c].rc = "planned" THEN "ready" ELSE "tree")
          /\ UNCHANGED <<intake, local, lock, marker>>
       \/ marker = "short" /\ Leave(c, "idle") /\ UNCHANGED marker
    /\ UNCHANGED <<task, receipt, tree, rows, faults>>

\* mark_product_task_workspace_preparation_marker_ready compares the receipt
\* it was given: another owner may have got this far and died since.
MarkReady(c) ==
    /\ at[c] = "ready"
    /\ IF receipt = "planned"
       THEN receipt' = "marker_ready" /\ Goto(c, "tree") /\ UNCHANGED <<intake, local, lock>>
       ELSE Conflict(c) /\ UNCHANGED receipt
    /\ UNCHANGED <<task, marker, tree, rows, faults>>

-----------------------------------------------------------------------------
(* The worktree.  stub: registered, no directory; partial: registered, HEAD  *)
(* set, checkout unfinished; debris: a directory the repository does not     *)
(* know.  A copied folder is absent, partial or complete.                    *)

Git == intake.mode = "git_worktree"

\* What an interrupted or failed creation may leave behind.
Interrupted == IF Git THEN {"absent", "stub", "partial", "complete", "debris"}
                      ELSE {"absent", "partial", "complete"}

\* What an interrupted or failed removal may leave behind.
HalfRemoved == IF Git THEN {tree, "absent", "debris"} ELSE {tree, "absent", "partial"}

\* The content hash equals intake.source_tree_hash, where the intake has one.
HashFits(t) == intake.pinned => t = "complete"

\* prepare_product_task_worktree_locked: an existing path is inspected, which
\* asks for its registration and HEAD; git worktree add refuses a stub.
PrepareGit(c) ==
    /\ at[c] = "tree" /\ Git
    /\ \/ /\ tree \in {"partial", "complete"}
          /\ Goto(c, IF HashFits(tree) THEN "record" ELSE "compensate")
          /\ UNCHANGED <<intake, local, lock, tree>>
       \/ /\ tree = "absent"
          /\ tree' = "complete" /\ Goto(c, "record")
          /\ UNCHANGED <<intake, local, lock>>
       \/ tree \in {"stub", "debris"} /\ Leave(c, "idle") /\ UNCHANGED tree
    /\ UNCHANGED <<task, receipt, marker, rows, faults>>

\* git worktree add fails or times out: the outcome is unknown.
PrepareGitFails(c) ==
    /\ at[c] = "tree" /\ Git /\ tree = "absent"
    /\ Fault
    /\ tree' \in Interrupted
    /\ Leave(c, "idle")
    /\ UNCHANGED <<task, receipt, marker, rows>>

\* prepare_product_task_local_folder_locked: stage_local_folder refuses an
\* existing path, and cleans up after itself when the copy fails.
StageFolder(c) ==
    /\ at[c] = "tree" /\ ~ Git
    /\ IF tree = "absent"
       THEN tree' = "complete" /\ Goto(c, "record")
       ELSE Goto(c, "compensate") /\ UNCHANGED tree
    /\ UNCHANGED <<intake, task, receipt, marker, rows, lock, local, faults>>

StageFolderFails(c) ==
    /\ at[c] = "tree" /\ ~ Git /\ tree = "absent"
    /\ Fault
    /\ tree' \in {"absent", "partial"}
    /\ Goto(c, "compensate")
    /\ UNCHANGED <<intake, task, receipt, marker, rows, lock, local>>

\* record_supervised_patch_workspace inserts one more row; the task's version
\* is read for the transition.
RecordWorkspace(c) ==
    /\ at[c] = "record"
    /\ rows' = rows + 1
    /\ local' = [local EXCEPT ![c].seen = task.version]
    /\ Goto(c, "bind")
    /\ UNCHANGED <<intake, task, receipt, marker, tree, lock, faults>>

\* transition_product_task to workspace_bound.
Bind(c) ==
    /\ at[c] = "bind"
    /\ IF task.version = local[c].seen
       THEN SetStatus("workspace_bound") /\ Goto(c, "close") /\ UNCHANGED <<intake, local, lock>>
       ELSE Conflict(c) /\ UNCHANGED task
    /\ UNCHANGED <<receipt, marker, tree, rows, faults>>

\* The row or the transition cannot be written.
StoreFails(c) ==
    /\ at[c] \in {"record", "bind"}
    /\ Fault
    /\ Goto(c, "compensate")
    /\ UNCHANGED <<intake, task, receipt, marker, tree, rows, lock, local>>

-----------------------------------------------------------------------------
(* fail_product_task_and_compensate, still under the guard. *)

CanCompensate == receipt # "none" /\ marker = "valid" /\ rows <= 1

\* remove_git_worktree_and_verify_absent removes what is registered and asks
\* that nothing is left; a copied folder is deleted.
Compensate(c) ==
    /\ at[c] = "compensate"
    /\ CanCompensate /\ (Git => tree # "debris")
    /\ tree' = "absent"
    /\ Goto(c, "fail")
    /\ UNCHANGED <<intake, task, receipt, marker, rows, lock, local, faults>>

\* Reconciliation required: a check fails, or git refuses to remove the
\* worktree of an unfinished add, which is still locked.
CompensateRefused(c) ==
    /\ at[c] = "compensate"
    /\ ~ CanCompensate \/ (Git /\ tree \in {"partial", "debris"})
    /\ Leave(c, "idle")
    /\ UNCHANGED <<task, receipt, marker, tree, rows, faults>>

CompensateFails(c) ==
    /\ at[c] = "compensate" /\ CanCompensate
    /\ Fault
    /\ tree' \in HalfRemoved
    /\ Leave(c, "idle")
    /\ UNCHANGED <<task, receipt, marker, rows>>

FailTask(c) ==
    /\ at[c] = "fail"
    /\ SetStatus("failed")
    /\ Goto(c, "close")
    /\ UNCHANGED <<intake, receipt, marker, tree, rows, lock, local, faults>>

\* The version moved between the read and the update, or the store fails.
FailTaskFails(c) ==
    /\ at[c] = "fail"
    /\ Fault
    /\ Conflict(c)
    /\ UNCHANGED <<task, receipt, marker, tree, rows>>

-----------------------------------------------------------------------------
(* Retiring the receipt: by the call that finished, and by every call that   *)
(* finds the task finished.  The row goes first, then the marker.            *)

CloseOwn(c) ==
    /\ at[c] = "close"
    /\ receipt' = "none"
    /\ Goto(c, "unmark")
    /\ UNCHANGED <<intake, task, marker, tree, rows, lock, local, faults>>

Retire(c) ==
    /\ at[c] = "retire"
    /\ receipt' = "none"
    /\ IF receipt = "none" THEN Leave(c, "idle")
                           ELSE Goto(c, "unmark") /\ UNCHANGED <<intake, local, lock>>
    /\ UNCHANGED <<task, marker, tree, rows, faults>>

RemoveMarker(c) ==
    /\ at[c] = "unmark"
    /\ marker' = IF marker = "valid" THEN "none" ELSE marker
    /\ Leave(c, "idle")
    /\ UNCHANGED <<task, receipt, tree, rows, faults>>

-----------------------------------------------------------------------------
(* Faults. *)

\* A prerequisite of the call (configuration, target, root) is unavailable.
Unavailable(c) ==
    /\ at[c] \in {"start", "ensure", "lock", "marker", "compensate"} \/ (at[c] = "tree" /\ Git)
    /\ Fault
    /\ Leave(c, "idle")
    /\ UNCHANGED <<task, receipt, marker, tree, rows>>

\* The caller dies: the guard is released, a file operation is left half done.
Crash(c) ==
    /\ at[c] # "idle"
    /\ Fault
    /\ marker' \in IF at[c] = "marker" /\ marker = "none" THEN {"none", "short", "valid"} ELSE {marker}
    /\ tree' \in CASE at[c] = "tree" /\ tree = "absent" -> Interrupted
                   [] at[c] = "compensate" /\ CanCompensate -> HalfRemoved
                   [] OTHER -> {tree}
    /\ Leave(c, "idle")
    /\ UNCHANGED <<task, receipt, rows>>

Step(c) ==
    \/ Start(c) \/ EnsureReceipt(c) \/ AcquireLock(c) \/ LockBusy(c) \/ CheckTask(c)
    \/ WriteMarker(c) \/ MarkReady(c) \/ PrepareGit(c) \/ StageFolder(c) \/ RecordWorkspace(c)
    \/ Bind(c) \/ Compensate(c) \/ CompensateRefused(c) \/ FailTask(c)
    \/ CloseOwn(c) \/ Retire(c) \/ RemoveMarker(c)

Failure(c) ==
    \/ PrepareGitFails(c) \/ StageFolderFails(c) \/ StoreFails(c) \/ CompensateFails(c)
    \/ FailTaskFails(c) \/ Unavailable(c) \/ Crash(c)

WsNext ==
    \/ \E c \in Caller : Admit(c) \/ Recover(c) \/ Step(c) \/ Exhaust(c) \/ Failure(c)
    \/ MarkEc3Required

WsSpec == WsInit /\ [][WsNext]_wvars

\* A call that was made goes on, its loop is bounded, and a task that was left
\* behind is recovered again.
WsFairness ==
    /\ \A c \in Caller : WF_wvars(Step(c)) /\ WF_wvars(Exhaust(c))
    /\ SF_wvars(\E c \in Caller : Recover(c) /\ task.status \notin Final)

-----------------------------------------------------------------------------
(* Properties. *)

\* The rows, the files and the calls are what the code stores and compares.
WsTypeOK ==
    /\ intake \in Intakes
    /\ task \in [status : Final \cup {"none", "admitted", "workspace_preparing"},
                 version : Nat, ec3 : BOOLEAN]
    /\ receipt \in {"none", "planned", "marker_ready"}
    /\ marker \in {"none", "short", "valid"}
    /\ tree \in {"absent", "stub", "partial", "complete", "debris"}
    /\ rows \in Nat
    /\ lock \in Caller \cup {None}
    /\ at \in [Caller -> Steps]
    /\ local \in [Caller -> Calls]
    /\ faults \in 0 .. MaxFaults

\* A task in preparation has its receipt: observe_sqlite_workspace_preparation
\* calls one without "legacy", and no recovery could go on.
PreparingHasReceipt == task.status = "workspace_preparing" => receipt # "none"

\* Nothing is created at the path before the receipt and the marker that name
\* it are there, and they stay as long as the outcome is open: what a crash
\* leaves can always be attributed to the task.
TreeIsAttributed ==
    (tree # "absent" /\ task.status \notin Final) => receipt = "marker_ready" /\ marker = "valid"

\* A bound task has the worktree it is bound to, with the content the intake
\* pinned, whoever bound it after whatever crashes.
BoundHasTree == task.status = "workspace_bound" => tree \in {"partial", "complete"} /\ (intake.pinned => tree = "complete")

\* A failed preparation leaves no worktree and no registration behind.
FailedLeavesNoTree == task.status = "failed" => tree = "absent"

\* A finished preparation is finished: calls that waited for the guard, or hold
\* a receipt they read before, touch neither the task nor the worktree.
FinishedIsFinished ==
    [][task.status \in Final =>
          /\ task'.status = task.status /\ tree' = tree /\ rows' = rows]_wvars

\* What recovery cannot decide is left to an operator: a marker that was cut
\* short, a path and a registration that do not agree, an unfinished checkout
\* that git will not remove, a copy with more than one workspace row.
NeedsOperator ==
    \/ marker = "short" \/ tree \in {"stub", "debris"}
    \/ Git /\ tree = "partial" /\ intake.pinned
    \/ ~ Git /\ rows > 1

\* With recoveries that keep coming, a task that was admitted is bound, or
\* failed, or in one of the states only an operator can decide.
PreparationEnds == (task.status # "none") ~> (task.status \in Final \/ NeedsOperator)

\* A crash at any step of a preparation leaves records from which the tree on disk, or
\* its absence, can be told.
WorkspaceIsAttributed ==
    /\ WsTypeOK /\ PreparingHasReceipt /\ TreeIsAttributed
    /\ BoundHasTree /\ FailedLeavesNoTree
=============================================================================
