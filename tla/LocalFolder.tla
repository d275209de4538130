---------------------------- MODULE LocalFolder ----------------------------
(***************************************************************************)
(* Applying a change to an operator's folder, file by file, and undoing it *)
(* (local_folder_source.rs).  Before a file is replaced its content is     *)
(* copied to a rollback directory; after it, a marker there says what was  *)
(* applied.  A failure undoes the files before it, an operator may ask to  *)
(* undo a finished application, and the folder is in use all the while:    *)
(* its files may be edited between any two steps.  The process may die in  *)
(* any state, so what must survive a crash is an invariant.                *)
(***************************************************************************)
EXTENDS Integers

CONSTANTS
    Files,          \* number of changed files, in the order of their paths
    StemsOf         \* functions from files to their path without the extension

ASSUME FolderAssumption ==
    /\ Files \in Nat \ {0}
    /\ \A s \in StemsOf : DOMAIN s = 1 .. Files

VARIABLES
    change,         \* what the approved change does to each file
    stem,           \* the path both markers of a file are derived from
    folder,         \* content of each file in the folder
    backup,         \* content of each file in the rollback directory
    present,        \* stems with an acp-present marker
    applied,        \* file named by the acp-applied marker of a stem, 0 when there is none
    cur,            \* the file in hand
    stopped,        \* the file at which the application failed, 0 when it has not
    pos,            \* where the code is
    touched,        \* files somebody else edited
    raced           \* those edited after the code had looked at them

fvars == <<change, stem, folder, backup, present, applied, cur, stopped, pos, touched, raced>>

File == 1 .. Files

Before(f) == IF change[f] = "add" THEN "none" ELSE "old"
After(f)  == IF change[f] = "delete" THEN "none" ELSE "new"

\* Both manifests were read and compared; the rollback directory is new.
FolderInit ==
    /\ change \in [File -> {"modify", "add", "delete"}]
    /\ stem \in StemsOf
    /\ folder = [f \in File |-> Before(f)]
    /\ backup = [f \in File |-> "none"]
    /\ present = {} /\ applied = [s \in {stem[f] : f \in File} |-> 0]
    /\ cur = 1 /\ stopped = 0 /\ pos = "check"
    /\ touched = {} /\ raced = {}

-----------------------------------------------------------------------------
(* backup_then_replace of the file in hand. *)

\* Undo everything before the file in hand.
UndoEarlier == stopped' = cur /\ cur' = cur - 1 /\ pos' = "undo"

CheckPreimage ==
    /\ pos = "check"
    /\ IF folder[cur] = Before(cur)
       THEN pos' = (IF Before(cur) = "old" THEN "backup" ELSE "replace") /\ UNCHANGED <<cur, stopped>>
       ELSE UndoEarlier
    /\ UNCHANGED <<change, stem, folder, backup, present, applied, touched, raced>>

\* Mutant: the copy is left for later.
BackupLater ==
    /\ pos = "backup"
    /\ pos' = "present"
    /\ UNCHANGED <<change, stem, folder, backup, present, applied, cur, stopped, touched, raced>>

Backup ==
    /\ pos = "backup"
    /\ backup' = [backup EXCEPT ![cur] = folder[cur]]
    /\ pos' = "present"
    /\ UNCHANGED <<change, stem, folder, present, applied, cur, stopped, touched, raced>>

MarkPresent ==
    /\ pos = "present"
    /\ present' = present \cup {stem[cur]}
    /\ pos' = "replace"
    /\ UNCHANGED <<change, stem, folder, backup, applied, cur, stopped, touched, raced>>

\* A staged file is renamed over the target, or the target is removed.
Replace ==
    /\ pos = "replace"
    /\ folder' = [folder EXCEPT ![cur] = After(cur)]
    /\ pos' = "marker"
    /\ UNCHANGED <<change, stem, backup, present, applied, cur, stopped, touched, raced>>

MarkApplied ==
    /\ pos = "marker"
    /\ applied' = [applied EXCEPT ![stem[cur]] = cur]
    /\ IF cur = Files THEN pos' = "done" /\ UNCHANGED cur
                      ELSE pos' = "check" /\ cur' = cur + 1
    /\ UNCHANGED <<change, stem, folder, backup, present, stopped, touched, raced>>

\* A copy or a removal fails before the target is changed.
StepFails ==
    /\ pos \in {"check", "backup", "present", "replace"}
    /\ UndoEarlier
    /\ UNCHANGED <<change, stem, folder, backup, present, applied, touched, raced>>

\* The marker cannot be written: the target is put back, where that works.  A
\* directory that cannot be made for it leaves the target as it is.
MarkerFails ==
    /\ pos = "marker"
    /\ folder' \in {folder, [folder EXCEPT ![cur] = IF Before(cur) = "old" THEN backup[cur] ELSE "none"]}
    /\ UndoEarlier
    /\ UNCHANGED <<change, stem, backup, present, applied, touched, raced>>

-----------------------------------------------------------------------------
(* rollback_local_folder_changes, last file first: after a failure, and on   *)
(* request for a finished application.                                       *)

AskRollback ==
    /\ pos = "done"
    /\ pos' = "undo" /\ UNCHANGED cur
    /\ UNCHANGED <<change, stem, folder, backup, present, applied, stopped, touched, raced>>

\* Mutant: whatever is in the folder is taken for what was applied.
CheckPostimageTrusting ==
    /\ pos = "undo" /\ cur > 0
    /\ pos' = IF applied[stem[cur]] = cur THEN "restore" ELSE "unconfirmed"
    /\ UNCHANGED <<change, stem, folder, backup, present, applied, cur, stopped, touched, raced>>

\* The marker must name the file, and the folder still hold what was applied.
CheckPostimage ==
    /\ pos = "undo" /\ cur > 0
    /\ pos' = IF applied[stem[cur]] = cur /\ folder[cur] = After(cur) THEN "restore" ELSE "unconfirmed"
    /\ UNCHANGED <<change, stem, folder, backup, present, applied, cur, stopped, touched, raced>>

\* A file that was there comes back from its copy, another one is removed.
Restore ==
    /\ pos = "restore"
    /\ IF stem[cur] \in present /\ backup[cur] = "none"
       THEN pos' = "unconfirmed" /\ UNCHANGED <<cur, folder>>
       ELSE /\ folder' = [folder EXCEPT ![cur] = IF stem[cur] \in present THEN backup[cur] ELSE "none"]
            /\ cur' = cur - 1 /\ pos' = "undo"
    /\ UNCHANGED <<change, stem, backup, present, applied, stopped, touched, raced>>

RestoreFails ==
    /\ pos \in {"undo", "restore"} /\ cur > 0
    /\ pos' = "unconfirmed"
    /\ UNCHANGED <<change, stem, folder, backup, present, applied, cur, stopped, touched, raced>>

\* Everything asked for has been undone.
Undone ==
    /\ pos = "undo" /\ cur = 0
    /\ pos' = "undone"
    /\ UNCHANGED <<change, stem, folder, backup, present, applied, cur, stopped, touched, raced>>

\* The folder's owner edits a file.
EditFile(f) ==
    /\ folder[f] # "edited"
    /\ folder' = [folder EXCEPT ![f] = "edited"]
    /\ touched' = touched \cup {f}
    /\ raced' = IF f = cur /\ pos \in {"backup", "present", "replace", "marker", "restore"}
                THEN raced \cup {f} ELSE raced
    /\ UNCHANGED <<change, stem, backup, present, applied, cur, stopped, pos>>

FolderNext ==
    \/ CheckPreimage \/ Backup \/ MarkPresent \/ Replace \/ MarkApplied \/ StepFails \/ MarkerFails
    \/ AskRollback \/ CheckPostimage \/ Restore \/ RestoreFails \/ Undone
    \/ \E f \in File : EditFile(f)

FolderSpec == FolderInit /\ [][FolderNext]_fvars

-----------------------------------------------------------------------------
(* Properties. *)

\* Wherever the process dies, the content a file had is in the folder or in
\* the rollback directory, unless its owner replaced it.
PreimageKept ==
    \A f \in File \ touched : Before(f) = "old" => folder[f] = "old" \/ backup[f] = "old"

\* Neither applying nor undoing loses an edit, but for one made to a file
\* between the look at it and the end of the work on it.
EditsSurvive ==
    [][\A f \in File : folder[f] = "edited" /\ folder'[f] # "edited" => f \in raced]_fvars

\* A rollback that reports success has restored what it was asked to restore:
\* every file after a finished application, and after a failure every file but
\* the one that failed, which may have been left applied.
UndoneIsRestored ==
    pos = "undone" => \A f \in File \ (touched \cup {stopped}) : folder[f] = Before(f)

\* A folder can be put back: the old contents are kept until then, and are what an
\* undone change leaves.
FolderIsSound == PreimageKept /\ UndoneIsRestored
=============================================================================
