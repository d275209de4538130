----------------------------- MODULE MCProduct -----------------------------
(* A product task from admission to output: a behaviour is one of preparing  *)
(* its workspace, executing it under a delegation, calling a provider for it *)
(* through the budget gateway, delivering its output, and changing a folder. *)
EXTENDS ProductWorkspace, DelegatedAttempt, BudgetGateway, ProductOutput, LocalFolder

CONSTANTS c1, c2, p1, p2, p3

\* A git worktree with and without a pinned content hash, and a folder.
EveryIntake == [mode : {"git_worktree"}, pinned : BOOLEAN] \cup [mode : {"local_folder"}, pinned : {TRUE}]
EveryIntent == {"draft_pr", "apply_local_changes", "artifact_only"}

\* All stems differ, or two files share theirs (Cargo.lock and Cargo.toml).
SomeStems == {<<1, 2>>, <<1, 1>>}

VARIABLE part

pvars == <<wvars, avars, gvars, ovars, fvars, part>>

WsParked == WsInit /\ intake = CHOOSE i \in Intakes : TRUE
OutParked == OutInit /\ intent = "artifact_only"
GatewayParked == GatewayInit /\ host = "launcher" /\ route = "api_key"
FolderParked ==
    FolderInit /\ change = [f \in File |-> "add"] /\ stem = CHOOSE s \in StemsOf : TRUE

ProductInit ==
    \/ /\ part = "workspace"
       /\ WsInit /\ AttemptInit /\ GatewayParked /\ OutParked /\ FolderParked
    \/ /\ part = "attempt"
       /\ AttemptInit /\ WsParked /\ GatewayParked /\ OutParked /\ FolderParked
    \/ /\ part = "gateway"
       /\ GatewayInit /\ WsParked /\ AttemptInit /\ OutParked /\ FolderParked
    \/ /\ part = "output"
       /\ OutInit /\ WsParked /\ AttemptInit /\ GatewayParked /\ FolderParked
    \/ /\ part = "folder"
       /\ FolderInit /\ WsParked /\ AttemptInit /\ GatewayParked /\ OutParked

ProductNext ==
    \/ part = "workspace" /\ WsNext /\ UNCHANGED <<avars, gvars, ovars, fvars, part>>
    \/ part = "attempt" /\ AttemptNext /\ UNCHANGED <<wvars, gvars, ovars, fvars, part>>
    \/ part = "gateway" /\ GatewayNext /\ UNCHANGED <<wvars, avars, ovars, fvars, part>>
    \/ part = "output" /\ OutNext /\ UNCHANGED <<wvars, avars, gvars, fvars, part>>
    \/ part = "folder" /\ FolderNext /\ UNCHANGED <<wvars, avars, gvars, ovars, part>>

\* The fairness of each part (WsFairness, AttemptFairness, OutFairness), asked of
\* the part that runs; a parked part takes no step anyway.
ProductFairness ==
    /\ \A c \in Caller : WF_wvars(part = "workspace" /\ Step(c)) /\ WF_wvars(part = "workspace" /\ Exhaust(c))
    /\ SF_wvars(part = "workspace" /\ \E c \in Caller : Recover(c) /\ task.status \notin Final)
    /\ \A c \in Closer : WF_avars(part = "attempt" /\ CloserStep(c))
    /\ WF_avars(part = "attempt" /\ \E c \in Closer : CloseFailure(c) \/ CloseSuccess(c))
    /\ \A c \in Operator : WF_ovars(part = "output" /\ CallStep(c))
    /\ WF_ovars(part = "output" /\ LeaseExpires)
    /\ SF_ovars(part = "output" /\ operation.state # "none" /\ \E c \in Operator : Output(c))

ProductSpec == ProductInit /\ [][ProductNext]_pvars /\ ProductFairness

\* A task's preparation and its output each end once: no retry, recovery or late call
\* reopens what has ended.
OutcomesAreFinal == FinishedIsFinished /\ OutcomeIsFinal
=============================================================================
