------------------------------ MODULE RunQueue ------------------------------
(***************************************************************************)
(* Which runs a turn of the scheduler ticks (scheduler/runtime.rs), and    *)
(* the one column, pause_reason, in which operators, the scheduler's       *)
(* backpressure, budget pauses and the supervised-patch owner all say that *)
(* a run is not to be ticked.                                              *)
(*                                                                         *)
(* A turn reads the active runs once, pauses those that are overdue when   *)
(* the load is high, and ticks the first of the list it has read; every    *)
(* write is a transaction of its own, so that list may be old.  A tick is  *)
(* a lease, an execution and a settlement, and only the lease asks who     *)
(* owns the run.  Whether the load is above its threshold, and whether the *)
(* executor pool has a slot, is left open.                                 *)
(***************************************************************************)
EXTENDS Naturals, Sequences, FiniteSets

CONSTANTS
    Poller,         \* the scheduler's worker threads
    Runs,           \* number of runs, in the order of their creation
    Artifact,       \* anomaly findings a budget pause may be based on
    ScopeOf,        \* the run each of them is about
    Priority,       \* priorities, the smallest first
    TurnLimit,      \* tick_limit
    Work,           \* nodes a run has to execute
    MaxRequests     \* bound: requests of operators

Run == 1 .. Runs

ASSUME QueueAssumption ==
    /\ Runs \in Nat /\ IsFiniteSet(Poller)
    /\ ScopeOf \in [Artifact -> Run] /\ Artifact \cap {"none", "hold", "backpressure", "api"} = {}
    /\ Priority \subseteq Nat /\ Priority # {}
    /\ TurnLimit \in Nat \ {0} /\ Work \in Nat /\ MaxRequests \in Nat

VARIABLES
    prioritized,    \* queue_enabled, with backpressure
    open,           \* runs in status created or running
    work,           \* nodes left to execute
    waits,          \* those of them that wait for an approval
    started,        \* started_at: none, or less or more than five minutes ago
    priority,       \* workflow_runs.priority
    reason,         \* workflow_runs.pause_reason
    decided,        \* artifacts with a decision, in the order of created_at
    standing,       \* those whose decision is in state paused
    turn,           \* each poller: the runs it will tick and, before that, pause, and its tick
    resume,         \* the operator's resume under way: place, run and reason it has read
    late,           \* ticks of a run begun since it was paused
    requests        \* requests of operators so far

qvars == <<prioritized, open, work, waits, started, priority, reason, decided, standing, turn, resume,
           late, requests>>

NoTurn   == [list |-> << >>, todo |-> << >>, at |-> "free", run |-> 0]
NoResume == [at |-> "idle", run |-> 0, seen |-> "none"]

QueueInit ==
    /\ prioritized \in BOOLEAN
    /\ work \in [Run -> {0, Work}] /\ open = {r \in Run : work[r] > 0}
    /\ waits = [r \in Run |-> 0] /\ started = [r \in Run |-> "no"]
    /\ priority = [r \in Run |-> CHOOSE p \in Priority : TRUE]
    /\ reason = [r \in Run |-> "none"]
    /\ decided = << >> /\ standing = {}
    /\ turn = [w \in Poller |-> NoTurn] /\ resume = NoResume
    /\ late = [r \in Run |-> 0] /\ requests = 0

-----------------------------------------------------------------------------
(* The writers of pause_reason. *)

OpenDecisions(r) == {a \in standing : ScopeOf[a] = r}

SetReason(r, x) ==
    /\ reason' = [reason EXCEPT ![r] = x]
    /\ late' = [late EXCEPT ![r] = IF x = "none" THEN 0 ELSE @]

\* Mutant: nobody looks for an open decision.
PausableByOwner(r) == reason[r] # "api"

\* update_run_pause_reason: "active budget auto-pause requires explicit audited
\* recovery", and a run of the API owner is left alone.
Pausable(r) == reason[r] # "api" /\ OpenDecisions(r) = {}

Request == requests < MaxRequests /\ requests' = requests + 1

\* An operator pauses a run or clears its pause, whoever paused it.
SetPause(r, x) ==
    /\ Pausable(r) /\ Request
    /\ SetReason(r, x)
    /\ UNCHANGED <<prioritized, open, work, waits, started, priority, decided, standing, turn, resume>>

\* A finding is applied once, over any other pause but the API owner's.
ApplyBudgetPause(a) ==
    /\ \A i \in 1 .. Len(decided) : decided[i] # a
    /\ reason[ScopeOf[a]] # "api"
    /\ decided' = Append(decided, a) /\ standing' = standing \cup {a}
    /\ SetReason(ScopeOf[a], a)
    /\ UNCHANGED <<prioritized, open, work, waits, started, priority, turn, resume, requests>>

\* Of two artifacts the one decided later.
Later(a, b) ==
    \E i, j \in 1 .. Len(decided) : decided[i] = a /\ decided[j] = b /\ i > j

\* The latest open decision, and only while it is the reason the run is paused.
RecoverBudgetPause(r) ==
    \E a \in OpenDecisions(r) :
        /\ \A b \in OpenDecisions(r) \ {a} : Later(a, b)
        /\ reason[r] = a
        /\ SetReason(r, "none") /\ standing' = standing \ {a}
        /\ UNCHANGED <<prioritized, open, work, waits, started, priority, decided, turn, resume, requests>>

\* A supervised patch takes a run over that nothing pauses.
Adopt(r) ==
    /\ reason[r] = "none"
    /\ SetReason(r, "api")
    /\ UNCHANGED <<prioritized, open, work, waits, started, priority, decided, standing, turn, resume, requests>>

(* The operator's decision to resume: the reason is read, cleared, and the    *)
(* run resumed, or the reason that was read is put back.                      *)

ReadPause(r) ==
    /\ resume.at = "idle" /\ reason[r] # "none" /\ reason[r] \notin Artifact /\ Request
    /\ resume' = [at |-> "clear", run |-> r, seen |-> reason[r]]
    /\ UNCHANGED <<prioritized, open, work, waits, started, priority, reason, decided, standing, turn, late>>

ClearPause ==
    /\ resume.at = "clear"
    /\ IF Pausable(resume.run)
       THEN SetReason(resume.run, "none") /\ resume' = [resume EXCEPT !.at = "resume"]
       ELSE resume' = NoResume /\ UNCHANGED <<reason, late>>
    /\ UNCHANGED <<prioritized, open, work, waits, started, priority, decided, standing, turn, requests>>

\* update_workflow_run_status_locked to "running": COALESCE(started_at, now).
Started(r) == [started EXCEPT ![r] = IF @ = "no" THEN "recent" ELSE @]

\* request_workflow_run_resume, which the API owner or the store may refuse; a
\* run that was terminal runs again.
RequestResume ==
    /\ resume.at = "resume"
    /\ \/ /\ reason[resume.run] # "api" /\ resume' = NoResume
          /\ open' = open \cup {resume.run} /\ started' = Started(resume.run)
       \/ /\ resume' = [resume EXCEPT !.at = "restore"]
          /\ UNCHANGED <<open, started>>
    /\ UNCHANGED <<prioritized, work, waits, priority, reason, decided, standing, turn, late, requests>>

RestorePause ==
    /\ resume.at = "restore"
    /\ IF Pausable(resume.run) THEN SetReason(resume.run, resume.seen) ELSE UNCHANGED <<reason, late>>
    /\ resume' = NoResume
    /\ UNCHANGED <<prioritized, open, work, waits, started, priority, decided, standing, turn, requests>>

-----------------------------------------------------------------------------
(* A turn of a worker: scheduler_tick_with_limit. *)

Active(r) == r \in open

\* ORDER BY priority, created_at; run_sequence without the queue.
Before(r, s) ==
    IF prioritized THEN priority[r] < priority[s] \/ (priority[r] = priority[s] /\ r < s) ELSE r < s

\* The runs of a set, first come first.
Ordered(S) ==
    LET rank(r) == Cardinality({s \in S : Before(s, r)})
    IN  [i \in 1 .. Cardinality(S) |-> CHOOSE r \in S : rank(r) = i - 1]

Selectable(r) == Active(r) /\ reason[r] = "none"

FirstOf(s) == SubSeq(s, 1, IF Len(s) < TurnLimit THEN Len(s) ELSE TurnLimit)

\* What backpressure makes of a list: nothing, or its overdue runs, in the same
\* order, when the load is above the threshold.
RunsToPause(list) ==
    LET overdue == {r \in Run : started[r] = "overdue" /\ \E i \in 1 .. Len(list) : list[i] = r}
    IN  {<< >>} \cup IF prioritized THEN {Ordered(overdue)} ELSE {}

\* The list is read, and which of its runs are to be paused.
Read(w, list) ==
    /\ turn[w] = NoTurn
    /\ \E todo \in RunsToPause(list) :
          turn' = [turn EXCEPT ![w] = [NoTurn EXCEPT !.list = FirstOf(list), !.todo = todo]]
    /\ UNCHANGED <<prioritized, open, work, waits, started, priority, reason, decided, standing, resume,
                   late, requests>>

\* Mutant: the limit is applied before the paused runs are left out.
SelectLimited(w) == Read(w, SelectSeq(FirstOf(Ordered({r \in Run : Active(r)})), Selectable))

\* A turn that finds nothing changes nothing.
Select(w) == Read(w, Ordered({r \in Run : Selectable(r)}))

\* A run that may not be paused fails the whole turn.
PauseOverdue(w) ==
    /\ turn[w].todo # << >>
    /\ LET r == Head(turn[w].todo)
       IN  IF Pausable(r)
           THEN SetReason(r, "backpressure") /\ turn' = [turn EXCEPT ![w].todo = Tail(@)]
           ELSE turn' = [turn EXCEPT ![w] = NoTurn] /\ UNCHANGED <<reason, late>>
    /\ UNCHANGED <<prioritized, open, work, waits, started, priority, decided, standing, resume, requests>>

\* Mutant: a list that was read before the adoption still counts.
MayTickAny(r) == Active(r)

\* Phase 1 of a tick: the owner and the status are read again, the pause is not.
MayTick(r) == Active(r) /\ reason[r] # "api"

\* The workers that hold the lease of a node of this run.
Busy(r) == {w \in Poller : turn[w].at = "leased" /\ turn[w].run = r}

\* A node is neither done, nor leased, nor waiting for an approval.
HasReadyNode(r) == work[r] > waits[r] + Cardinality(Busy(r))

\* No node is left, or those that are left may depend on one that is leased or waits.
MayFindNone(r) == work[r] = 0 \/ waits[r] > 0 \/ Busy(r) # {}

\* The worker has come to the next run of its list, and goes on with it.
AtRun(w) == turn[w].todo = << >> /\ turn[w].list # << >> /\ turn[w].at = "free"

Take(w, at) ==
    turn' = [turn EXCEPT ![w] = [list |-> Tail(turn[w].list), todo |-> << >>, at |-> at,
                                 run |-> IF at = "free" THEN 0 ELSE Head(turn[w].list)]]

\* select_scheduler_executor finds no free slot: the run has used its place in
\* the turn and is not ticked.
PoolIsFull(w) ==
    /\ AtRun(w)
    /\ Take(w, "full")
    /\ UNCHANGED <<prioritized, open, work, waits, started, priority, reason, decided, standing, resume,
                   late, requests>>

\* Phase 1 of a tick, for the next run of the list: a node is leased; or there
\* is none that is ready, and a run without any is over; or the tick is refused.
TickRun(w) ==
    /\ AtRun(w)
    /\ LET r == Head(turn[w].list)
       IN  /\ \/ MayTick(r) /\ HasReadyNode(r) /\ Take(w, "leased") /\ UNCHANGED open
              \/ /\ MayTick(r) /\ MayFindNone(r) /\ Take(w, "free")
                 /\ open' = IF work[r] = 0 THEN open \ {r} ELSE open
              \/ ~ MayTick(r) /\ Take(w, "free") /\ UNCHANGED open
           /\ started' = IF MayTick(r) THEN Started(r) ELSE started
           /\ late' = [late EXCEPT ![r] = IF MayTick(r) /\ reason[r] # "none" THEN @ + 1 ELSE @]
    /\ UNCHANGED <<prioritized, work, waits, priority, reason, decided, standing, resume, requests>>

\* The tick is over.
LeaveRun(w) == turn' = [turn EXCEPT ![w] = [@ EXCEPT !.at = "free", !.run = 0]]

\* Phase 3, whoever owns the run by now: the node is done, and a failure takes
\* along nodes that depend on it; or it waits for an approval; or it is retried.
Settle(w) ==
    /\ turn[w].at = "leased"
    /\ LET r == turn[w].run
       IN  \/ /\ \E n \in 0 .. Work :
                    /\ n < work[r] /\ n + 1 >= waits[r] + Cardinality(Busy(r))
                    /\ work' = [work EXCEPT ![r] = n]
                    /\ open' = IF n = 0 THEN open \ {r} ELSE open
              /\ UNCHANGED waits
           \/ waits' = [waits EXCEPT ![r] = @ + 1] /\ UNCHANGED <<work, open>>
           \/ UNCHANGED <<work, open, waits>>
    /\ LeaveRun(w)
    /\ UNCHANGED <<prioritized, started, priority, reason, decided, standing, resume, late, requests>>

\* A turn of any worker begins with recover_stale_leases, which asks neither for
\* the holder of a lease nor for the owner of its run.
LeaseExpires(w) ==
    /\ turn[w].at = "leased"
    /\ turn' = [turn EXCEPT ![w].at = "expired"]
    /\ UNCHANGED <<prioritized, open, work, waits, started, priority, reason, decided, standing, resume,
                   late, requests>>

\* Phase 3 without the lease changes nothing; without a slot there was no tick.
GoOn(w) ==
    /\ turn[w].at \in {"expired", "full"}
    /\ LeaveRun(w)
    /\ UNCHANGED <<prioritized, open, work, waits, started, priority, reason, decided, standing, resume,
                   late, requests>>

-----------------------------------------------------------------------------
\* Time passes, an operator approves, an operator changes a priority; only the
\* prioritized queue looks at times and priorities.
BecomesOverdue(r) ==
    /\ prioritized /\ Active(r) /\ started[r] = "recent"
    /\ started' = [started EXCEPT ![r] = "overdue"]
    /\ UNCHANGED <<prioritized, open, work, waits, priority, reason, decided, standing, turn, resume, late, requests>>

Approve(r) ==
    /\ waits[r] > 0
    /\ waits' = [waits EXCEPT ![r] = @ - 1]
    /\ UNCHANGED <<prioritized, open, work, started, priority, reason, decided, standing, turn, resume, late, requests>>

UpdatePriority(r, p) ==
    /\ prioritized /\ p # priority[r] /\ Request
    /\ priority' = [priority EXCEPT ![r] = p]
    /\ UNCHANGED <<prioritized, open, work, waits, started, reason, decided, standing, turn, resume, late>>

TurnStep(w) == Select(w) \/ PauseOverdue(w) \/ PoolIsFull(w) \/ TickRun(w) \/ Settle(w) \/ GoOn(w)

QueueNext ==
    \/ \E w \in Poller : TurnStep(w) \/ LeaseExpires(w)
    \/ \E r \in Run : SetPause(r, "hold") \/ SetPause(r, "none")
    \/ \E a \in Artifact : ApplyBudgetPause(a)
    \/ \E r \in Run : RecoverBudgetPause(r) \/ Adopt(r) \/ ReadPause(r)
    \/ ClearPause \/ RequestResume \/ RestorePause
    \/ \E r \in Run : BecomesOverdue(r) \/ Approve(r)
    \/ \E r \in Run, p \in Priority : UpdatePriority(r, p)

QueueSpec == QueueInit /\ [][QueueNext]_qvars

\* The workers keep taking turns, and an execution ends (executors have timeouts).
QueueFairness == \A w \in Poller : WF_qvars(TurnStep(w))

-----------------------------------------------------------------------------
(* Properties. *)

\* The queue and the turns are well formed, and every finding is decided at most
\* once (sqlite_pause_decision).
QueueTypeOK ==
    /\ open \subseteq Run /\ work \in [Run -> 0 .. Work] /\ waits \in [Run -> Nat]
    /\ started \in [Run -> {"no", "recent", "overdue"}]
    /\ reason \in [Run -> {"none", "hold", "backpressure", "api"} \cup Artifact]
    /\ decided \in Seq(Artifact)
    /\ \A i, j \in 1 .. Len(decided) : decided[i] = decided[j] => i = j
    /\ \A a \in standing : \E i \in 1 .. Len(decided) : decided[i] = a
    /\ turn \in [Poller -> [list : Seq(Run), todo : Seq(Run), run : 0 .. Runs,
                           at : {"free", "leased", "expired", "full"}]]
    /\ \A w \in Poller : turn[w].at # "free" => turn[w].run \in Run
    /\ requests \in 0 .. MaxRequests

\* Leases and approvals that are waited for are those of nodes that are left, however
\* leases expire and late settlements are refused.
LeasesFit == \A r \in Run : waits[r] + Cardinality(Busy(r)) <= work[r]

\* "active budget auto-pause requires explicit audited recovery": the decision
\* made last for a run, while it stands, is what pauses it, whatever operators,
\* a resume that began before it, or a turn with an older list have written.
BudgetPauseIsKept ==
    \A a \in standing :
        (\A b \in Artifact : ScopeOf[b] = ScopeOf[a] => ~ Later(b, a)) => reason[ScopeOf[a]] = a

\* A pause takes hold: at most one tick of the run by each worker begins after it,
\* from the list the worker had read before.
PauseTakesHold == \A r \in Run : late[r] <= Cardinality(Poller)

\* A run that the supervised-patch API has taken over stays its own: no pause and
\* no resume touches it, and no turn leases a node of it, not even from a list read
\* before the adoption.  What still reaches it are the leases that were held when it
\* was adopted, each of which settles once: phase 3 does not ask for the owner.
AdoptedIsLeftAlone ==
    [][\A r \in Run : reason[r] = "api" =>
            /\ reason'[r] = "api"
            /\ Busy(r)' \subseteq Busy(r)
            /\ \/ work'[r] = work[r] /\ (r \in open' <=> r \in open)
               \/ Busy(r)' # Busy(r)]_qvars

\* Runs that would be ticked before this one.
Ahead(r) == {s \in Run : Selectable(s) /\ Before(s, r)}

\* A decision stands and its run is not paused, because a later one was recovered:
\* the run can neither be paused nor recovered, and a turn that finds it overdue
\* fails before it has ticked anything.
Wedged == prioritized /\ \E r \in Run : Selectable(r) /\ OpenDecisions(r) # {}

\* A worker has come to the run and has found no slot for it.
FindsNoSlot(r) == \E w \in Poller : turn[w].at = "full" /\ turn[w].run = r

\* Again and again a node of a run is leased, whoever else is in the list, until the
\* run is over: unless it is paused or waits for an approval, as many runs as a turn
\* ticks are ahead of it, the queue is wedged, or each time a worker comes to the run
\* the executor pool is full.
RunsAreReached ==
    \A r \in Run :
        []<>(\/ ~ Selectable(r) \/ Busy(r) # {} \/ waits[r] > 0
             \/ Cardinality(Ahead(r)) >= TurnLimit
             \/ Wedged
             \/ FindsNoSlot(r))

\* What the writers of pause_reason and the turns of the scheduler owe to a pause.
PausesAreKept == QueueTypeOK /\ LeasesFit /\ BudgetPauseIsKept /\ PauseTakesHold
=============================================================================
