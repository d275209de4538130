----------------------------- MODULE Scheduler -----------------------------
(***************************************************************************)
(* WorkflowScheduler: its control flags, its worker threads, the control   *)
(* gate both share, and the executor slots the workers take from the       *)
(* ExecutorPool.                                                           *)
(*                                                                         *)
(* The HTTP server keeps the scheduler behind a mutex, so the operations   *)
(* of the API follow one another; `api' says which one is under way.  Stop *)
(* and drop keep that mutex while they join the workers, but not the       *)
(* control gate.  The flags are atomics that a worker reads with and       *)
(* without the gate, and the environment switches are read before the gate *)
(* is taken.                                                               *)
(***************************************************************************)
EXTENDS Naturals, FiniteSets

CONSTANTS
    Worker,         \* the threads start() spawns
    Executor,       \* executor types registered in the pool
    Limit,          \* concurrency_limit of each executor type
    TickLimit,      \* tick_limit: runs one turn of a worker looks at
    Tree,           \* recursive execution trees, by root run
    NoExecutor      \* what a worker holds that took no slot

ASSUME SchedulerAssumption ==
    /\ IsFiniteSet(Worker)
    /\ Limit \in [Executor -> Nat]
    /\ TickLimit \in Nat
    /\ NoExecutor \notin Executor

VARIABLES
    running, paused, killed,   \* the published control flags
    env,                       \* ACP_SUPERVISED_WORKERS_PAUSED and _KILL_SWITCH
    api,                       \* the API operation that holds the scheduler
    snapshot,                  \* what the callback of a control barrier was given
    spawned,                   \* handles is not empty
    pc,                        \* where each worker thread is
    seen,                      \* the switches as the worker last read them
    left,                      \* runs the worker may still look at in this tick
    held,                      \* the slot the worker holds
    active,                    \* active_count of each executor type
    leaked,                    \* slots whose worker panicked while holding them
    cooling,                   \* executor types with a cooldown_until
    tree,                      \* execution_state of the persisted trees
    stranded                   \* trees a dead process left paused

control  == <<running, paused, killed>>
barrier  == <<api, snapshot>>
threads  == <<spawned, pc, seen, left, held>>
pool     == <<active, leaked, cooling>>
trees    == <<tree, stranded>>
vars     == <<control, env, barrier, threads, pool, trees>>

Switches == [pause : BOOLEAN, kill : BOOLEAN]
Control  == [running : BOOLEAN, paused : BOOLEAN, killed : BOOLEAN]
Places   == {"none", "loop", "sample", "observe", "cool", "tick", "execute", "exited"}
Ticking  == {"cool", "tick", "execute"}
States   == {"none", "running", "paused", "killed", "ended"}
Calls    == {"free", "pausing", "resuming", "killing", "stopping", "dropping", "barrier"}

NoSwitch   == [pause |-> FALSE, kill |-> FALSE]
NoSnapshot == [running |-> FALSE, paused |-> FALSE, killed |-> FALSE]

Alive(w)   == pc[w] \notin {"none", "exited"}
Holders(e) == {w \in Worker : held[w] = e}

\* Mutant: stop keeps the gate until the workers are joined.
GateHeldByStop == api # "free"

\* The operations of the API that are inside the control gate.  pause, resume
\* and kill write the store and then the flags under it; stop leaves it
\* before it joins the workers.
GateHeld == api \in {"pausing", "resuming", "killing", "barrier"}

Init ==
    /\ running = FALSE /\ paused = FALSE /\ killed = FALSE
    /\ env \in Switches
    /\ api = "free" /\ snapshot = NoSnapshot
    /\ spawned = FALSE
    /\ pc = [w \in Worker |-> "none"]
    /\ seen = [w \in Worker |-> NoSwitch]
    /\ left = [w \in Worker |-> 0]
    /\ held = [w \in Worker |-> NoExecutor]
    /\ active = [e \in Executor |-> 0]
    /\ leaked = [e \in Executor |-> 0]
    /\ cooling = {}
    /\ tree = [t \in Tree |-> "none"]
    /\ stranded = {}

-----------------------------------------------------------------------------
(* The API. *)

\* Mutant: start looks at the running flag only.
StartWhileDraining ==
    /\ api = "free" /\ ~running /\ ~env.kill
    /\ killed' = FALSE /\ running' = TRUE
    /\ spawned' = TRUE
    /\ pc' = [w \in Worker |-> IF Alive(w) THEN pc[w] ELSE "loop"]
    /\ active' = [e \in Executor |-> 0]
    /\ leaked' = [e \in Executor |-> 0]
    /\ cooling' = {}
    /\ UNCHANGED <<paused, env, barrier, seen, left, held, trees>>

\* start: refused while a handle is left or the kill switch is on.  It lifts
\* an earlier kill, keeps a pause, and registers the executors afresh.
Start ==
    /\ api = "free" /\ ~running /\ ~spawned /\ ~env.kill
    /\ killed' = FALSE /\ running' = TRUE
    /\ spawned' = TRUE
    /\ pc' = [w \in Worker |-> "loop"]
    /\ active' = [e \in Executor |-> 0]
    /\ leaked' = [e \in Executor |-> 0]
    /\ cooling' = {}
    /\ UNCHANGED <<paused, env, barrier, seen, left, held, trees>>

\* stop: publishes under the gate, then joins outside it.
Stop ==
    /\ api = "free" /\ (running \/ spawned)
    /\ running' = FALSE
    /\ api' = "stopping"
    /\ UNCHANGED <<paused, killed, env, snapshot, threads, pool, trees>>

Joined == \A w \in Worker : ~Alive(w)

\* Every handle is joined.  A join that fails, which would end the call early, needs
\* a panic outside run_scheduler_worker's catch_unwind.
StopReturn ==
    /\ api = "stopping" /\ Joined
    /\ spawned' = FALSE
    /\ api' = "free"
    /\ UNCHANGED <<control, env, snapshot, pc, seen, left, held, pool, trees>>

\* set_recursive_execution_paused: one transaction over all trees.
SetTrees(from, to) ==
    tree' = [t \in Tree |-> IF tree[t] \in from THEN to ELSE tree[t]]

\* pause, resume, kill: first the transaction, then the flags.  When the
\* transaction fails nothing has changed and the call returns its error.
Pause ==
    /\ api = "free"
    /\ SetTrees({"running"}, "paused")
    /\ api' = "pausing"
    /\ UNCHANGED <<control, env, snapshot, threads, pool, stranded>>

Resume ==
    /\ api = "free" /\ ~killed
    /\ SetTrees({"paused"}, "running")
    /\ stranded' = {}
    /\ api' = "resuming"
    /\ UNCHANGED <<control, env, snapshot, threads, pool>>

Kill ==
    /\ api = "free"
    /\ SetTrees({"running", "paused"}, "killed")
    /\ stranded' = {}
    /\ api' = "killing"
    /\ UNCHANGED <<control, env, snapshot, threads, pool>>

Publish ==
    /\ \/ api = "pausing"  /\ paused' = TRUE  /\ UNCHANGED <<running, killed>>
       \/ api = "resuming" /\ paused' = FALSE /\ UNCHANGED <<running, killed>>
       \/ api = "killing"  /\ killed' = TRUE  /\ running' = FALSE /\ UNCHANGED paused
    /\ api' = "free"
    /\ UNCHANGED <<env, snapshot, threads, pool, trees>>

\* with_control_barrier: the callback, a store commit, runs under the gate.
EnterBarrier ==
    /\ api = "free"
    /\ snapshot' = [running |-> running,
                    paused  |-> paused \/ env.pause,
                    killed  |-> killed \/ env.kill]
    /\ api' = "barrier"
    /\ UNCHANGED <<control, env, threads, pool, trees>>

LeaveBarrier ==
    /\ api = "barrier"
    /\ api' = "free"
    /\ snapshot' = NoSnapshot
    /\ UNCHANGED <<control, env, threads, pool, trees>>

\* Drop for WorkflowScheduler: the process shuts down after the join.
Drop ==
    /\ api = "free"
    /\ running' = FALSE
    /\ api' = "dropping"
    /\ UNCHANGED <<paused, killed, env, snapshot, threads, pool, trees>>

\* A new process: WorkflowScheduler::new, with the trees the store kept.
NewProcess ==
    /\ running' = FALSE /\ paused' = FALSE /\ killed' = FALSE
    /\ api' = "free" /\ snapshot' = NoSnapshot
    /\ spawned' = FALSE
    /\ pc' = [w \in Worker |-> "none"]
    /\ seen' = [w \in Worker |-> NoSwitch]
    /\ left' = [w \in Worker |-> 0]
    /\ held' = [w \in Worker |-> NoExecutor]
    /\ active' = [e \in Executor |-> 0]
    /\ leaked' = [e \in Executor |-> 0]
    /\ cooling' = {}
    /\ stranded' = {t \in Tree : tree[t] = "paused"}
    /\ UNCHANGED <<env, tree>>

DropReturn == api = "dropping" /\ Joined /\ NewProcess

\* The process dies at any point, between a commit and its flag included.
Crash == NewProcess

\* The code reads the switches at every turn; they may change in between.
SetEnvironment ==
    /\ env' \in Switches
    /\ UNCHANGED <<control, barrier, threads, pool, trees>>

-----------------------------------------------------------------------------
(* A worker thread: run_scheduler_worker. *)

Go(w, place) == pc' = [pc EXCEPT ![w] = place]

\* while running
Loop(w) ==
    /\ pc[w] = "loop"
    /\ Go(w, IF running THEN "sample" ELSE "exited")
    /\ UNCHANGED <<control, env, barrier, spawned, seen, left, held, pool, trees>>

\* The arguments of observe_scheduler_worker_control, read before its lock.
Sample(w) ==
    /\ pc[w] = "sample"
    /\ seen' = [seen EXCEPT ![w] = env]
    /\ Go(w, "observe")
    /\ UNCHANGED <<control, env, barrier, spawned, left, held, pool, trees>>

\* Mutant: the flags are read, and published, outside the gate.
ObserveUngated(w) ==
    /\ pc[w] = "observe"
    /\ \/ /\ killed \/ seen[w].kill
          /\ killed' = TRUE /\ running' = FALSE
          /\ Go(w, "exited")
       \/ /\ ~killed /\ ~seen[w].kill
          /\ Go(w, IF paused \/ seen[w].pause THEN "loop" ELSE "cool")
          /\ UNCHANGED <<running, killed>>
    /\ seen' = [seen EXCEPT ![w] = NoSwitch]
    /\ UNCHANGED <<paused, env, barrier, spawned, left, held, pool, trees>>

\* observe_scheduler_worker_control, and what the loop does with its answer.
Observe(w) ==
    /\ pc[w] = "observe" /\ ~GateHeld
    /\ \/ /\ killed \/ seen[w].kill
          /\ killed' = TRUE /\ running' = FALSE
          /\ Go(w, "exited")
       \/ /\ ~killed /\ ~seen[w].kill
          /\ Go(w, IF paused \/ seen[w].pause THEN "loop" ELSE "cool")
          /\ UNCHANGED <<running, killed>>
    /\ seen' = [seen EXCEPT ![w] = NoSwitch]
    /\ UNCHANGED <<paused, env, barrier, spawned, left, held, pool, trees>>

\* tick_cooldowns, for the cooldowns that have run out, and the start of
\* scheduler_tick_with_limit.
TickCooldowns(w) ==
    /\ pc[w] = "cool"
    /\ cooling' \in SUBSET cooling
    /\ left' = [left EXCEPT ![w] = TickLimit]
    /\ Go(w, "tick")
    /\ UNCHANGED <<control, env, barrier, spawned, seen, held, active, leaked, trees>>

\* One run of the tick: select_scheduler_executor takes a slot ...
Acquire(w, e) ==
    /\ pc[w] = "tick" /\ left[w] > 0
    /\ active[e] < Limit[e] /\ e \notin cooling
    /\ active' = [active EXCEPT ![e] = @ + 1]
    /\ held' = [held EXCEPT ![w] = e]
    /\ left' = [left EXCEPT ![w] = @ - 1]
    /\ Go(w, "execute")
    /\ UNCHANGED <<control, env, barrier, spawned, seen, leaked, cooling, trees>>

\* ... or has an executor that needs none, or has none and skips the run.
NoSlot(w) ==
    /\ pc[w] = "tick" /\ left[w] > 0
    /\ left' = [left EXCEPT ![w] = @ - 1]
    /\ pc' \in {pc, [pc EXCEPT ![w] = "execute"]}
    /\ UNCHANGED <<control, env, barrier, spawned, seen, held, pool, trees>>

\* A tick may create the run's recursive tree, and may end it.
TreeBegins(w, t) ==
    /\ pc[w] = "execute" /\ tree[t] = "none"
    /\ tree' = [tree EXCEPT ![t] = "running"]
    /\ UNCHANGED <<control, env, barrier, threads, pool, stranded>>

TreeEnds(w, t) ==
    /\ pc[w] = "execute" /\ tree[t] \in {"running", "paused"}
    /\ tree' = [tree EXCEPT ![t] = "ended"]
    /\ stranded' = stranded \ {t}
    /\ UNCHANGED <<control, env, barrier, threads, pool>>

\* The store tick returns.  release starts a cooldown when the failure score
\* is high, after a success too; release_without_recording never does.
Release(w) ==
    /\ pc[w] = "execute"
    /\ IF held[w] = NoExecutor
       THEN UNCHANGED <<active, cooling>>
       ELSE /\ active' = [active EXCEPT ![held[w]] = IF @ > 0 THEN @ - 1 ELSE 0]
            /\ cooling' \in {cooling, cooling \cup {held[w]}}
    /\ held' = [held EXCEPT ![w] = NoExecutor]
    /\ Go(w, "tick")
    /\ UNCHANGED <<control, env, barrier, spawned, seen, left, leaked, trees>>

\* No run is left to look at, or a store call failed.
EndTick(w) ==
    /\ pc[w] = "tick"
    /\ left' = [left EXCEPT ![w] = 0]
    /\ Go(w, "loop")
    /\ UNCHANGED <<control, env, barrier, spawned, seen, held, pool, trees>>

\* A panic in the tick is caught in the loop; nothing gives the slot back.
Panic(w) ==
    /\ pc[w] \in {"tick", "execute"}
    /\ IF held[w] = NoExecutor
       THEN UNCHANGED leaked
       ELSE leaked' = [leaked EXCEPT ![held[w]] = @ + 1]
    /\ held' = [held EXCEPT ![w] = NoExecutor]
    /\ left' = [left EXCEPT ![w] = 0]
    /\ Go(w, "loop")
    /\ UNCHANGED <<control, env, barrier, spawned, seen, active, cooling, trees>>

-----------------------------------------------------------------------------

ApiReturn == StopReturn \/ DropReturn \/ Publish \/ LeaveBarrier

ApiStep ==
    \/ Start \/ Stop \/ Pause \/ Resume \/ Kill \/ EnterBarrier \/ Drop
    \/ ApiReturn

Turn(w) ==
    \/ Loop(w) \/ Sample(w) \/ Observe(w) \/ TickCooldowns(w)
    \/ \E e \in Executor : Acquire(w, e)
    \/ NoSlot(w) \/ Release(w) \/ EndTick(w)

WorkerStep(w) ==
    \/ Turn(w) \/ Panic(w)
    \/ \E t \in Tree : TreeBegins(w, t) \/ TreeEnds(w, t)

Next ==
    \/ ApiStep \/ Crash \/ SetEnvironment
    \/ \E w \in Worker : WorkerStep(w)

Spec == Init /\ [][Next]_vars

\* Threads run, executors have timeouts, an API call goes on once begun.  A
\* worker that waits for the gate gets it if it is free again and again.
Fairness ==
    /\ WF_vars(ApiReturn)
    /\ \A w \in Worker : WF_vars(Turn(w)) /\ SF_vars(Observe(w))

FairSpec == Spec /\ Fairness

-----------------------------------------------------------------------------
(* Properties. *)

\* The variables keep their types.
TypeOK ==
    /\ running \in BOOLEAN /\ paused \in BOOLEAN /\ killed \in BOOLEAN
    /\ env \in Switches
    /\ api \in Calls /\ snapshot \in Control
    /\ spawned \in BOOLEAN
    /\ pc \in [Worker -> Places]
    /\ seen \in [Worker -> Switches]
    /\ left \in [Worker -> Nat]
    /\ held \in [Worker -> Executor \cup {NoExecutor}]
    /\ active \in [Executor -> Nat]
    /\ leaked \in [Executor -> Nat]
    /\ cooling \in SUBSET Executor
    /\ tree \in [Tree -> States]
    /\ stranded \in SUBSET Tree

\* active_count counts the slots in use and the slots lost to panics, never
\* fewer, and stays within the executor's limit: a restart that registers the
\* executors afresh never forgets a slot that a worker still holds, and
\* release never meets a count of zero.
SlotAccounting ==
    \A e \in Executor :
        /\ active[e] = Cardinality(Holders(e)) + leaked[e]
        /\ active[e] <= Limit[e]

\* What the callback of the control barrier was told stays true until it
\* returns: a commit made because the scheduler was running, not paused and
\* not killed is not overtaken by a pause or a kill of the API or a worker.
BarrierIsLinear ==
    api = "barrier" =>
        /\ snapshot.running = running
        /\ paused => snapshot.paused
        /\ killed => snapshot.killed

\* A paused tree has a paused scheduler that resume will release, or is one
\* that a dead process left behind: the flag and the rows never part, even
\* when the transaction or the process fails half way.
PausedTreeHasPause ==
    \A t \in Tree :
        tree[t] = "paused" => paused \/ api = "pausing" \/ t \in stranded

\* No worker enters a tick once pause or kill has returned, whatever it had
\* read before.
ControlAdmitsNoTick ==
    [][paused \/ killed =>
          \A w \in Worker : pc'[w] \in Ticking => pc[w] \in Ticking]_vars

\* A kill is lifted by start only after every worker of the killed generation
\* has left, or by a new process.
KillLiftedOnlyWhenDrained ==
    [][killed /\ ~killed' =>
          \A w \in Worker : ~Alive(w) \/ pc'[w] = "none"]_vars

\* stop returns: joining under the scheduler's mutex waits on no one who waits
\* for the control gate or for that mutex.
StopReturns == api = "stopping" ~> api = "free"

\* A kill, by the API or by the switch of the environment that one worker
\* observed, ends every worker.
KillEndsWorkers == killed ~> \A w \in Worker : ~Alive(w)

\* The scheduler's state in every order of API calls, worker steps, panics and crashes:
\* well formed, no slot unaccounted for, a linear barrier, no tree paused alone.
ControlIsSound == TypeOK /\ SlotAccounting /\ BarrierIsLinear /\ PausedTreeHasPause

\* Pause and kill are obeyed by every step: no tick is entered under one, and a kill is
\* not lifted under a worker that has yet to see it.
SwitchesAreObeyed == ControlAdmitsNoTick /\ KillLiftedOnlyWhenDrained

\* The operator's controls take effect: stop() joins, and a kill reaches every worker.
ControlTakesEffect == StopReturns /\ KillEndsWorkers
=============================================================================
