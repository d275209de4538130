-------------------------- MODULE SchedulerProofs --------------------------
(***************************************************************************)
(* Proofs of the safety properties of Scheduler, for any number of worker  *)
(* threads, executor types, slots and trees, and of RunQueue, for any      *)
(* number of runs, findings and workers.                                   *)
(***************************************************************************)
EXTENDS Scheduler, RunQueue, FiniteSetTheorems, TLAPS

(* What the properties rest on. *)

\* A slot is held only inside the store call of a tick.
HoldersExecute == \A w \in Worker : held[w] # NoExecutor => pc[w] = "execute"

\* Without handles there is no thread.
Drained == ~spawned => \A w \in Worker : ~Alive(w)

\* Between its transaction and its flag, resume has left no tree paused.
Released == api = "resuming" => \A t \in Tree : tree[t] # "paused"

Inv ==
    /\ TypeOK
    /\ HoldersExecute
    /\ Drained
    /\ SlotAccounting
    /\ BarrierIsLinear
    /\ Released
    /\ PausedTreeHasPause

-----------------------------------------------------------------------------

\* Every step of the specification keeps the types.
LEMMA TypeStep == TypeOK /\ [Next]_vars => TypeOK'
  <1> SUFFICES ASSUME TypeOK, [Next]_vars
               PROVE  TypeOK'
    OBVIOUS
  <1> USE SchedulerAssumption
  <1>0. NoSwitch \in Switches /\ NoSnapshot \in Control
    BY DEF NoSwitch, Switches, NoSnapshot, Control
  <1>1. CASE Start
    BY <1>1 DEF Start, TypeOK, Places, barrier, trees
  <1>2. CASE Stop
    BY <1>2 DEF Stop, TypeOK, Calls, threads, pool, trees
  <1>3. CASE StopReturn
    BY <1>3 DEF StopReturn, TypeOK, Calls, control, pool, trees
  <1>4. CASE Pause
    BY <1>4 DEF Pause, SetTrees, TypeOK, Calls, States, control, threads, pool
  <1>5. CASE Resume
    BY <1>5 DEF Resume, SetTrees, TypeOK, Calls, States, control, threads, pool
  <1>6. CASE Kill
    BY <1>6 DEF Kill, SetTrees, TypeOK, Calls, States, control, threads, pool
  <1>7. CASE Publish
    BY <1>7 DEF Publish, TypeOK, Calls, threads, pool, trees
  <1>8. CASE EnterBarrier
    <2>1. snapshot' \in Control
      BY <1>8 DEF EnterBarrier, TypeOK, Control, Switches
    <2> QED
      BY <1>8, <2>1 DEF EnterBarrier, TypeOK, Calls, control, threads, pool, trees
  <1>9. CASE LeaveBarrier
    BY <1>0, <1>9 DEF LeaveBarrier, TypeOK, Calls, control, threads, pool, trees
  <1>10. CASE Drop
    BY <1>10 DEF Drop, TypeOK, Calls, threads, pool, trees
  <1>11. CASE NewProcess
    BY <1>0, <1>11 DEF NewProcess, TypeOK, Calls, Places
  <1>12. CASE SetEnvironment
    BY <1>12 DEF SetEnvironment, TypeOK, control, barrier, threads, pool, trees
  <1>13. ASSUME NEW w \in Worker, WorkerStep(w)
         PROVE  TypeOK'
    <2>1. CASE Loop(w)
      BY <2>1 DEF Loop, Go, TypeOK, Places, control, barrier, pool, trees
    <2>2. CASE Sample(w)
      BY <2>2 DEF Sample, Go, TypeOK, Places, control, barrier, pool, trees
    <2>3. CASE Observe(w)
      BY <1>0, <2>3 DEF Observe, Go, TypeOK, Places, barrier, pool, trees
    <2>4. CASE TickCooldowns(w)
      BY <2>4 DEF TickCooldowns, Go, TypeOK, Places, control, barrier, trees
    <2>5. ASSUME NEW e \in Executor, Acquire(w, e)
          PROVE  TypeOK'
      BY <2>5 DEF Acquire, Go, TypeOK, Places, control, barrier, trees
    <2>6. CASE NoSlot(w)
      BY <2>6 DEF NoSlot, TypeOK, Places, control, barrier, pool, trees
    <2>7. CASE Release(w)
      <3>1. active' \in [Executor -> Nat] /\ cooling' \in SUBSET Executor
        BY <2>7 DEF Release, TypeOK
      <3> QED
        BY <2>7, <3>1 DEF Release, Go, TypeOK, Places, control, barrier, trees
    <2>8. CASE EndTick(w)
      BY <2>8 DEF EndTick, Go, TypeOK, Places, control, barrier, pool, trees
    <2>9. CASE Panic(w)
      <3>1. leaked' \in [Executor -> Nat]
        BY <2>9 DEF Panic, TypeOK
      <3> QED
        BY <2>9, <3>1 DEF Panic, Go, TypeOK, Places, control, barrier, trees
    <2>10. ASSUME NEW t \in Tree, TreeBegins(w, t) \/ TreeEnds(w, t)
           PROVE  TypeOK'
      BY <2>10 DEF TreeBegins, TreeEnds, TypeOK, States, control, barrier, threads, pool
    <2> QED
      BY <1>13, <2>1, <2>2, <2>3, <2>4, <2>5, <2>6, <2>7, <2>8, <2>9, <2>10
         DEF WorkerStep, Turn
  <1>14. CASE UNCHANGED vars
    BY <1>14 DEF vars, TypeOK, control, barrier, threads, pool, trees
  <1> QED
    BY <1>1, <1>2, <1>3, <1>4, <1>5, <1>6, <1>7, <1>8, <1>9, <1>10, <1>11, <1>12,
       <1>13, <1>14 DEF Next, ApiStep, ApiReturn, DropReturn, Crash

-----------------------------------------------------------------------------

\* A slot is never held outside a store call, and stop is the only operation
\* of a living process that forgets its handles.
LEMMA ThreadStep ==
    TypeOK /\ HoldersExecute /\ Drained /\ [Next]_vars => HoldersExecute' /\ Drained'
  <1> SUFFICES ASSUME TypeOK, HoldersExecute, Drained, [Next]_vars
               PROVE  HoldersExecute' /\ Drained'
    OBVIOUS
  <1> USE SchedulerAssumption
  <1>1. CASE UNCHANGED threads
    BY <1>1 DEF threads, HoldersExecute, Drained, Alive
  <1>2. CASE Start
    BY <1>2 DEF Start, TypeOK, HoldersExecute, Drained, Alive
  <1>3. CASE StopReturn
    BY <1>3 DEF StopReturn, Joined, HoldersExecute, Drained, Alive
  <1>4. CASE NewProcess
    BY <1>4 DEF NewProcess, HoldersExecute, Drained, Alive
  <1>5. ASSUME NEW w \in Worker, Turn(w) \/ Panic(w)
        PROVE  HoldersExecute' /\ Drained'
    <2>1. spawned' = spawned /\ Alive(w)
      BY <1>5 DEF Turn, Panic, Loop, Sample, Observe, TickCooldowns, Acquire, NoSlot,
                  Release, EndTick, Alive
    <2>2. spawned
      BY <2>1 DEF Drained
    <2>3. Drained'
      BY <2>1, <2>2 DEF Drained
    <2>4. HoldersExecute'
      <3>1. CASE Loop(w) \/ Sample(w) \/ Observe(w) \/ TickCooldowns(w) \/ EndTick(w)
        BY <3>1 DEF Loop, Sample, Observe, TickCooldowns, EndTick, Go, TypeOK, HoldersExecute
      <3>2. CASE NoSlot(w)
        BY <3>2 DEF NoSlot, TypeOK, HoldersExecute
      <3>3. ASSUME NEW e \in Executor, Acquire(w, e)
            PROVE  HoldersExecute'
        BY <3>3 DEF Acquire, Go, TypeOK, HoldersExecute
      <3>4. CASE Release(w)
        BY <3>4 DEF Release, Go, TypeOK, HoldersExecute
      <3>5. CASE Panic(w)
        BY <3>5 DEF Panic, Go, TypeOK, HoldersExecute
      <3> QED
        BY <1>5, <3>1, <3>2, <3>3, <3>4, <3>5 DEF Turn
    <2> QED
      BY <2>3, <2>4
  <1> QED
    BY <1>1, <1>2, <1>3, <1>4, <1>5
       DEF Next, ApiStep, ApiReturn, DropReturn, Crash, WorkerStep, vars,
           Stop, Pause, Resume, Kill, Publish, EnterBarrier, LeaveBarrier, Drop,
           SetEnvironment, TreeBegins, TreeEnds

-----------------------------------------------------------------------------
(* Slots. *)

\* The holders of an executor are finitely many.
LEMMA HoldersFinite ==
    ASSUME NEW e
    PROVE  IsFiniteSet(Holders(e)) /\ Cardinality(Holders(e)) \in Nat
  <1>1. Holders(e) \in SUBSET Worker
    BY DEF Holders
  <1>2. IsFiniteSet(Holders(e))
    BY <1>1, FS_Subset, SchedulerAssumption
  <1> QED
    BY <1>2, FS_CardinalityType

\* When a worker without a slot takes one, the holders of that executor are one
\* more and the holders of the others are the same.
LEMMA TakeSlot ==
    ASSUME TypeOK, NEW w \in Worker, NEW e \in Executor, held[w] = NoExecutor,
           held' = [held EXCEPT ![w] = e]
    PROVE  \A x \in Executor :
              Cardinality(Holders(x)') =
                 IF x = e THEN Cardinality(Holders(x)) + 1 ELSE Cardinality(Holders(x))
  <1> SUFFICES ASSUME NEW x \in Executor
               PROVE  Cardinality(Holders(x)') =
                         IF x = e THEN Cardinality(Holders(x)) + 1
                                  ELSE Cardinality(Holders(x))
    OBVIOUS
  <1>1. CASE x = e
    <2>1. w \notin Holders(x) /\ Holders(x)' = Holders(x) \cup {w}
      BY <1>1, SchedulerAssumption DEF Holders, TypeOK
    <2> QED
      BY <1>1, <2>1, HoldersFinite, FS_AddElement
  <1>2. CASE x # e
    <2>1. Holders(x)' = Holders(x)
      BY <1>2, SchedulerAssumption DEF Holders, TypeOK
    <2> QED
      BY <1>2, <2>1
  <1> QED
    BY <1>1, <1>2

\* When a worker lets go of its slot, the holders of that executor are one
\* fewer, and were at least one.
LEMMA DropSlot ==
    ASSUME TypeOK, NEW w \in Worker, held[w] \in Executor,
           held' = [held EXCEPT ![w] = NoExecutor]
    PROVE  \A x \in Executor :
              /\ x = held[w] => Cardinality(Holders(x)) > 0
              /\ Cardinality(Holders(x)') =
                    IF x = held[w] THEN Cardinality(Holders(x)) - 1
                                   ELSE Cardinality(Holders(x))
  <1> SUFFICES ASSUME NEW x \in Executor
               PROVE  /\ x = held[w] => Cardinality(Holders(x)) > 0
                      /\ Cardinality(Holders(x)') =
                            IF x = held[w] THEN Cardinality(Holders(x)) - 1
                                           ELSE Cardinality(Holders(x))
    OBVIOUS
  <1>1. CASE x = held[w]
    <2>1. w \in Holders(x) /\ Holders(x)' = Holders(x) \ {w}
      BY <1>1, SchedulerAssumption DEF Holders, TypeOK
    <2>2. Cardinality(Holders(x)) \in Nat /\ Cardinality(Holders(x)) # 0
      BY <2>1, HoldersFinite, FS_EmptySet
    <2>3. Cardinality(Holders(x) \ {w}) = Cardinality(Holders(x)) - 1
      BY <2>1, HoldersFinite, FS_RemoveElement
    <2> QED
      BY <1>1, <2>1, <2>2, <2>3
  <1>2. CASE x # held[w]
    <2>1. Holders(x)' = Holders(x)
      BY <1>2, SchedulerAssumption DEF Holders, TypeOK
    <2> QED
      BY <1>2, <2>1
  <1> QED
    BY <1>1, <1>2

\* If no worker holds a slot, no executor has holders.
LEMMA NoHolders ==
    ASSUME NEW h, \A w \in Worker : h[w] = NoExecutor
    PROVE  \A e \in Executor : Cardinality({w \in Worker : h[w] = e}) = 0
  <1> SUFFICES ASSUME NEW e \in Executor
               PROVE  Cardinality({w \in Worker : h[w] = e}) = 0
    OBVIOUS
  <1>1. {w \in Worker : h[w] = e} = {}
    BY SchedulerAssumption
  <1> QED
    BY <1>1, FS_EmptySet

\* Every step keeps the accounts of the pool.
LEMMA SlotStep ==
    TypeOK /\ HoldersExecute /\ Drained /\ SlotAccounting /\ [Next]_vars => SlotAccounting'
  <1> SUFFICES ASSUME TypeOK, HoldersExecute, Drained, SlotAccounting, [Next]_vars
               PROVE  SlotAccounting'
    OBVIOUS
  <1> USE SchedulerAssumption
  <1>1. CASE UNCHANGED <<held, active, leaked>>
    BY <1>1 DEF SlotAccounting, Holders
  <1>2. CASE Start
    <2>1. \A w \in Worker : held[w] = NoExecutor
      BY <1>2 DEF Start, Drained, HoldersExecute, Alive
    <2>2. \A e \in Executor : Cardinality({w \in Worker : held'[w] = e}) = 0
      BY <1>2, <2>1, NoHolders DEF Start
    <2> QED
      BY <1>2, <2>2 DEF Start, SlotAccounting, Holders
  <1>3. CASE NewProcess
    <2>1. \A w \in Worker : held'[w] = NoExecutor
      BY <1>3 DEF NewProcess
    <2>2. \A e \in Executor : Cardinality({w \in Worker : held'[w] = e}) = 0
      BY <2>1, NoHolders
    <2> QED
      BY <1>3, <2>2 DEF NewProcess, SlotAccounting, Holders
  <1>4. ASSUME NEW w \in Worker, NEW e \in Executor, Acquire(w, e)
        PROVE  SlotAccounting'
    <2>1. held[w] = NoExecutor
      BY <1>4 DEF Acquire, HoldersExecute
    <2>2. \A x \in Executor : Cardinality(Holders(x)') =
             IF x = e THEN Cardinality(Holders(x)) + 1 ELSE Cardinality(Holders(x))
      BY <1>4, <2>1, TakeSlot DEF Acquire
    <2> SUFFICES ASSUME NEW x \in Executor
                 PROVE  /\ active'[x] = Cardinality(Holders(x)') + leaked'[x]
                        /\ active'[x] <= Limit[x]
      BY DEF SlotAccounting
    <2>3. /\ active'[x] = IF x = e THEN active[x] + 1 ELSE active[x]
          /\ leaked' = leaked
          /\ active[e] < Limit[e]
      BY <1>4 DEF Acquire, TypeOK
    <2> QED
      BY <2>2, <2>3, HoldersFinite DEF SlotAccounting, TypeOK
  <1>5. ASSUME NEW w \in Worker, Release(w)
        PROVE  SlotAccounting'
    <2>1. CASE held[w] = NoExecutor
      <3>1. held' = held
        BY <1>5, <2>1 DEF Release, TypeOK
      <3> QED
        BY <1>1, <1>5, <2>1, <3>1 DEF Release
    <2>2. CASE held[w] # NoExecutor
      <3>1. held[w] \in Executor /\ held' = [held EXCEPT ![w] = NoExecutor]
        BY <1>5, <2>2 DEF Release, TypeOK
      <3>2. \A x \in Executor :
               /\ x = held[w] => Cardinality(Holders(x)) > 0
               /\ Cardinality(Holders(x)') =
                     IF x = held[w] THEN Cardinality(Holders(x)) - 1
                                    ELSE Cardinality(Holders(x))
        BY <3>1, DropSlot
      <3> SUFFICES ASSUME NEW x \in Executor
                   PROVE  /\ active'[x] = Cardinality(Holders(x)') + leaked'[x]
                          /\ active'[x] <= Limit[x]
        BY DEF SlotAccounting
      <3>3. /\ active'[x] = IF x = held[w] THEN (IF active[x] > 0 THEN active[x] - 1 ELSE 0)
                                           ELSE active[x]
            /\ leaked' = leaked
        BY <1>5, <2>2 DEF Release, TypeOK
      <3> QED
        BY <3>2, <3>3, HoldersFinite DEF SlotAccounting, TypeOK
    <2> QED
      BY <2>1, <2>2
  <1>6. ASSUME NEW w \in Worker, Panic(w)
        PROVE  SlotAccounting'
    <2>1. CASE held[w] = NoExecutor
      <3>1. held' = held
        BY <1>6, <2>1 DEF Panic, TypeOK
      <3> QED
        BY <1>1, <1>6, <2>1, <3>1 DEF Panic
    <2>2. CASE held[w] # NoExecutor
      <3>1. held[w] \in Executor /\ held' = [held EXCEPT ![w] = NoExecutor]
        BY <1>6, <2>2 DEF Panic, TypeOK
      <3>2. \A x \in Executor :
               /\ x = held[w] => Cardinality(Holders(x)) > 0
               /\ Cardinality(Holders(x)') =
                     IF x = held[w] THEN Cardinality(Holders(x)) - 1
                                    ELSE Cardinality(Holders(x))
        BY <3>1, DropSlot
      <3> SUFFICES ASSUME NEW x \in Executor
                   PROVE  /\ active'[x] = Cardinality(Holders(x)') + leaked'[x]
                          /\ active'[x] <= Limit[x]
        BY DEF SlotAccounting
      <3>3. /\ leaked'[x] = IF x = held[w] THEN leaked[x] + 1 ELSE leaked[x]
            /\ active' = active
        BY <1>6, <2>2 DEF Panic, TypeOK
      <3> QED
        BY <3>2, <3>3, HoldersFinite DEF SlotAccounting, TypeOK
    <2> QED
      BY <2>1, <2>2
  <1> QED
    BY <1>1, <1>2, <1>3, <1>4, <1>5, <1>6
       DEF Next, ApiStep, ApiReturn, DropReturn, Crash, WorkerStep, Turn, vars,
           threads, pool, Stop, StopReturn, Pause, Resume, Kill, Publish, EnterBarrier,
           LeaveBarrier, Drop, SetEnvironment, TreeBegins, TreeEnds,
           Loop, Sample, Observe, TickCooldowns, NoSlot, EndTick

-----------------------------------------------------------------------------
(* The gate and the trees. *)

\* The flags change only outside a control barrier.
LEMMA BarrierStep == TypeOK /\ BarrierIsLinear /\ [Next]_vars => BarrierIsLinear'
  <1> SUFFICES ASSUME TypeOK, BarrierIsLinear, [Next]_vars, api' = "barrier"
               PROVE  BarrierIsLinear'
    BY DEF BarrierIsLinear
  <1>1. CASE EnterBarrier
    <2>1. /\ snapshot'.running = running
          /\ snapshot'.paused = (paused \/ env.pause)
          /\ snapshot'.killed = (killed \/ env.kill)
          /\ UNCHANGED <<running, paused, killed>>
      BY <1>1 DEF EnterBarrier, control
    <2> QED
      BY <2>1 DEF BarrierIsLinear
  <1>2. CASE UNCHANGED <<control, barrier>>
    BY <1>2 DEF BarrierIsLinear, control, barrier
  <1>3. ASSUME NEW w \in Worker, Observe(w)
        PROVE  FALSE
    BY <1>3 DEF Observe, GateHeld, barrier
  <1> QED
    BY <1>1, <1>2, <1>3
       DEF Next, ApiStep, ApiReturn, Crash, WorkerStep, Turn, vars, control, barrier,
           Start, Stop, StopReturn, Pause, Resume, Kill, Publish, LeaveBarrier, Drop,
           DropReturn, NewProcess, SetEnvironment, Loop, Sample, TickCooldowns, Acquire,
           NoSlot, TreeBegins, TreeEnds, Release, EndTick, Panic

\* The trees are paused before the flag is set and released before it is
\* cleared; a new process finds the trees that the last one left paused.
LEMMA TreeStep ==
    TypeOK /\ Released /\ PausedTreeHasPause /\ [Next]_vars =>
        Released' /\ PausedTreeHasPause'
  <1> SUFFICES ASSUME TypeOK, Released, PausedTreeHasPause, [Next]_vars,
                      NEW t \in Tree, tree'[t] = "paused"
               PROVE  /\ api' # "resuming"
                      /\ paused' \/ api' = "pausing" \/ t \in stranded'
    BY DEF Released, PausedTreeHasPause
  <1>1. CASE Pause
    BY <1>1 DEF Pause
  <1>2. CASE Resume \/ Kill
    BY <1>2 DEF Resume, Kill, SetTrees
  <1>3. CASE Publish
    BY <1>3 DEF Publish, Released, PausedTreeHasPause, trees
  <1>4. CASE NewProcess
    BY <1>4 DEF NewProcess
  <1>5. CASE Start \/ Stop \/ StopReturn \/ EnterBarrier \/ LeaveBarrier \/ Drop
    BY <1>5 DEF Start, Stop, StopReturn, EnterBarrier, LeaveBarrier, Drop,
                Released, PausedTreeHasPause, barrier, control, trees
  <1>6. ASSUME NEW w \in Worker, NEW u \in Tree, TreeBegins(w, u) \/ TreeEnds(w, u)
        PROVE  /\ api' # "resuming"
               /\ paused' \/ api' = "pausing" \/ t \in stranded'
    BY <1>6 DEF TreeBegins, TreeEnds, Released, PausedTreeHasPause, TypeOK, control, barrier
  <1>7. CASE UNCHANGED <<paused, api, trees>>
    BY <1>7 DEF Released, PausedTreeHasPause, trees
  <1> QED
    BY <1>1, <1>2, <1>3, <1>4, <1>5, <1>6, <1>7
       DEF Next, ApiStep, ApiReturn, DropReturn, Crash, WorkerStep, Turn, vars, control,
           barrier, trees, SetEnvironment, Loop, Sample, Observe, TickCooldowns, Acquire,
           NoSlot, Release, EndTick, Panic

-----------------------------------------------------------------------------

\* Inv is inductive.
LEMMA InvInductive == Spec => []Inv
  <1>1. Init => Inv
    <2> SUFFICES ASSUME Init PROVE Inv
      OBVIOUS
    <2> USE DEF Init
    <2>1. TypeOK
      BY DEF TypeOK, Calls, Control, Switches, Places, States, NoSnapshot, NoSwitch
    <2>2. HoldersExecute /\ Drained
      BY DEF HoldersExecute, Drained, Alive
    <2>3. SlotAccounting
      <3>1. \A w \in Worker : held[w] = NoExecutor
        OBVIOUS
      <3>2. \A e \in Executor : Cardinality({w \in Worker : held[w] = e}) = 0
        BY <3>1, NoHolders
      <3> QED
        BY <3>2, SchedulerAssumption DEF SlotAccounting, Holders
    <2>4. BarrierIsLinear /\ Released /\ PausedTreeHasPause
      BY DEF BarrierIsLinear, Released, PausedTreeHasPause
    <2> QED
      BY <2>1, <2>2, <2>3, <2>4 DEF Inv
  <1>2. Inv /\ [Next]_vars => Inv'
    BY TypeStep, ThreadStep, SlotStep, BarrierStep, TreeStep DEF Inv
  <1> QED
    BY <1>1, <1>2, PTL DEF Spec

\* The variables keep their types.
THEOREM TypeCorrect == Spec => []TypeOK
  <1>1. Inv => TypeOK
    BY DEF Inv
  <1> QED
    BY <1>1, InvInductive, PTL

\* ExecutorPool's counts are the slots held and the slots lost, within the
\* limit, through every order of start, stop, kill, panic and restart.
THEOREM SlotsAccountedFor == Spec => []SlotAccounting
  <1>1. Inv => SlotAccounting
    BY DEF Inv
  <1> QED
    BY <1>1, InvInductive, PTL

\* with_control_barrier linearizes its callback with every pause and kill.
THEOREM BarrierLinearizes == Spec => []BarrierIsLinear
  <1>1. Inv => BarrierIsLinear
    BY DEF Inv
  <1> QED
    BY <1>1, InvInductive, PTL

\* The paused flag and the paused trees agree.
THEOREM PauseAgreesWithTrees == Spec => []PausedTreeHasPause
  <1>1. Inv => PausedTreeHasPause
    BY DEF Inv
  <1> QED
    BY <1>1, InvInductive, PTL

\* The scheduler's state is sound in every order of calls, steps, panics and crashes.
THEOREM ControlSoundness == Spec => []ControlIsSound
  BY TypeCorrect, SlotsAccountedFor, BarrierLinearizes, PauseAgreesWithTrees, PTL
     DEF ControlIsSound

\* No worker enters a tick under a published pause or kill.
THEOREM NoTickUnderControl == Spec => ControlAdmitsNoTick
  <1>1. TypeOK /\ [Next]_vars =>
           [paused \/ killed =>
               \A w \in Worker : pc'[w] \in Ticking => pc[w] \in Ticking]_vars
    <2> SUFFICES ASSUME TypeOK, [Next]_vars, paused \/ killed,
                        NEW w \in Worker, pc'[w] \in Ticking
                 PROVE  pc[w] \in Ticking
      OBVIOUS
    <2>1. CASE UNCHANGED pc
      BY <2>1
    <2>2. CASE Start \/ NewProcess
      BY <2>2 DEF Start, NewProcess, Ticking
    <2>3. ASSUME NEW v \in Worker, Turn(v) \/ Panic(v)
          PROVE  pc[w] \in Ticking
      <3>1. CASE v # w
        BY <2>3, <3>1 DEF Turn, Panic, Loop, Sample, Observe, TickCooldowns, Acquire, NoSlot,
                          Release, EndTick, Go, TypeOK
      <3>2. CASE v = w
        BY <2>3, <3>2 DEF Turn, Panic, Loop, Sample, Observe, TickCooldowns, Acquire, NoSlot,
                          Release, EndTick, Go, TypeOK, Ticking
      <3> QED
        BY <3>1, <3>2
    <2> QED
      BY <2>1, <2>2, <2>3
         DEF Next, ApiStep, ApiReturn, DropReturn, Crash, WorkerStep, vars, threads,
             Stop, StopReturn, Pause, Resume, Kill, Publish, EnterBarrier, LeaveBarrier,
             Drop, SetEnvironment, TreeBegins, TreeEnds
  <1> QED
    BY <1>1, TypeCorrect, PTL DEF Spec, ControlAdmitsNoTick

\* start lifts a kill only when the killed workers have been joined.
THEOREM KillOutlivesItsWorkers == Spec => KillLiftedOnlyWhenDrained
  <1>1. Inv /\ [Next]_vars =>
           [killed /\ ~killed' => \A w \in Worker : ~Alive(w) \/ pc'[w] = "none"]_vars
    <2> SUFFICES ASSUME Inv, [Next]_vars, killed, ~killed', NEW w \in Worker
                 PROVE  ~Alive(w) \/ pc'[w] = "none"
      OBVIOUS
    <2>1. CASE Start
      BY <2>1 DEF Start, Inv, Drained
    <2>2. CASE NewProcess
      BY <2>2 DEF NewProcess
    <2>3. CASE killed' = killed
      BY <2>3
    <2>4. ASSUME NEW v \in Worker, Observe(v)
          PROVE  killed'
      BY <2>4 DEF Observe
    <2>5. CASE Publish
      BY <2>5 DEF Publish
    <2> QED
      BY <2>1, <2>2, <2>3, <2>4, <2>5
         DEF Next, ApiStep, ApiReturn, DropReturn, Crash, WorkerStep, Turn, vars, control,
             Stop, StopReturn, Pause, Resume, Kill, EnterBarrier, LeaveBarrier, Drop,
             SetEnvironment, Loop, Sample, TickCooldowns, Acquire, NoSlot, TreeBegins,
             TreeEnds, Release, EndTick, Panic
  <1> QED
    BY <1>1, InvInductive, PTL DEF Spec, KillLiftedOnlyWhenDrained

\* Every step obeys pause and kill.
THEOREM SwitchObedience == Spec => SwitchesAreObeyed
  BY NoTickUnderControl, KillOutlivesItsWorkers DEF SwitchesAreObeyed

-----------------------------------------------------------------------------
(* What the properties of the run queue rest on. *)

Reasons == {"none", "hold", "backpressure", "api"} \cup Artifact

\* What a worker keeps of its turn.
Turns == [list : Seq(Run), todo : Seq(Run), run : 0 .. Runs, at : {"free", "leased", "expired", "full"}]

\* QueueTypeOK, and the types of what it leaves out.
QueueTypes ==
    /\ QueueTypeOK
    /\ prioritized \in BOOLEAN /\ priority \in [Run -> Nat] /\ late \in [Run -> Nat]
    /\ resume \in [at : {"idle", "clear", "resume", "restore"}, run : 0 .. Runs, seen : Reasons]
    /\ resume.at # "idle" => resume.run \in Run

\* No run is twice in the list a worker has read.
Once(s) == \A i, j \in 1 .. Len(s) : s[i] = s[j] => i = j

\* The workers that will not tick a run from the list they have.
Free(r) == {w \in Poller : \A i \in 1 .. Len(turn[w].list) : turn[w].list[i] # r}

\* Each late tick of a paused run has used up the list of a worker, and no list
\* that is read later holds the run.
LateInv ==
    \A r \in Run : IF reason[r] = "none" THEN late[r] = 0 ELSE late[r] <= Cardinality(Free(r))

QueueInv ==
    /\ QueueTypes
    /\ \A w \in Poller : Once(turn[w].list)
    /\ LeasesFit
    /\ BudgetPauseIsKept
    /\ LateInv

\* The order of the queue is strict, total and transitive.
LEMMA BeforeOrders ==
    ASSUME QueueTypes, NEW r \in Run, NEW s \in Run
    PROVE  /\ ~ Before(r, r)
           /\ r # s => Before(r, s) \/ Before(s, r)
           /\ \A q \in Run : Before(q, r) /\ Before(r, s) => Before(q, s)
  BY QueueAssumption DEF QueueTypes, Before, Run

\* Ordered lists each run of a set once.
LEMMA OrderedLists ==
    ASSUME QueueTypes, NEW S \in SUBSET Run
    PROVE  Ordered(S) \in Seq(S) /\ Once(Ordered(S))
  <1> DEFINE below(r) == {s \in S : Before(s, r)}
             n == Cardinality(S)
             f == [r \in S |-> Cardinality(below(r))]
  <1>1. IsFiniteSet(S) /\ n \in Nat
    <2>1. IsFiniteSet(Run)
      BY QueueAssumption, FS_Interval DEF Run
    <2> QED
      BY <2>1, FS_Subset, FS_CardinalityType
  <1>2. ASSUME NEW r \in S
        PROVE  IsFiniteSet(below(r)) /\ Cardinality(below(r)) \in 0 .. (n - 1)
    <2>1. below(r) \in SUBSET (S \ {r})
      BY BeforeOrders
    <2>2. IsFiniteSet(S \ {r}) /\ Cardinality(S \ {r}) = n - 1
      BY <1>1, FS_RemoveElement
    <2>3. IsFiniteSet(below(r)) /\ Cardinality(below(r)) <= Cardinality(S \ {r})
      BY <2>1, <2>2, FS_Subset
    <2>4. Cardinality(below(r)) \in Nat
      BY <2>3, FS_CardinalityType
    <2> QED
      BY <1>1, <2>2, <2>3, <2>4
  <1>3. ASSUME NEW r \in S, NEW s \in S, Before(r, s)
        PROVE  Cardinality(below(r)) < Cardinality(below(s))
    <2>1. r \in below(s) /\ below(r) \in SUBSET (below(s) \ {r})
      BY <1>3, BeforeOrders
    <2>2. IsFiniteSet(below(s) \ {r}) /\ Cardinality(below(s) \ {r}) = Cardinality(below(s)) - 1
      BY <1>2, <2>1, FS_RemoveElement
    <2>3. Cardinality(below(r)) <= Cardinality(below(s) \ {r})
      BY <2>1, <2>2, FS_Subset
    <2> HIDE DEF below
    <2> QED
      BY <1>2, <2>2, <2>3
  <1>4. f \in Injection(S, 0 .. (n - 1))
    <2>1. f \in [S -> 0 .. (n - 1)]
      BY <1>2
    <2>2. ASSUME NEW r \in S, NEW s \in S, r # s PROVE f[r] # f[s]
      <3>1. Before(r, s) \/ Before(s, r)
        BY <2>2, BeforeOrders
      <3>2. f[r] < f[s] \/ f[s] < f[r]
        BY <1>3, <3>1
      <3> QED
        BY <2>1, <3>2
    <2> HIDE DEF f
    <2> QED
      BY <2>1, <2>2 DEF Injection, IsInjective
  <1>5. IsFiniteSet(0 .. (n - 1)) /\ Cardinality(0 .. (n - 1)) = n
    BY <1>1, FS_Interval
  <1>6. f \in Surjection(S, 0 .. (n - 1))
    <2> HIDE DEF f, n
    <2> QED
      BY <1>4, <1>5, FS_Injection DEF n
  <1>7. ASSUME NEW i \in 1 .. n PROVE \E r \in S : Cardinality(below(r)) = i - 1
    <2>1. i - 1 \in 0 .. (n - 1)
      BY <1>1
    <2>2. PICK r \in S : f[r] = i - 1
      BY <1>6, <2>1 DEF Surjection
    <2> QED
      BY <2>2
  <1> DEFINE g == [i \in 1 .. n |-> CHOOSE r \in S : Cardinality(below(r)) = i - 1]
  <1>8. \A i \in 1 .. n : g[i] \in S /\ Cardinality(below(g[i])) = i - 1
    BY <1>7
  <1>9. Ordered(S) = g
    BY DEF Ordered
  <1> HIDE DEF g
  <1>10. g \in Seq(S) /\ Len(g) = n
    <2> HIDE DEF n
    <2>1. g = [i \in 1 .. n |-> g[i]]
      BY DEF g
    <2>2. g \in [1 .. n -> S]
      BY <1>8, <2>1
    <2> QED
      BY <1>1, <2>2
  <1>11. Once(g)
    <2> SUFFICES ASSUME NEW i \in 1 .. n, NEW j \in 1 .. n, g[i] = g[j] PROVE i = j
      BY <1>10 DEF Once
    <2>1. i - 1 = j - 1
      BY <1>8
    <2> QED
      BY <1>1, <2>1
  <1> QED
    BY <1>9, <1>10, <1>11

\* A list of runs of a set is a list of runs.
LEMMA SeqWidens ==
    ASSUME NEW S, NEW T, S \subseteq T, NEW s \in Seq(S)
    PROVE  s \in Seq(T)
  OBVIOUS

\* FirstOf keeps the beginning of a list.
LEMMA FirstOfList ==
    ASSUME NEW S, NEW s \in Seq(S), Once(s)
    PROVE  FirstOf(s) \in Seq(S) /\ Once(FirstOf(s))
  BY QueueAssumption DEF FirstOf, Once

\* What a turn reads: runs that may be selected, each once.
LEMMA SelectReads ==
    ASSUME QueueTypes, NEW w \in Poller, Select(w)
    PROVE  /\ turn' \in [Poller -> Turns]
           /\ turn[w] = NoTurn /\ turn'[w].at = "free"
           /\ \A v \in Poller : v # w => turn'[v] = turn[v]
           /\ Once(turn'[w].list)
           /\ \A i \in 1 .. Len(turn'[w].list) : Selectable(turn'[w].list[i])
  <1> DEFINE S == {r \in Run : Selectable(r)}
             list == Ordered(S)
             late5 == {r \in Run : started[r] = "overdue" /\ \E i \in 1 .. Len(list) : list[i] = r}
  <1>1. list \in Seq(S) /\ Once(list)
    BY OrderedLists
  <1>2. Ordered(late5) \in Seq(late5)
    BY OrderedLists
  <1>3. FirstOf(list) \in Seq(S) /\ Once(FirstOf(list))
    <2> HIDE DEF S, list
    <2> QED
      BY <1>1, FirstOfList
  <1>4. PICK todo \in RunsToPause(list) :
            turn[w] = NoTurn /\
            turn' = [turn EXCEPT ![w] = [list |-> FirstOf(list), todo |-> todo, at |-> "free", run |-> 0]]
    BY DEF Select, Read, NoTurn
  <1>5. todo = << >> \/ todo = Ordered(late5)
    BY <1>4 DEF RunsToPause
  <1>6. todo \in Seq(Run)
    <2>1. late5 \subseteq Run
      OBVIOUS
    <2> HIDE DEF late5, list
    <2>2. Ordered(late5) \in Seq(Run)
      BY <1>2, <2>1, SeqWidens
    <2>3. << >> \in Seq(Run)
      OBVIOUS
    <2> QED
      BY <1>5, <2>2, <2>3
  <1>7. FirstOf(list) \in Seq(Run) /\ \A i \in 1 .. Len(FirstOf(list)) : Selectable(FirstOf(list)[i])
    <2> DEFINE t == FirstOf(list)
    <2>1. S \subseteq Run /\ \A r \in S : Selectable(r)
      OBVIOUS
    <2> HIDE DEF t, S
    <2> QED
      BY <1>3, <2>1 DEF t
  <1>8. turn \in [Poller -> Turns]
    BY DEF QueueTypes, QueueTypeOK, Turns
  <1> HIDE DEF list
  <1>9. [list |-> FirstOf(list), todo |-> todo, at |-> "free", run |-> 0] \in Turns
    BY <1>6, <1>7, QueueAssumption DEF Turns
  <1> QED
    BY <1>3, <1>4, <1>7, <1>8, <1>9

\* The first state.
LEMMA QueueStarts == QueueInit => QueueInv
  <1> SUFFICES ASSUME QueueInit PROVE QueueInv
    OBVIOUS
  <1> USE QueueAssumption
  <1>1. (CHOOSE p \in Priority : TRUE) \in Nat
    OBVIOUS
  <1>2. QueueTypeOK
    BY DEF QueueInit, QueueTypeOK, NoTurn
  <1>7. LeasesFit
    <2>1. \A r \in Run : Busy(r) = {}
      BY DEF QueueInit, NoTurn, Busy
    <2>2. \A r \in Run : waits[r] = 0 /\ work[r] \in Nat
      BY DEF QueueInit
    <2>3. \A r \in Run : Cardinality(Busy(r)) = 0
      BY <2>1, FS_EmptySet
    <2> QED
      BY <2>2, <2>3 DEF LeasesFit
  <1>3. resume \in [at : {"idle", "clear", "resume", "restore"}, run : 0 .. Runs, seen : Reasons]
    BY DEF QueueInit, NoResume, Reasons
  <1>4. priority \in [Run -> Nat] /\ late \in [Run -> Nat] /\ prioritized \in BOOLEAN /\ resume.at = "idle"
    BY <1>1 DEF QueueInit, NoResume
  <1>5. \A w \in Poller : Once(turn[w].list)
    BY DEF QueueInit, NoTurn, Once
  <1>6. BudgetPauseIsKept /\ LateInv
    BY DEF QueueInit, BudgetPauseIsKept, LateInv
  <1> QED
    BY <1>2, <1>3, <1>4, <1>5, <1>6, <1>7 DEF QueueInv, QueueTypes

\* One reason is written, and the count of late ticks starts over when a pause ends.
LEMMA ReasonWritten ==
    ASSUME QueueTypes, NEW r \in Run, NEW x \in Reasons, SetReason(r, x)
    PROVE  /\ reason' \in [Run -> Reasons] /\ late' \in [Run -> Nat]
           /\ reason'[r] = x /\ late'[r] = (IF x = "none" THEN 0 ELSE late[r])
           /\ \A s \in Run : s # r => reason'[s] = reason[s] /\ late'[s] = late[s]
  BY DEF SetReason, QueueTypes, QueueTypeOK, Reasons

\* A decision that stands is about a run.
LEMMA StandingScopes ==
    ASSUME QueueTypes
    PROVE  \A a \in standing : a \in Artifact /\ ScopeOf[a] \in Run
  <1>1. decided \in Seq(Artifact) /\ \A a \in standing : \E i \in 1 .. Len(decided) : decided[i] = a
    BY DEF QueueTypes, QueueTypeOK
  <1>2. \A i \in 1 .. Len(decided) : decided[i] \in Artifact
    BY <1>1
  <1>3. \A a \in standing : a \in Artifact
    BY <1>1, <1>2
  <1> QED
    BY <1>3, QueueAssumption

\* The latest finding about a run that is not paused by it does not stand.
LEMMA PausableKeepsDecisions ==
    ASSUME QueueInv, NEW r \in Run, NEW x \in Reasons, SetReason(r, x), UNCHANGED <<decided, standing>>,
           OpenDecisions(r) = {} \/ reason[r] = "none"
    PROVE  BudgetPauseIsKept'
  <1>1. reason'[r] = x /\ \A s \in Run : s # r => reason'[s] = reason[s]
    BY ReasonWritten DEF QueueInv
  <1>2. \A a \in standing : a \in Artifact /\ ScopeOf[a] \in Run
    BY StandingScopes DEF QueueInv
  <1>0. \A a, b : Later(b, a)' <=> Later(b, a)
    BY DEF Later
  <1> SUFFICES ASSUME NEW a \in standing, \A b \in Artifact : ScopeOf[b] = ScopeOf[a] => ~ Later(b, a)
               PROVE  reason'[ScopeOf[a]] = a
    BY <1>0 DEF BudgetPauseIsKept
  <1>3. reason[ScopeOf[a]] = a
    BY DEF QueueInv, BudgetPauseIsKept
  <1>4. ScopeOf[a] # r
    BY <1>2, <1>3, QueueAssumption DEF OpenDecisions
  <1> QED
    BY <1>1, <1>2, <1>3, <1>4

\* A finding that is applied becomes the latest about its run.
LEMMA ApplyKeepsDecisions ==
    ASSUME QueueInv, NEW a \in Artifact, ApplyBudgetPause(a)
    PROVE  BudgetPauseIsKept'
  <1>0. ScopeOf[a] \in Run /\ a \in Reasons
    BY QueueAssumption DEF Reasons
  <1>1. reason'[ScopeOf[a]] = a /\ \A s \in Run : s # ScopeOf[a] => reason'[s] = reason[s]
    BY <1>0, ReasonWritten DEF QueueInv, ApplyBudgetPause
  <1>2. \A c \in standing : c \in Artifact /\ ScopeOf[c] \in Run
    BY StandingScopes DEF QueueInv
  <1>3. /\ decided \in Seq(Artifact) /\ decided' = Append(decided, a)
        /\ \A c \in standing : \E i \in 1 .. Len(decided) : decided[i] = c
    BY DEF QueueInv, QueueTypes, QueueTypeOK, ApplyBudgetPause
  <1>4. /\ Len(decided') = Len(decided) + 1 /\ decided'[Len(decided) + 1] = a
        /\ \A i \in 1 .. Len(decided) : decided'[i] = decided[i]
    BY <1>3
  <1>5. \A c \in standing : Later(a, c)'
    BY <1>3, <1>4 DEF Later
  <1>6. ASSUME NEW c, NEW b, Later(b, c) PROVE Later(b, c)'
    <2>1. PICK i \in 1 .. Len(decided), j \in 1 .. Len(decided) : decided[i] = b /\ decided[j] = c /\ i > j
      BY <1>6 DEF Later
    <2>2. i \in 1 .. Len(decided') /\ j \in 1 .. Len(decided') /\ decided'[i] = b /\ decided'[j] = c
      BY <1>3, <1>4, <2>1
    <2> QED
      BY <2>1, <2>2 DEF Later
  <1> SUFFICES ASSUME NEW c \in standing', \A b \in Artifact : ScopeOf[b] = ScopeOf[c] => ~ Later(b, c)'
               PROVE  reason'[ScopeOf[c]] = c
    BY DEF BudgetPauseIsKept
  <1>7. CASE c = a
    BY <1>1, <1>7
  <1>8. CASE c # a
    <2>1. c \in standing
      BY <1>8 DEF ApplyBudgetPause
    <2>2. ScopeOf[c] # ScopeOf[a]
      BY <1>5, <2>1
    <2>3. reason[ScopeOf[c]] = c
      BY <1>6, <2>1 DEF QueueInv, BudgetPauseIsKept
    <2> QED
      BY <1>1, <1>2, <2>1, <2>2, <2>3
  <1> QED
    BY <1>7, <1>8

\* When the latest decision is recovered, those before it have a later one.
LEMMA RecoverKeepsDecisions ==
    ASSUME QueueInv, NEW r \in Run, RecoverBudgetPause(r)
    PROVE  BudgetPauseIsKept'
  <1>1. PICK a \in OpenDecisions(r) :
            /\ \A b \in OpenDecisions(r) \ {a} : Later(a, b)
            /\ SetReason(r, "none") /\ standing' = standing \ {a} /\ decided' = decided
    BY DEF RecoverBudgetPause
  <1>2. reason'[r] = "none" /\ \A s \in Run : s # r => reason'[s] = reason[s]
    BY <1>1, ReasonWritten DEF QueueInv, Reasons
  <1>3. \A c \in standing : c \in Artifact /\ ScopeOf[c] \in Run
    BY StandingScopes DEF QueueInv
  <1>0. \A b, c : Later(b, c)' <=> Later(b, c)
    BY <1>1 DEF Later
  <1> SUFFICES ASSUME NEW c \in standing', \A b \in Artifact : ScopeOf[b] = ScopeOf[c] => ~ Later(b, c)
               PROVE  reason'[ScopeOf[c]] = c
    BY <1>0 DEF BudgetPauseIsKept
  <1>4. c \in standing /\ c # a /\ a \in standing /\ ScopeOf[a] = r
    BY <1>1 DEF OpenDecisions
  <1>5. reason[ScopeOf[c]] = c
    BY <1>4 DEF QueueInv, BudgetPauseIsKept
  <1>6. ScopeOf[c] # r
    BY <1>1, <1>3, <1>4 DEF OpenDecisions
  <1> QED
    BY <1>2, <1>3, <1>4, <1>5, <1>6

\* Every step keeps the decision made last the reason of its run.
LEMMA BudgetStep ==
    ASSUME QueueInv, [QueueNext]_qvars
    PROVE  BudgetPauseIsKept'
  <1>0. {"none", "hold", "backpressure", "api"} \subseteq Reasons
        /\ (resume.at # "idle" => resume.run \in Run /\ resume.seen \in Reasons)
        /\ \A w \in Poller : turn[w].todo \in Seq(Run)
    BY DEF Reasons, QueueInv, QueueTypes, QueueTypeOK
  <1>1. ASSUME UNCHANGED <<reason, decided, standing>> PROVE BudgetPauseIsKept'
    BY <1>1 DEF QueueInv, BudgetPauseIsKept, Later
  <1>2. ASSUME NEW r \in Run, NEW x \in {"hold", "none"}, SetPause(r, x) PROVE BudgetPauseIsKept'
    BY <1>0, <1>2, PausableKeepsDecisions DEF SetPause, Pausable
  <1>3. ASSUME NEW r \in Run, Adopt(r) PROVE BudgetPauseIsKept'
    BY <1>0, <1>3, PausableKeepsDecisions DEF Adopt
  <1>4. CASE ClearPause
    BY <1>0, <1>1, <1>4, PausableKeepsDecisions DEF ClearPause, Pausable
  <1>5. CASE RestorePause
    BY <1>0, <1>1, <1>5, PausableKeepsDecisions DEF RestorePause, Pausable
  <1>6. ASSUME NEW w \in Poller, PauseOverdue(w) PROVE BudgetPauseIsKept'
    <2>1. Head(turn[w].todo) \in Run
      BY <1>0, <1>6 DEF PauseOverdue
    <2> QED
      BY <1>0, <1>1, <1>6, <2>1, PausableKeepsDecisions DEF PauseOverdue, Pausable
  <1>7. ASSUME NEW w \in Poller, PoolIsFull(w) \/ TickRun(w) \/ Settle(w) \/ GoOn(w) \/ LeaseExpires(w)
        PROVE  BudgetPauseIsKept'
    BY <1>1, <1>7 DEF PoolIsFull, TickRun, Settle, GoOn, LeaseExpires
  <1>8. ASSUME NEW w \in Poller, Select(w) PROVE BudgetPauseIsKept'
    BY <1>1, <1>8 DEF Select, Read
  <1>9. CASE RequestResume \/ UNCHANGED qvars
    BY <1>1, <1>9 DEF RequestResume, qvars
  <1>10. ASSUME NEW r \in Run, ReadPause(r) \/ BecomesOverdue(r) \/ Approve(r)
         PROVE  BudgetPauseIsKept'
    BY <1>1, <1>10 DEF ReadPause, BecomesOverdue, Approve
  <1>11. ASSUME NEW r \in Run, NEW p \in Priority, UpdatePriority(r, p) PROVE BudgetPauseIsKept'
    BY <1>1, <1>11 DEF UpdatePriority
  <1> QED
    BY <1>2, <1>3, <1>4, <1>5, <1>6, <1>7, <1>8, <1>9, <1>10, <1>11, ApplyKeepsDecisions, RecoverKeepsDecisions
       DEF QueueNext, TurnStep

\* One worker's turn is written.
LEMMA TurnWritten ==
    ASSUME turn \in [Poller -> Turns], NEW w \in Poller, NEW t \in Turns, turn' = [turn EXCEPT ![w] = t]
    PROVE  /\ turn' \in [Poller -> Turns] /\ turn'[w] = t
           /\ \A v \in Poller : v # w => turn'[v] = turn[v]
  OBVIOUS

\* The types of a turn.
LEMMA TurnIs ==
    ASSUME QueueTypes, NEW w \in Poller
    PROVE  /\ turn \in [Poller -> Turns] /\ turn[w] \in Turns
           /\ turn[w].list \in Seq(Run) /\ turn[w].todo \in Seq(Run) /\ turn[w].run \in 0 .. Runs
           /\ turn[w].at \in {"free", "leased", "expired", "full"}
           /\ turn[w].at # "free" => turn[w].run \in Run
  BY DEF QueueTypes, QueueTypeOK, Turns

\* A run to pause is paused, or the turn is over.
LEMMA PauseMoves ==
    ASSUME QueueTypes, NEW w \in Poller, PauseOverdue(w)
    PROVE  /\ Head(turn[w].todo) \in Run
           /\ turn' \in [Poller -> Turns] /\ \A v \in Poller : v # w => turn'[v] = turn[v]
           /\ \/ Pausable(Head(turn[w].todo)) /\ turn'[w].list = turn[w].list
              \/ ~ Pausable(Head(turn[w].todo)) /\ turn'[w].list = << >>
           /\ \/ turn'[w].at = turn[w].at /\ turn'[w].run = turn[w].run
              \/ turn'[w].at = "free"
  <1>1. Head(turn[w].todo) \in Run /\ Tail(turn[w].todo) \in Seq(Run)
    BY TurnIs DEF PauseOverdue
  <1> DEFINE t == [turn[w] EXCEPT !.todo = Tail(turn[w].todo)]
  <1>2. t \in Turns /\ t.list = turn[w].list /\ t.at = turn[w].at /\ t.run = turn[w].run
    BY <1>1, TurnIs DEF Turns
  <1>3. NoTurn \in Turns /\ NoTurn.list = << >> /\ NoTurn.at = "free"
    BY QueueAssumption DEF NoTurn, Turns
  <1>4. CASE Pausable(Head(turn[w].todo))
    <2>1. turn' = [turn EXCEPT ![w] = t]
      BY <1>4, TurnIs DEF PauseOverdue
    <2> HIDE DEF t
    <2> QED
      BY <1>1, <1>2, <1>4, <2>1, TurnWritten, TurnIs
  <1>5. CASE ~ Pausable(Head(turn[w].todo))
    <2>1. turn' = [turn EXCEPT ![w] = NoTurn]
      BY <1>5 DEF PauseOverdue
    <2> QED
      BY <1>1, <1>3, <1>5, <2>1, TurnWritten, TurnIs
  <1> QED
    BY <1>4, <1>5

\* The next run of the list is taken up.
LEMMA TakeMoves ==
    ASSUME QueueTypes, NEW w \in Poller, AtRun(w), NEW a \in {"free", "leased", "full"}, Take(w, a)
    PROVE  /\ turn[w].list # << >> /\ Head(turn[w].list) \in Run /\ turn[w].at = "free"
           /\ turn' \in [Poller -> Turns] /\ \A v \in Poller : v # w => turn'[v] = turn[v]
           /\ turn'[w].list = Tail(turn[w].list) /\ turn'[w].at = a
           /\ a # "free" => turn'[w].run = Head(turn[w].list)
  <1> DEFINE r == Head(turn[w].list)
             t == [list |-> Tail(turn[w].list), todo |-> << >>, at |-> a, run |-> IF a = "free" THEN 0 ELSE r]
  <1>1. turn[w].list # << >> /\ r \in Run /\ Tail(turn[w].list) \in Seq(Run) /\ turn[w].at = "free"
    BY TurnIs DEF AtRun
  <1>2. t \in Turns
    <2>1. (IF a = "free" THEN 0 ELSE r) \in 0 .. Runs
      BY <1>1, QueueAssumption DEF Run
    <2> QED
      BY <1>1, <2>1 DEF Turns
  <1>3. turn' = [turn EXCEPT ![w] = t]
    BY DEF Take
  <1>4. t.list = Tail(turn[w].list) /\ t.at = a /\ (a # "free" => t.run = r)
    OBVIOUS
  <1> HIDE DEF t
  <1> QED
    BY <1>1, <1>2, <1>3, <1>4, TurnWritten, TurnIs

\* A tick ends, or loses its lease.
LEMMA TickMoves ==
    ASSUME QueueTypes, NEW w \in Poller, Settle(w) \/ GoOn(w) \/ LeaseExpires(w)
    PROVE  /\ turn' \in [Poller -> Turns] /\ \A v \in Poller : v # w => turn'[v] = turn[v]
           /\ turn'[w].list = turn[w].list /\ turn'[w].at \in {"free", "expired"}
           /\ turn'[w].at # "free" => turn'[w].run \in Run
  <1> DEFINE t == [turn[w] EXCEPT !.at = "free", !.run = 0]
             u == [turn[w] EXCEPT !.at = "expired"]
  <1>0. turn[w] \in Turns /\ 0 \in 0 .. Runs
    BY TurnIs, QueueAssumption
  <1>1. t \in Turns /\ t.list = turn[w].list /\ t.at = "free"
    BY <1>0 DEF Turns
  <1>4. u \in Turns /\ u.list = turn[w].list /\ u.at = "expired" /\ u.run = turn[w].run
    BY <1>0 DEF Turns
  <1>2. CASE Settle(w) \/ GoOn(w)
    <2>1. turn' = [turn EXCEPT ![w] = t]
      BY <1>2, TurnIs DEF Settle, GoOn, LeaveRun
    <2> HIDE DEF t
    <2> QED
      BY <1>1, <2>1, TurnWritten, TurnIs
  <1>3. CASE LeaseExpires(w)
    <2>1. turn' = [turn EXCEPT ![w] = u] /\ turn[w].at = "leased"
      BY <1>3, TurnIs DEF LeaseExpires
    <2> HIDE DEF u
    <2> QED
      BY <1>4, <2>1, TurnWritten, TurnIs
  <1> QED
    BY <1>2, <1>3

\* The rows a tick writes keep their types.
LEMMA TickTypes ==
    ASSUME QueueTypes, LeasesFit, NEW w \in Poller,
           PoolIsFull(w) \/ TickRun(w) \/ Settle(w) \/ GoOn(w) \/ LeaseExpires(w)
    PROVE  QueueTypes'
  <1> USE QueueAssumption
  <1>t. /\ started \in [Run -> {"no", "recent", "overdue"}] /\ late \in [Run -> Nat]
        /\ work \in [Run -> 0 .. Work] /\ open \subseteq Run /\ waits \in [Run -> Nat]
    BY DEF QueueTypes, QueueTypeOK
  <1>s. \A r \in Run : Started(r) \in [Run -> {"no", "recent", "overdue"}]
    BY <1>t DEF Started
  <1> DEFINE Turned == /\ turn' \in [Poller -> Turns]
                       /\ \A v \in Poller : turn'[v].at # "free" => turn'[v].run \in Run
  <1>1. ASSUME NEW a \in {"free", "leased", "full"}, AtRun(w), Take(w, a) PROVE Turned
    BY <1>1, TakeMoves, TurnIs
  <1>2. CASE PoolIsFull(w)
    <2>1. Turned
      BY <1>1, <1>2 DEF PoolIsFull
    <2> QED
      BY <1>2, <2>1 DEF PoolIsFull, QueueTypes, QueueTypeOK, Turns
  <1>3. CASE TickRun(w)
    <2> DEFINE r == Head(turn[w].list)
    <2>1. PICK a \in {"free", "leased", "full"} : AtRun(w) /\ Take(w, a)
      BY <1>3 DEF TickRun
    <2>2. Turned /\ r \in Run
      BY <1>1, <2>1, TakeMoves
    <2>3. open' \subseteq Run /\ started' \in {started, Started(r)}
      BY <1>3, <1>t DEF TickRun
    <2>4. late' \in [Run -> Nat]
      <3>1. late' = [late EXCEPT ![r] = late[r]] \/ late' = [late EXCEPT ![r] = late[r] + 1]
        BY <1>3 DEF TickRun
      <3> HIDE DEF r
      <3> QED
        BY <1>t, <2>2, <3>1
    <2> HIDE DEF r
    <2>5. started' \in [Run -> {"no", "recent", "overdue"}]
      BY <1>s, <1>t, <2>2, <2>3
    <2> QED
      BY <1>3, <2>2, <2>3, <2>4, <2>5 DEF TickRun, QueueTypes, QueueTypeOK, Turns
  <1>4. CASE Settle(w)
    <2> DEFINE r == turn[w].run
    <2>1. Turned
      BY <1>4, TickMoves, TurnIs
    <2>2. r \in Run
      BY <1>4, TurnIs DEF Settle
    <2>3. \/ \E n \in 0 .. Work : work' = [work EXCEPT ![r] = n] /\ open' \subseteq open /\ waits' = waits
          \/ waits' = [waits EXCEPT ![r] = waits[r] + 1] /\ UNCHANGED <<work, open>>
          \/ UNCHANGED <<work, open, waits>>
      BY <1>4 DEF Settle
    <2> HIDE DEF r
    <2>4. work' \in [Run -> 0 .. Work] /\ open' \subseteq Run /\ waits' \in [Run -> Nat]
      BY <1>t, <2>2, <2>3
    <2> QED
      BY <1>4, <2>1, <2>4 DEF Settle, QueueTypes, QueueTypeOK, Turns
  <1>5. CASE GoOn(w) \/ LeaseExpires(w)
    <2>1. Turned
      BY <1>5, TickMoves, TurnIs
    <2> QED
      BY <1>5, <2>1 DEF GoOn, LeaseExpires, QueueTypes, QueueTypeOK, Turns
  <1> QED
    BY <1>2, <1>3, <1>4, <1>5

\* Every step keeps the types.
LEMMA QueueTypeStep ==
    ASSUME QueueTypes, LeasesFit, [QueueNext]_qvars
    PROVE  QueueTypes'
  <1> USE QueueAssumption
  <1>0. /\ {"none", "hold", "backpressure", "api"} \subseteq Reasons /\ Artifact \subseteq Reasons
        /\ (resume.at # "idle" => resume.run \in Run /\ resume.seen \in Reasons)
        /\ \A w \in Poller : turn[w].todo \in Seq(Run) /\ turn[w].list \in Seq(Run)
    BY DEF Reasons, QueueTypes, QueueTypeOK
  <1>n. NoResume \in [at : {"idle", "clear", "resume", "restore"}, run : 0 .. Runs, seen : Reasons]
        /\ NoResume.at = "idle"
    BY DEF NoResume, Reasons
  <1>r. ASSUME NEW r \in Run, NEW x \in Reasons, SetReason(r, x)
        PROVE  reason' \in [Run -> {"none", "hold", "backpressure", "api"} \cup Artifact] /\ late' \in [Run -> Nat]
    BY <1>r, ReasonWritten DEF Reasons
  <1>s. \A r \in Run : Started(r) \in [Run -> {"no", "recent", "overdue"}]
    BY DEF Started, QueueTypes, QueueTypeOK
  <1>1. ASSUME NEW w \in Poller, Select(w) PROVE QueueTypes'
    <2>1. turn' \in [Poller -> Turns] /\ \A v \in Poller : turn'[v].at # "free" => turn'[v].run \in Run
      BY <1>1, SelectReads, TurnIs
    <2> QED
      BY <1>1, <2>1 DEF Select, Read, QueueTypes, QueueTypeOK, Turns
  <1>2. ASSUME NEW w \in Poller, PauseOverdue(w) PROVE QueueTypes'
    <2>1. Head(turn[w].todo) \in Run
      BY <1>2, PauseMoves
    <2>2. turn' \in [Poller -> Turns] /\ \A v \in Poller : turn'[v].at # "free" => turn'[v].run \in Run
      BY <1>2, PauseMoves, TurnIs
    <2>3. reason' \in [Run -> {"none", "hold", "backpressure", "api"} \cup Artifact] /\ late' \in [Run -> Nat]
      BY <1>0, <1>2, <1>r, <2>1 DEF PauseOverdue, QueueTypes, QueueTypeOK
    <2> QED
      BY <1>2, <2>2, <2>3 DEF PauseOverdue, QueueTypes, QueueTypeOK, Turns
  <1>3. ASSUME NEW w \in Poller, PoolIsFull(w) \/ TickRun(w) \/ Settle(w) \/ GoOn(w) \/ LeaseExpires(w)
        PROVE  QueueTypes'
    BY <1>3, TickTypes
  <1>4. ASSUME NEW r \in Run, NEW x \in {"hold", "none"}, SetPause(r, x) PROVE QueueTypes'
    <2>1. requests' \in 0 .. MaxRequests
      BY <1>4 DEF SetPause, Request, QueueTypes, QueueTypeOK
    <2> QED
      BY <1>0, <1>4, <1>r, <2>1 DEF SetPause, QueueTypes, QueueTypeOK
  <1>5. ASSUME NEW a \in Artifact, ApplyBudgetPause(a) PROVE QueueTypes'
    <2>1. ScopeOf[a] \in Run /\ decided \in Seq(Artifact) /\ decided' = Append(decided, a)
      BY <1>5 DEF ApplyBudgetPause, QueueTypes, QueueTypeOK
    <2>2. reason' \in [Run -> {"none", "hold", "backpressure", "api"} \cup Artifact] /\ late' \in [Run -> Nat]
      BY <1>0, <1>5, <1>r, <2>1 DEF ApplyBudgetPause
    <2>3. /\ decided' \in Seq(Artifact) /\ Len(decided') = Len(decided) + 1 /\ decided'[Len(decided) + 1] = a
          /\ \A i \in 1 .. Len(decided) : decided'[i] = decided[i]
      BY <2>1
    <2>4. \A i, j \in 1 .. Len(decided) : decided[i] = decided[j] => i = j
      BY DEF QueueTypes, QueueTypeOK
    <2>5. \A i, j \in 1 .. Len(decided') : decided'[i] = decided'[j] => i = j
      BY <1>5, <2>1, <2>3, <2>4 DEF ApplyBudgetPause
    <2>6. \A c \in standing' : \E i \in 1 .. Len(decided') : decided'[i] = c
      BY <1>5, <2>1, <2>3 DEF ApplyBudgetPause, QueueTypes, QueueTypeOK
    <2> QED
      BY <1>5, <2>2, <2>3, <2>5, <2>6 DEF ApplyBudgetPause, QueueTypes, QueueTypeOK
  <1>6. ASSUME NEW r \in Run, RecoverBudgetPause(r) PROVE QueueTypes'
    BY <1>0, <1>6, <1>r DEF RecoverBudgetPause, QueueTypes, QueueTypeOK
  <1>7. ASSUME NEW r \in Run, Adopt(r) PROVE QueueTypes'
    BY <1>0, <1>7, <1>r DEF Adopt, QueueTypes, QueueTypeOK
  <1>8. ASSUME NEW r \in Run, ReadPause(r) PROVE QueueTypes'
    <2>1. /\ resume' \in [at : {"idle", "clear", "resume", "restore"}, run : 0 .. Runs, seen : Reasons]
          /\ resume'.run \in Run
      BY <1>8 DEF ReadPause, Run, Reasons, QueueTypes, QueueTypeOK
    <2>2. requests' \in 0 .. MaxRequests
      BY <1>8 DEF ReadPause, Request, QueueTypes, QueueTypeOK
    <2> QED
      BY <1>8, <2>1, <2>2 DEF ReadPause, QueueTypes, QueueTypeOK
  <1>9. CASE ClearPause
    <2>1. /\ resume' \in [at : {"idle", "clear", "resume", "restore"}, run : 0 .. Runs, seen : Reasons]
          /\ resume'.at # "idle" => resume'.run \in Run
      BY <1>9, <1>n DEF ClearPause, QueueTypes
    <2>2. reason' \in [Run -> {"none", "hold", "backpressure", "api"} \cup Artifact] /\ late' \in [Run -> Nat]
      BY <1>0, <1>9, <1>r DEF ClearPause, QueueTypes, QueueTypeOK
    <2> QED
      BY <1>9, <2>1, <2>2 DEF ClearPause, QueueTypes, QueueTypeOK
  <1>10. CASE RequestResume
    <2>1. /\ resume' \in [at : {"idle", "clear", "resume", "restore"}, run : 0 .. Runs, seen : Reasons]
          /\ resume'.at # "idle" => resume'.run \in Run
      BY <1>10, <1>n DEF RequestResume, QueueTypes
    <2>2. open' \subseteq Run /\ started' \in [Run -> {"no", "recent", "overdue"}]
      BY <1>0, <1>10, <1>s DEF RequestResume, QueueTypes, QueueTypeOK
    <2> QED
      BY <1>10, <2>1, <2>2 DEF RequestResume, QueueTypes, QueueTypeOK
  <1>11. CASE RestorePause
    <2>1. reason' \in [Run -> {"none", "hold", "backpressure", "api"} \cup Artifact] /\ late' \in [Run -> Nat]
      BY <1>0, <1>11, <1>r DEF RestorePause, QueueTypes, QueueTypeOK
    <2> QED
      BY <1>11, <1>n, <2>1 DEF RestorePause, QueueTypes, QueueTypeOK
  <1>12. ASSUME NEW r \in Run, BecomesOverdue(r) \/ Approve(r) PROVE QueueTypes'
    <2>1. Approve(r) => waits' \in [Run -> Nat]
      <3>1. waits \in [Run -> Nat]
        BY DEF QueueTypes, QueueTypeOK
      <3>2. Approve(r) => waits[r] > 0 /\ waits' = [waits EXCEPT ![r] = waits[r] - 1]
        BY DEF Approve
      <3>3. waits[r] > 0 => waits[r] - 1 \in Nat
        BY <3>1
      <3> QED
        BY <3>1, <3>2, <3>3
    <2>2. CASE BecomesOverdue(r)
      BY <2>2 DEF BecomesOverdue, QueueTypes, QueueTypeOK
    <2>3. CASE Approve(r)
      BY <2>1, <2>3 DEF Approve, QueueTypes, QueueTypeOK
    <2> QED
      BY <1>12, <2>2, <2>3
  <1>13. ASSUME NEW r \in Run, NEW p \in Priority, UpdatePriority(r, p) PROVE QueueTypes'
    BY <1>13 DEF UpdatePriority, Request, QueueTypes, QueueTypeOK
  <1>14. CASE UNCHANGED qvars
    BY <1>14 DEF qvars, QueueTypes, QueueTypeOK
  <1> QED
    BY <1>1, <1>2, <1>3, <1>4, <1>5, <1>6, <1>7, <1>8, <1>9, <1>10, <1>11, <1>12, <1>13, <1>14
       DEF QueueNext, TurnStep

\* The workers are finitely many.
LEMMA FreeIsFinite ==
    ASSUME NEW r
    PROVE  /\ IsFiniteSet(Free(r)) /\ Cardinality(Free(r)) \in Nat
           /\ IsFiniteSet(Free(r)') /\ Cardinality(Free(r)') \in Nat
           /\ Cardinality(Free(r)) <= Cardinality(Poller)
           /\ Free(r) \subseteq Free(r)' => Cardinality(Free(r)) <= Cardinality(Free(r)')
  <1>1. Free(r) \in SUBSET Poller /\ Free(r)' \in SUBSET Poller
    BY DEF Free
  <1> QED
    BY <1>1, QueueAssumption, FS_Subset, FS_CardinalityType

LateOf(r) == IF reason[r] = "none" THEN late[r] = 0 ELSE late[r] <= Cardinality(Free(r))

\* A step that ticks nothing keeps the account of a run.
LEMMA LateKept ==
    ASSUME QueueInv, NEW r \in Run, Free(r) \subseteq Free(r)', late'[r] \in {0, late[r]},
           reason'[r] = "none" => reason[r] = "none" \/ late'[r] = 0
    PROVE  LateOf(r)'
  <1>1. late[r] \in Nat /\ LateOf(r)
    BY DEF QueueInv, QueueTypes, LateInv, LateOf
  <1> QED
    BY <1>1, FreeIsFinite DEF LateOf

\* A late tick of a run uses up its place in the list of the worker.
LEMMA LateTick ==
    ASSUME QueueInv, NEW w \in Poller, PoolIsFull(w) \/ TickRun(w), NEW r \in Run
    PROVE  LateOf(r)' /\ Once(turn'[w].list) /\ \A v \in Poller : v # w => turn'[v] = turn[v]
  <1>a. PICK a \in {"free", "leased", "full"} : AtRun(w) /\ Take(w, a)
    BY DEF PoolIsFull, TickRun
  <1>2. turn \in [Poller -> Turns] /\ late \in [Run -> Nat] /\ Once(turn[w].list) /\ QueueTypes
    BY TurnIs DEF QueueInv, QueueTypes
  <1>m. /\ turn[w].list # << >> /\ Head(turn[w].list) \in Run
        /\ turn'[w].list = Tail(turn[w].list) /\ \A v \in Poller : v # w => turn'[v] = turn[v]
    BY <1>2, <1>a, TakeMoves
  <1>1. PICK s \in Run :
             /\ turn[w].list # << >> /\ s = Head(turn[w].list)
             /\ \/ late' = late
                \/ reason[s] # "none" /\ late' = [late EXCEPT ![s] = late[s] + 1]
    BY <1>2, <1>m DEF PoolIsFull, TickRun
  <1> DEFINE t == turn[w].list
  <1>3. /\ t \in Seq(Run) /\ t # << >> /\ t[1] = s /\ Tail(t) \in Seq(Run) /\ Len(Tail(t)) = Len(t) - 1
        /\ \A i \in 1 .. Len(Tail(t)) : Tail(t)[i] = t[i + 1]
    BY <1>1, <1>2, TurnIs
  <1>4. turn'[w].list = Tail(t) /\ \A v \in Poller : v # w => turn'[v] = turn[v]
    BY <1>m
  <1>5. Once(Tail(t)) /\ \A i \in 1 .. Len(Tail(t)) : Tail(t)[i] # s
    <2> HIDE DEF t
    <2>1. Len(t) \in Nat /\ \A i, j \in 1 .. Len(t) : t[i] = t[j] => i = j
      BY <1>2, <1>3 DEF Once, t
    <2>2. \A i \in 1 .. Len(Tail(t)) : i + 1 \in 1 .. Len(t) /\ Tail(t)[i] = t[i + 1]
      BY <1>3, <2>1
    <2>3. 1 \in 1 .. Len(t)
      BY <1>3
    <2> DEFINE u == Tail(t)
    <2>4. \A i \in 1 .. Len(u) : u[i] # s
      BY <1>3, <2>1, <2>2, <2>3
    <2>5. \A i, j \in 1 .. Len(u) : u[i] = u[j] => i = j
      BY <2>1, <2>2
    <2> QED
      BY <2>4, <2>5 DEF Once
  <1> HIDE DEF t
  <1>e. /\ turn[w].list = t
        /\ \A q : (\A i \in 1 .. Len(t) : t[i] # q) => \A i \in 1 .. Len(Tail(t)) : Tail(t)[i] # q
    <2>1. Len(t) \in Nat /\ \A i \in 1 .. Len(Tail(t)) : i + 1 \in 1 .. Len(t)
      BY <1>3
    <2> QED
      BY <1>3, <2>1 DEF t
  <1>6. Free(r) \subseteq Free(r)'
    <2> DEFINE u == Tail(t)
    <2>1. turn'[w].list = u /\ \A q : (\A i \in 1 .. Len(t) : t[i] # q) => \A i \in 1 .. Len(u) : u[i] # q
      BY <1>4, <1>e
    <2> HIDE DEF u
    <2> QED
      BY <1>4, <1>e, <2>1 DEF Free
  <1>7. reason' = reason
    BY DEF PoolIsFull, TickRun
  <1>8. CASE late'[r] = late[r]
    BY <1>4, <1>5, <1>6, <1>7, <1>8, LateKept
  <1>9. CASE late'[r] # late[r]
    <2>1. r = s /\ reason[s] # "none" /\ late'[s] = late[s] + 1
      BY <1>1, <1>2, <1>9
    <2>2. w \notin Free(s) /\ w \in Free(s)'
      <3> DEFINE u == Tail(t)
      <3>1. turn'[w].list = u /\ \A i \in 1 .. Len(u) : u[i] # s
        BY <1>4, <1>5
      <3>2. 1 \in 1 .. Len(t)
        BY <1>3
      <3> HIDE DEF u
      <3> QED
        BY <1>3, <1>e, <3>1, <3>2 DEF Free
    <2>3. Free(s) \cup {w} \in SUBSET Free(s)' /\ IsFiniteSet(Free(s)) /\ IsFiniteSet(Free(s)')
      BY <1>6, <2>1, <2>2, FreeIsFinite
    <2>4. Cardinality(Free(s) \cup {w}) = Cardinality(Free(s)) + 1
      BY <2>2, <2>3, FS_AddElement
    <2>5. Cardinality(Free(s) \cup {w}) <= Cardinality(Free(s)')
      BY <2>3, FS_Subset
    <2>6. late[s] <= Cardinality(Free(s)) /\ late[s] \in Nat
      BY <1>2, <2>1 DEF QueueInv, LateInv
    <2> QED
      BY <1>4, <1>5, <1>7, <2>1, <2>4, <2>5, <2>6, FreeIsFinite DEF LateOf
  <1> QED
    BY <1>8, <1>9

\* Every step keeps the account of late ticks, and the lists free of repetitions.
LEMMA LateStep ==
    ASSUME QueueInv, [QueueNext]_qvars
    PROVE  LateInv' /\ \A w \in Poller : Once(turn'[w].list)
  <1> DEFINE Kept == (\A r \in Run : LateOf(r)') /\ \A w \in Poller : Once(turn'[w].list)
  <1> SUFFICES Kept
    BY DEF LateInv, LateOf
  <1>0. /\ {"none", "hold", "backpressure", "api"} \subseteq Reasons /\ Artifact \subseteq Reasons
        /\ (resume.at # "idle" => resume.run \in Run /\ resume.seen \in Reasons)
        /\ turn \in [Poller -> Turns] /\ QueueTypes
        /\ \A w \in Poller : turn[w].todo \in Seq(Run) /\ turn[w].list \in Seq(Run) /\ Once(turn[w].list)
    BY DEF Reasons, QueueInv, QueueTypes, QueueTypeOK, Turns
  <1>1. ASSUME UNCHANGED <<reason, late>>,
               \A w \in Poller : turn'[w].list \in {turn[w].list, << >>} PROVE Kept
    <2>1. ASSUME NEW r \in Run PROVE Free(r) \subseteq Free(r)'
      BY <1>1 DEF Free
    <2>2. \A r \in Run : LateOf(r)'
      BY <1>1, <2>1, LateKept
    <2>3. \A w \in Poller : Once(turn'[w].list)
      BY <1>0, <1>1 DEF Once
    <2> QED
      BY <2>2, <2>3
  <1>2. ASSUME NEW r \in Run, NEW x \in Reasons, SetReason(r, x),
               \A w \in Poller : turn'[w].list = turn[w].list PROVE Kept
    <2>1. /\ reason'[r] = x /\ late'[r] = (IF x = "none" THEN 0 ELSE late[r])
          /\ \A s \in Run : s # r => reason'[s] = reason[s] /\ late'[s] = late[s]
      BY <1>0, <1>2, ReasonWritten
    <2>2. ASSUME NEW s \in Run PROVE LateOf(s)'
      <3>1. Free(s) \subseteq Free(s)'
        BY <1>2 DEF Free
      <3> QED
        BY <2>1, <3>1, LateKept
    <2> QED
      BY <1>0, <1>2, <2>2
  <1>3. ASSUME NEW w \in Poller, Select(w) PROVE Kept
    <2>1. /\ turn[w] = NoTurn /\ Once(turn'[w].list)
          /\ \A v \in Poller : v # w => turn'[v] = turn[v]
          /\ \A i \in 1 .. Len(turn'[w].list) : Selectable(turn'[w].list[i])
      BY <1>0, <1>3, SelectReads
    <2>2. UNCHANGED <<reason, late>>
      BY <1>3 DEF Select, Read
    <2>3. ASSUME NEW r \in Run PROVE LateOf(r)'
      <3>1. CASE reason[r] = "none"
        BY <2>2, <3>1 DEF LateOf, QueueInv, LateInv
      <3>2. CASE reason[r] # "none"
        <4>1. Free(r) \subseteq Free(r)'
          BY <2>1, <3>2 DEF Free, Selectable
        <4> QED
          BY <2>2, <4>1, LateKept
      <3> QED
        BY <3>1, <3>2
    <2> QED
      BY <1>0, <2>1, <2>3
  <1>4. ASSUME NEW w \in Poller, PoolIsFull(w) \/ TickRun(w) PROVE Kept
    <2>1. \A r \in Run : LateOf(r)' /\ Once(turn'[w].list) /\ \A v \in Poller : v # w => turn'[v] = turn[v]
      BY <1>4, LateTick
    <2>2. Run # {}
      BY <1>0, <1>4, TakeMoves DEF PoolIsFull, TickRun
    <2> QED
      BY <1>0, <2>1, <2>2
  <1>5. ASSUME NEW w \in Poller, PauseOverdue(w) PROVE Kept
    <2> DEFINE r == Head(turn[w].todo)
    <2>1. r \in Run /\ \A v \in Poller : v # w => turn'[v] = turn[v]
      BY <1>0, <1>5, PauseMoves
    <2>2. CASE Pausable(r)
      <3>1. SetReason(r, "backpressure") /\ "backpressure" \in Reasons
        BY <1>0, <1>5, <2>2 DEF PauseOverdue
      <3>2. \A v \in Poller : turn'[v].list = turn[v].list
        BY <1>0, <1>5, <2>2, PauseMoves
      <3> HIDE DEF r
      <3> QED
        BY <1>2, <2>1, <3>1, <3>2
    <2>3. CASE ~ Pausable(r)
      <3>1. \A v \in Poller : turn'[v].list \in {turn[v].list, << >>}
        BY <1>0, <1>5, <2>3, PauseMoves
      <3> QED
        BY <1>1, <1>5, <2>3, <3>1 DEF PauseOverdue
    <2> QED
      BY <2>2, <2>3
  <1>14. ASSUME NEW w \in Poller, Settle(w) \/ GoOn(w) \/ LeaseExpires(w) PROVE Kept
    <2>1. \A v \in Poller : turn'[v].list = turn[v].list
      BY <1>0, <1>14, TickMoves
    <2>2. UNCHANGED <<reason, late>>
      BY <1>14 DEF Settle, GoOn, LeaseExpires
    <2> QED
      BY <1>1, <2>1, <2>2
  <1>6. ASSUME NEW r \in Run, SetPause(r, "hold") \/ SetPause(r, "none") \/ Adopt(r) PROVE Kept
    BY <1>0, <1>2, <1>6 DEF SetPause, Adopt
  <1>7. ASSUME NEW a \in Artifact, ApplyBudgetPause(a) PROVE Kept
    BY <1>0, <1>2, <1>7, QueueAssumption DEF ApplyBudgetPause
  <1>8. ASSUME NEW r \in Run, RecoverBudgetPause(r) PROVE Kept
    BY <1>0, <1>2, <1>8 DEF RecoverBudgetPause
  <1>9. CASE ClearPause
    BY <1>0, <1>1, <1>2, <1>9 DEF ClearPause
  <1>10. CASE RestorePause
    BY <1>0, <1>1, <1>2, <1>10 DEF RestorePause
  <1>11. CASE RequestResume \/ UNCHANGED qvars
    BY <1>1, <1>11 DEF RequestResume, qvars
  <1>12. ASSUME NEW r \in Run, ReadPause(r) \/ BecomesOverdue(r) \/ Approve(r) PROVE Kept
    BY <1>1, <1>12 DEF ReadPause, BecomesOverdue, Approve
  <1>13. ASSUME NEW r \in Run, NEW p \in Priority, UpdatePriority(r, p) PROVE Kept
    BY <1>1, <1>13 DEF UpdatePriority
  <1> HIDE DEF Kept
  <1> QED
    BY <1>3, <1>4, <1>5, <1>6, <1>7, <1>8, <1>9, <1>10, <1>11, <1>12, <1>13, <1>14 DEF QueueNext, TurnStep

\* The workers that hold a lease are finitely many.
LEMMA BusyIsFinite ==
    ASSUME NEW r
    PROVE  /\ IsFiniteSet(Busy(r)) /\ Cardinality(Busy(r)) \in Nat
           /\ IsFiniteSet(Busy(r)') /\ Cardinality(Busy(r)') \in Nat
           /\ Busy(r)' \subseteq Busy(r) => Cardinality(Busy(r)') <= Cardinality(Busy(r))
  <1>1. Busy(r) \in SUBSET Poller /\ Busy(r)' \in SUBSET Poller
    BY DEF Busy
  <1> QED
    BY <1>1, QueueAssumption, FS_Subset, FS_CardinalityType

\* Only phase 1 of a tick takes a lease.
LEMMA LeasesEnd ==
    ASSUME QueueTypes, NEW r \in Run, NEW w \in Poller,
           \/ Select(w) \/ PauseOverdue(w) \/ PoolIsFull(w) \/ Settle(w) \/ GoOn(w) \/ LeaseExpires(w)
    PROVE  Busy(r)' \subseteq Busy(r)
  <1>1. CASE Select(w)
    BY <1>1, SelectReads DEF Busy
  <1>2. CASE PauseOverdue(w)
    BY <1>2, PauseMoves DEF Busy
  <1>3. CASE PoolIsFull(w)
    BY <1>3, TakeMoves DEF PoolIsFull, Busy
  <1>4. CASE Settle(w) \/ GoOn(w) \/ LeaseExpires(w)
    BY <1>4, TickMoves DEF Busy
  <1> QED
    BY <1>1, <1>2, <1>3, <1>4

\* Phase 1 leases a node of the run it has come to, if that may be ticked.
LEMMA LeaseTaken ==
    ASSUME QueueTypes, NEW r \in Run, NEW w \in Poller, TickRun(w)
    PROVE  \/ Busy(r)' \subseteq Busy(r)
           \/ /\ MayTick(r) /\ HasReadyNode(r)
              /\ w \notin Busy(r) /\ Busy(r)' = Busy(r) \cup {w}
  <1> DEFINE s == Head(turn[w].list)
  <1>1. CASE AtRun(w) /\ MayTick(s) /\ HasReadyNode(s) /\ Take(w, "leased")
    <2>1. /\ turn[w].at = "free" /\ turn'[w].at = "leased" /\ turn'[w].run = s
          /\ \A v \in Poller : v # w => turn'[v] = turn[v]
      BY <1>1, TakeMoves
    <2> HIDE DEF s
    <2> QED
      BY <1>1, <2>1 DEF Busy
  <1>2. CASE AtRun(w) /\ Take(w, "free")
    BY <1>2, TakeMoves DEF Busy
  <1> QED
    BY <1>1, <1>2 DEF TickRun

\* Every step keeps the leases within what is left of each run.
LEMMA LeasesStep ==
    ASSUME QueueInv, [QueueNext]_qvars
    PROVE  LeasesFit'
  <1>0. /\ QueueTypes /\ LeasesFit /\ work \in [Run -> 0 .. Work] /\ waits \in [Run -> Nat] /\ Work \in Nat
    BY QueueAssumption DEF QueueInv, QueueTypes, QueueTypeOK
  <1>1. ASSUME UNCHANGED <<work, waits>>, \A r \in Run : Busy(r)' \subseteq Busy(r) PROVE LeasesFit'
    <2> SUFFICES ASSUME NEW r \in Run PROVE waits'[r] + Cardinality(Busy(r)') <= work'[r]
      BY DEF LeasesFit
    <2> QED
      BY <1>0, <1>1, BusyIsFinite DEF LeasesFit
  <1>2. ASSUME UNCHANGED <<work, waits, turn>> PROVE LeasesFit'
    BY <1>1, <1>2 DEF Busy
  <1>3. ASSUME NEW w \in Poller, Select(w) \/ PauseOverdue(w) \/ PoolIsFull(w) \/ GoOn(w) \/ LeaseExpires(w)
        PROVE  LeasesFit'
    <2>1. UNCHANGED <<work, waits>>
      BY <1>3 DEF Select, Read, PauseOverdue, PoolIsFull, GoOn, LeaseExpires
    <2> QED
      BY <1>0, <1>1, <1>3, <2>1, LeasesEnd
  <1>4. ASSUME NEW w \in Poller, TickRun(w) PROVE LeasesFit'
    <2> SUFFICES ASSUME NEW r \in Run PROVE waits'[r] + Cardinality(Busy(r)') <= work'[r]
      BY DEF LeasesFit
    <2>1. UNCHANGED <<work, waits>>
      BY <1>4 DEF TickRun
    <2>2. CASE Busy(r)' \subseteq Busy(r)
      BY <1>0, <2>1, <2>2, BusyIsFinite DEF LeasesFit
    <2>3. CASE HasReadyNode(r) /\ w \notin Busy(r) /\ Busy(r)' = Busy(r) \cup {w}
      <3>1. Cardinality(Busy(r)') = Cardinality(Busy(r)) + 1
        BY <2>3, BusyIsFinite, FS_AddElement
      <3> QED
        BY <1>0, <2>1, <2>3, <3>1, BusyIsFinite DEF HasReadyNode
    <2> QED
      BY <1>0, <1>4, <2>2, <2>3, LeaseTaken
  <1>5. ASSUME NEW w \in Poller, Settle(w) PROVE LeasesFit'
    <2>0. turn[w].run \in Run /\ turn[w].at = "leased"
      BY <1>0, <1>5, TurnIs DEF Settle
    <2> PICK s \in Run : s = turn[w].run
      BY <2>0
    <2>1. s \in Run /\ w \in Busy(s)
      BY <2>0 DEF Busy
    <2>2. /\ \A v \in Poller : v # w => turn'[v] = turn[v]
          /\ turn'[w].at # "leased"
      BY <1>0, <1>5, TickMoves DEF Settle, LeaveRun, QueueTypes, QueueTypeOK
    <2>3. Busy(s)' = Busy(s) \ {w}
      BY <2>1, <2>2 DEF Busy
    <2>4. Cardinality(Busy(s)') = Cardinality(Busy(s)) - 1
      BY <2>1, <2>3, BusyIsFinite, FS_RemoveElement
    <2>5. \/ \E n \in 0 .. Work : /\ n + 1 >= waits[s] + Cardinality(Busy(s))
                                  /\ work' = [work EXCEPT ![s] = n] /\ waits' = waits
          \/ waits' = [waits EXCEPT ![s] = waits[s] + 1] /\ work' = work
          \/ UNCHANGED <<work, waits>>
      BY <1>5 DEF Settle
    <2>6. waits'[s] + Cardinality(Busy(s)') <= work'[s]
      <3> DEFINE b == Cardinality(Busy(s))
                 c == Cardinality(Busy(s)')
      <3>1. b \in Nat /\ c \in Nat /\ c = b - 1 /\ waits[s] \in Nat /\ waits[s] + b <= work[s] /\ work[s] \in Nat
        BY <1>0, <2>1, <2>4, BusyIsFinite DEF LeasesFit
      <3>2. \/ \E n \in 0 .. Work : n + 1 >= waits[s] + b /\ work'[s] = n /\ waits'[s] = waits[s]
            \/ waits'[s] = waits[s] + 1 /\ work'[s] = work[s]
            \/ waits'[s] = waits[s] /\ work'[s] = work[s]
        BY <1>0, <2>1, <2>5
      <3> HIDE DEF b, c
      <3>3. waits'[s] + c <= work'[s]
        BY <1>0, <3>1, <3>2
      <3> QED
        BY <3>3 DEF c
    <2>7. ASSUME NEW r \in Run, r # s PROVE waits'[r] + Cardinality(Busy(r)') <= work'[r]
      <3>1. waits'[r] = waits[r] /\ work'[r] = work[r]
        BY <1>0, <2>1, <2>5, <2>7
      <3>2. Busy(r)' \subseteq Busy(r)
        BY <1>0, <1>5, LeasesEnd
      <3> QED
        BY <1>0, <3>1, <3>2, BusyIsFinite DEF LeasesFit
    <2> QED
      BY <2>6, <2>7 DEF LeasesFit
  <1>6. ASSUME NEW r \in Run, Approve(r) PROVE LeasesFit'
    <2> SUFFICES ASSUME NEW q \in Run PROVE waits'[q] + Cardinality(Busy(q)') <= work'[q]
      BY DEF LeasesFit
    <2>1. work' = work /\ waits'[q] \in Nat /\ waits'[q] <= waits[q]
      BY <1>0, <1>6 DEF Approve
    <2>2. Busy(q)' = Busy(q)
      BY <1>6 DEF Approve, Busy
    <2> QED
      BY <1>0, <2>1, <2>2, BusyIsFinite DEF LeasesFit
  <1>7. ASSUME NEW r \in Run, SetPause(r, "hold") \/ SetPause(r, "none") \/ Adopt(r) \/ ReadPause(r)
                              \/ RecoverBudgetPause(r) \/ BecomesOverdue(r)
        PROVE  UNCHANGED <<work, waits, turn>>
    BY <1>7 DEF SetPause, Adopt, ReadPause, RecoverBudgetPause, BecomesOverdue
  <1>8. ASSUME NEW a \in Artifact, ApplyBudgetPause(a) PROVE UNCHANGED <<work, waits, turn>>
    BY <1>8 DEF ApplyBudgetPause
  <1>9. ASSUME NEW r \in Run, NEW p \in Priority, UpdatePriority(r, p) PROVE UNCHANGED <<work, waits, turn>>
    BY <1>9 DEF UpdatePriority
  <1>10. CASE ClearPause \/ RequestResume \/ RestorePause \/ UNCHANGED qvars
    BY <1>2, <1>10 DEF ClearPause, RequestResume, RestorePause, qvars
  <1> QED
    BY <1>2, <1>3, <1>4, <1>5, <1>6, <1>7, <1>8, <1>9, <1>10 DEF QueueNext, TurnStep

\* The inductive invariant of the queue.
THEOREM QueueInvariance == QueueSpec => []QueueInv
  <1>1. QueueInv /\ [QueueNext]_qvars => QueueInv'
    <2> SUFFICES ASSUME QueueInv, [QueueNext]_qvars PROVE QueueInv'
      OBVIOUS
    <2>1. QueueTypes'
      BY QueueTypeStep DEF QueueInv
    <2>2. (\A w \in Poller : Once(turn[w].list))' /\ LateInv'
      BY LateStep DEF Once
    <2> QED
      BY <2>1, <2>2, BudgetStep, LeasesStep DEF QueueInv
  <1> QED
    BY <1>1, QueueStarts, PTL DEF QueueSpec

\* Whatever operators, resumes and turns with old lists write, the budget decision
\* made last pauses its run while it stands, a tick of a paused run is begun late at
\* most once by each worker, and no lease or approval outlives the nodes left of a run.
THEOREM QueueSoundness == QueueSpec => []PausesAreKept
  <1>1. QueueInv => PausesAreKept
    <2> SUFFICES ASSUME QueueInv PROVE PausesAreKept
      OBVIOUS
    <2>1. ASSUME NEW r \in Run PROVE late[r] <= Cardinality(Poller)
      <3>1. late[r] \in Nat /\ (late[r] = 0 \/ late[r] <= Cardinality(Free(r)))
        BY DEF QueueInv, QueueTypes, LateInv
      <3>2. Cardinality(Poller) \in Nat
        BY QueueAssumption, FS_CardinalityType
      <3> QED
        BY <3>1, <3>2, FreeIsFinite
    <2> QED
      BY <2>1 DEF QueueInv, QueueTypes, PausesAreKept, PauseTakesHold
  <1> QED
    BY <1>1, QueueInvariance, PTL

\* No pause, no resume and no turn of the scheduler takes up a run that the
\* supervised-patch API has taken over: all that still writes to it are the
\* settlements of leases that were held when it was adopted, each of which uses up
\* its lease.
THEOREM AdoptedUntouched == QueueSpec => AdoptedIsLeftAlone
  <1> DEFINE Still(r) == work'[r] = work[r] /\ (r \in open' <=> r \in open)
             A == \A r \in Run : reason[r] = "api" =>
                      /\ reason'[r] = "api"
                      /\ Busy(r)' \subseteq Busy(r)
                      /\ \/ work'[r] = work[r] /\ (r \in open' <=> r \in open)
                         \/ Busy(r)' # Busy(r)
  <1>1. QueueInv /\ [QueueNext]_qvars => [A]_qvars
    <2> DEFINE Same(r) == /\ reason'[r] = "api" /\ Busy(r)' \subseteq Busy(r)
                          /\ Still(r) \/ Busy(r)' # Busy(r)
    <2> SUFFICES ASSUME QueueInv, QueueNext, NEW r \in Run, reason[r] = "api"
                 PROVE  Same(r)
      OBVIOUS
    <2>0. /\ reason \in [Run -> Reasons] /\ work \in [Run -> 0 .. Work] /\ QueueTypes
          /\ (resume.at # "idle" => resume.run \in Run)
      BY DEF QueueInv, QueueTypes, QueueTypeOK, Reasons
    <2>1. ASSUME UNCHANGED <<work, open>>, Busy(r)' \subseteq Busy(r),
                 reason' = reason \/ \E s \in Run : \E x : s # r /\ SetReason(s, x)
          PROVE  Same(r)
      BY <2>0, <2>1 DEF SetReason
    <2>t. turn' = turn => Busy(r)' = Busy(r)
      BY DEF Busy
    <2>2. ASSUME NEW w \in Poller, Select(w) \/ PoolIsFull(w) \/ GoOn(w) \/ LeaseExpires(w) PROVE Same(r)
      <3>1. Busy(r)' \subseteq Busy(r)
        BY <2>0, <2>2, LeasesEnd
      <3>2. UNCHANGED <<work, open, reason>>
        BY <2>2 DEF Select, Read, PoolIsFull, GoOn, LeaseExpires
      <3> QED
        BY <2>1, <3>1, <3>2
    <2>3. ASSUME NEW w \in Poller, PauseOverdue(w) PROVE Same(r)
      <3>1. Head(turn[w].todo) \in Run
        BY <2>0, <2>3, PauseMoves
      <3>2. Busy(r)' \subseteq Busy(r)
        BY <2>0, <2>3, LeasesEnd
      <3> QED
        BY <2>1, <2>3, <3>1, <3>2 DEF PauseOverdue, Pausable
    <2>4. ASSUME NEW w \in Poller, TickRun(w) PROVE Same(r)
      <3>1. Busy(r)' \subseteq Busy(r)
        BY <2>0, <2>4, LeaseTaken DEF MayTick
      <3>2. UNCHANGED <<work, reason>> /\ (r \in open' <=> r \in open)
        BY <2>4 DEF TickRun, MayTick
      <3> QED
        BY <3>1, <3>2
    <2>5. ASSUME NEW w \in Poller, Settle(w) PROVE Same(r)
      <3>0. turn[w].run \in Run /\ turn[w].at = "leased"
        BY <2>0, <2>5, TurnIs DEF Settle
      <3> PICK s \in Run : s = turn[w].run
        BY <3>0
      <3>1. Busy(r)' \subseteq Busy(r) /\ reason' = reason
        BY <2>0, <2>5, LeasesEnd DEF Settle
      <3>2. s \in Run /\ w \in Busy(s)
        BY <3>0 DEF Busy
      <3>3. w \notin Busy(s)'
        BY <2>0, <2>5, TickMoves DEF Settle, LeaveRun, Busy
      <3>4. s # r => Still(r)
        BY <2>0, <2>5, <3>2 DEF Settle
      <3> QED
        BY <3>1, <3>2, <3>3, <3>4
    <2>6. ASSUME NEW s \in Run, SetPause(s, "hold") \/ SetPause(s, "none") \/ Adopt(s) PROVE Same(r)
      BY <2>1, <2>6, <2>t DEF SetPause, Adopt, Pausable
    <2>7. ASSUME NEW a \in Artifact, ApplyBudgetPause(a) PROVE Same(r)
      BY <2>1, <2>7, <2>t, QueueAssumption DEF ApplyBudgetPause
    <2>8. ASSUME NEW s \in Run, RecoverBudgetPause(s) PROVE Same(r)
      <3>1. PICK a \in OpenDecisions(s) : reason[s] = a /\ SetReason(s, "none") /\ UNCHANGED <<work, open, turn>>
        BY <2>8 DEF RecoverBudgetPause
      <3>2. a \in Artifact
        BY <2>0, <3>1, StandingScopes DEF OpenDecisions
      <3> QED
        BY <2>1, <2>t, <3>1, <3>2, QueueAssumption
    <2>9. CASE ClearPause \/ RestorePause
      BY <2>0, <2>1, <2>9, <2>t DEF ClearPause, RestorePause, Pausable
    <2>10. CASE RequestResume
      BY <2>0, <2>10, <2>t DEF RequestResume
    <2>11. ASSUME NEW s \in Run, ReadPause(s) \/ BecomesOverdue(s) \/ Approve(s) PROVE Same(r)
      BY <2>1, <2>11, <2>t DEF ReadPause, BecomesOverdue, Approve
    <2>12. ASSUME NEW s \in Run, NEW p \in Priority, UpdatePriority(s, p) PROVE Same(r)
      BY <2>1, <2>12, <2>t DEF UpdatePriority
    <2> HIDE DEF Same
    <2> QED
      BY <2>2, <2>3, <2>4, <2>5, <2>6, <2>7, <2>8, <2>9, <2>10, <2>11, <2>12 DEF QueueNext, TurnStep
  <1> QED
    BY <1>1, QueueInvariance, PTL DEF QueueSpec, AdoptedIsLeftAlone

=============================================================================
