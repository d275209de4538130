# Verification of the agent harness control plane

TLA+ modules, TLC configurations and TLAPS proofs for the Rust engine of
`token-efficient-agent-harness-lab`. They cover how workflow nodes are leased,
executed, settled, retried, approved and repaired; how budgets are handed down a
tree of agents; how the external effect of a tool or of a provider call is kept to
at most one; and how a product task gets its workspace, runs under a delegation
and delivers its output. Paths below are relative to the repository, under `src/`;
`store/` stands for `engine/src/storage/local_product_store/`.

## 1. The system

| Part | State it keeps | Operations | Interacts with | Module |
|---|---|---|---|---|
| Workflow run store (`store/workflow_runs.rs`, `workflow_runs/queue_lease.rs`) | runs (status, owner), nodes (status, attempt_count, leased_at, result), edges, events | create, tick (lease, execute, settle), recover stale leases, cancel, resume, approvals | called by scheduler workers and HTTP handlers, calls a node executor between two transactions | `WorkflowRun` |
| Operator approvals (`workflow_runs/operator_approvals.rs`) | approval records with a sequence number | resolve a requested approval | puts a waiting node back to pending, resolves the tool authorization | `WorkflowRun`, `ToolExecution` |
| Tool policy executor (`engine/src/tool_policy_executor.rs`), tool receipts (`store/tool_execution_policy.rs`) | one authorization row per node: requested, approved, rejected, consumed | read policy, inspect, gate, claim, invoke, post hooks | runs inside phase 2 of a tick, each store call a transaction of its own | `ToolExecution`, `OneShotEffect` |
| Tool registry and policy management (`store/tool_registry.rs`, `tool_policy_management.rs`) | capabilities, allowlists, hooks | configure | its hash is bound into every receipt | `ToolExecution` |
| Scheduler (`engine/src/scheduler.rs`, `scheduler/runtime.rs`), executor pool (`engine/src/executor_pool.rs`) | running, paused and kill flags, worker threads, control gate; slots in use, cooldown | start, stop, pause, resume, kill, control barrier, worker loop; acquire, release | ticks the runs, takes executor slots, pauses and kills trees | `Scheduler` |
| Run queue and pauses (`scheduler/runtime.rs`, `engine/src/workflow/backpressure.rs`, `store/budget_pause_decisions.rs`, `http_server/handlers/operator_decision_actions.rs`) | priority, `pause_reason`, `started_at` of a run, budget decisions | select and tick the runs of a turn, pause the overdue ones; pause, resume, apply and recover a budget pause, take over for a supervised patch | every writer sets one column, each in a transaction of its own, while workers hold lists they read before | `RunQueue` |
| Dynamic controller, graph mutations (`engine/src/workflow/dynamic_controller.rs`, `workflow_runs/dag_mutations.rs`) | the rows and edges it inserts, the event log its limits are counted from | tick: repair failed nodes, review poor ones, execute, complete | one controller per scheduler worker or HTTP call on the same rows | `DynamicRun` |
| Graph in memory, planner (`workflow/dag_manager/mod.rs`, `orchestration/dependency_resolver.rs`) | a graph, its version and its history | mutate, roll back, order, search | checks the batches of the controller, orders the planner's nodes | `DagManager`, `GraphAlgorithms` |
| Recursive execution (`engine/src/recursive_execution.rs`, `store/recursive_execution.rs`), action receipts (`store/agent_action_receipts.rs`) | a tree of budgets beside the rows of a run, one committed action per node | admit a child, lease, settle, late usage, recover, pause, resume, kill | phases 1 and 3 of agent steps, the scheduler's controls | `RecursiveTree` |
| Product tasks (`store/product_tasks.rs`, `supervised_patch/mod.rs`, `http_server/handlers/product_tasks.rs`) | task status and version, preparation receipt, marker file, worktree; output operation, output receipt | admit, prepare, recover, bind; claim a phase, push, open a PR, apply, roll back | git, GitHub, the operator's folder | `ProductWorkspace`, `ProductOutput` |
| Local folder source (`engine/src/local_folder_source.rs`) | files, backups, markers | apply a change file by file, undo it | a folder that others edit | `LocalFolder` |
| Managed acceptance (`store/managed_acceptance.rs`, `engine/src/provider/managed_deepseek*.rs`) | one delegation row: approvals, spend, attempt lease, request journal, terminal receipt | propose, approve, spend, admit; claim, send, reconcile; close, revoke | workers of the scheduler, the provider, the workspace | `DelegatedAttempt` |
| Codex budget gateway (`engine/src/cli/codex_budget_authority.rs`, `codex_usage_journal.rs`) and its launcher (`cli/cli_node_executor.rs`) | a journal file, counters in memory, the attempt's row | start, reserve, post, commit, charge, refuse; spawn, wait, reconcile, record | child process, provider | `BudgetGateway` |
| Everything else | | | listed with a reason in `PROJECT.json`, `components` | |

What is hard here is that almost nothing of this is one transaction. A tick is
three steps and only the first and the last are transactions; several scheduler
workers, HTTP callers, operators and administrators work on the same rows
meanwhile, in one or in several processes. Leases expire on a clock while their
holder is still at work, processes die at any point, results arrive late, policies
change between being read and being used, and the git command, the file or the
provider request in between cannot be rolled back. `PROJECT.json`, `hazards`, lists
each of these at its line with the properties that would catch it.

## 2. Modules

    OneShotEffect        what a tool receipt promises (abstract)
         ^ refinement (ReceiptPhase)
    ToolExecution        phase 2 of a tool node, approvals, policy changes
         | EXTENDS, and implements (ImplementsWorkflowRun)
    WorkflowRun          the run tables and every transaction on them

    Scheduler            control flags, worker threads, control gate, executor slots   \ both in
    RunQueue             which runs a turn ticks, and who pauses them                 / MCScheduler
    DynamicRun           one run under several repairing controllers  \
    DagManager           the graph in memory                           > MCGraph runs any one of them
    GraphAlgorithms      its searches                                 /
    RecursiveTree        a tree of agents and its budgets

    ProductWorkspace  \
    DelegatedAttempt   |  a product task from its admission to its output,
    BudgetGateway       > one after the other in the life of a task;
    ProductOutput      |  MCProduct runs any one of them
    LocalFolder       /

The modules whose names begin with `MC` give the instances for TLC; those whose
names end in `Proofs` hold the theorems. `GraphAlgorithms` declares RECURSIVE
operators and is used by TLC alone.

### WorkflowRun

| Model | Code |
|---|---|
| `runStatus`, `apiOwned` | `workflow_runs.status`; `pause_reason = 'api_owned_supervised_patch'` |
| `status`, `attempt`, `result` | `workflow_run_nodes.status`, `attempt_count`, and the attempt whose result is in `node_json` |
| `claim[w]` | the locals a caller carries from phase 1 to phase 3 |
| `requeued` | no column: counts lease recoveries and approvals, which `RetryBudget` charges and `MaxRequeues` bounds |
| `Lease`, `NoReadyNode` | phase 1, with the search loop (`Candidates`), caps and node order |
| `Outcomes`, `Abandon` | phase 2 as seen by the tables: any result, a mismatched executor, or no result at all |
| `Settle`, `SettleStale` | phase 3: fence, retry decision, propagation, completion |
| `RecoverStaleLeases`, `RequeueApproval`, `RequestResume`, `RequestCancel`, `AdoptRun` | the operations of the same name |

Each transaction is one action: SQLite takes `BEGIN IMMEDIATE`, PostgreSQL
locks the run row. `propagate_failed_dependencies_locked` is a loop to a fixed
point; `Doomed` is that fixed point as a least closed set. Expiry is not timed:
any running lease may be recovered at any moment. This is weaker than the code
(which compares `leased_at` with a timeout) and covers clocks that jump.

Behaviour worth knowing that the model reproduces: a node that settles after
its run was cancelled still counts, and may turn the run's status from
cancelled to completed or failed (a repository test expects it); resume does
not look at the status either; a caller of the wrong kind may lease a node,
refuse it, and so use up a retry.

### ToolExecution

`stage[w]` is the place of `execute_node` between two transactions. The row of
`tool_execution_authorizations` is `auth[n]`; its `action_sha256` becomes the
pair of policy snapshot and command (`Binding`), which is what is hashed.
`policy` is the content of the policy tables, with `AllowPolicy` and
`ApprovalPolicy` saying what the allowlist, the hooks and the capability make of
it. `superseded[n]` says that a later approval record than the open request
exists, which is what the resolution compares sequence numbers for. `effects[n]`
is external: the invocations of the inner executor.

Neither the gate nor the claim looks at the lease. A caller whose lease has been
given away may therefore be the one that consumes the receipt and performs the
effect; its result is then dropped, and the new holder finds the receipt
consumed and fails the node with an unknown outcome. The properties say what is
still promised: one effect, authorized, and completion only by the lease that
performed it.

### OneShotEffect

Six phases per node: open, waiting, granted, refused, spent, performed, and no
way back. `ReceiptPhase` maps the authorization row and the invocations to it.

### Scheduler

| Model | Code |
|---|---|
| `running`, `paused`, `killed` | the three atomics of `WorkflowScheduler` |
| `env` | `ACP_SUPERVISED_WORKERS_PAUSED`, `ACP_SUPERVISED_WORKERS_KILL_SWITCH`; the code reads them at every turn, so they may change at any time |
| `api` | the operation that holds the scheduler: the HTTP server keeps it behind `Arc<Mutex<..>>`, so operations follow one another |
| `GateHeld` | `control_gate` is taken by the API; a worker takes it only inside `Observe`, which is one step |
| `spawned`, `pc`, `seen`, `left`, `held` | `handles`, and per worker the place in `run_scheduler_worker`, the switches it read before the gate, what is left of `tick_limit`, the slot |
| `active`, `cooling`, `leaked` | `active_count`, `cooldown_until`; slots whose tick panicked (no counterpart in the code, which is the point) |
| `tree`, `stranded` | `execution_state` of the persisted trees; trees found paused by a new process |
| `Pause`, `Resume`, `Kill`, then `Publish` | the transaction, then the flags, with the gate held throughout; a crash may come in between |
| `Stop`/`StopReturn`, `Drop`/`DropReturn` | flag, then join |
| `EnterBarrier`/`LeaveBarrier` | `with_control_barrier` around its callback |
| `Loop` ... `Panic` | one turn of a worker; `Acquire`, `Release` are `ExecutorPool` |

Left out: counters, heartbeats, backups, the cancellation of OpenCode
processes; the runs of a tick are only counted here and named in `RunQueue`. The failure score of an executor is not computed: a release
may or may not start a cooldown. (The code starts one after a success too while
the score is still above the threshold, so a success is no exception here.)

Two things a reader of the code may not expect, both in the model: a panic in a
tick leaves its slot counted as active until the executors are registered again
by `start`; and the pause is kept in memory while the pause of the trees is
kept in the store, so that a restarted scheduler runs with paused trees until an
operator calls resume.

### RunQueue

| Model | Code |
|---|---|
| `open`, `started`, `priority`, `reason` | `status` (created or running), `started_at` (none, recent, more than 300 s ago), `priority`, `pause_reason` of `workflow_runs` |
| `work`, `waits` | the nodes a run has left, and how many of them wait for an approval: what the queue sees of `WorkflowRun` |
| `decided`, `standing` | `budget_pause_decisions` by `created_at`, and those in state `paused` |
| `turn` | a worker inside `scheduler_tick_with_limit`: `active_runs` up to `tick_limit`, `runs_to_pause`, and the run it is at, with the lease of a node of it (`leased`), with one that was recovered meanwhile (`expired`) or without a slot (`full`) |
| `resume` | an operator's Resume between its three calls of the store |
| `late` | ticks of a run since it was paused (history) |
| `Select`, `PauseOverdue` | reading the list and the backpressure decision, one `update_run_pause_reason` of it |
| `PoolIsFull`, `TickRun` | the next run of the list: no executor slot, which uses its place in the turn, or phase 1 of its tick |
| `Settle`, `GoOn`, `LeaseExpires` | phase 3 with the lease and without it, and the recovery that makes the difference |
| `SetPause`, `ApplyBudgetPause`, `RecoverBudgetPause`, `Adopt` | the other transactions on `pause_reason` |
| `ReadPause`, `ClearPause`, `RequestResume`, `RestorePause` | `OperatorDecisionAction::Resume` with its compensation |

Phase 1 and phase 3 of a tick are steps of their own, with the executor in between. Only
phase 1 looks at the owner of the run; phase 3 and the lease recovery do not, and an adoption
does not ask for leases, so a node leased before the adoption is settled after it
(`AdoptedIsLeftAlone` names this). A retry, a wait for an approval and a failure that takes
dependent nodes along are outcomes of `Settle`; nodes that are left may depend on one that is
leased or waits, so that a tick may find none ready. Left open: whether the load is
above the threshold, whether the pool has a slot, and whether a finding is eligible. Left out:
degrade modes, at most ten pauses per turn (`max_paused_runs`), and the dynamic mode
(`dynamic_scheduler_tick`), which appends failed runs whatever their pause and ends its
turn at the first tick that is refused.

### DynamicRun

Every scheduler worker, and the HTTP handler of a tick, builds a controller of its
own, so two of them tick one run at the same time. `DynamicWorkflowController::tick`
reads the run once and works from that snapshot while it writes nodes, edges, events
and statuses one transaction at a time.

| Model | Code |
|---|---|
| `runStatus`, `row`, `edge` | the run's three tables; a row has status, attempt_count and whether its result fails the quality check |
| `ticks`, `applied` | what `max_ticks_per_run` and `max_mutations_per_run` are counted from, the events `controller.tick_started` and `dag.mutation.applied` |
| `at[c]` | the locals of a tick: snapshot, the nodes left to look at, the batch left to apply, the lease |
| `Begin`, `Start` | the read, the limits, the terminal test, the start event |
| `RecoverNode`, `ReviewNode` ... `RecoverEnd`, `QualityEnd` | the two loops that make a batch per failed or poor node |
| `Refuse`, `Apply`, `Record`, `BatchEnd`, `Mark` | one mutation after the other with its checks and events, then the failed node's new status |
| `PgSearch`, `PgInsert` | the same on PostgreSQL, where no lock spans the search for a duplicate and the insert |
| `Lease`, `NoReadyNode`, `Settle`, `SettleStale`, `After` | the tick of the store, as in `WorkflowRun` |
| `RecoverStaleLease`, `Crash` | faults |

A generated node id is the id of its origin with prefixes, as in the code, which is
what makes two controllers' repairs of one failure collide. Not modelled: mutations
that need approval, admission, executor-pool accounting (both callers switch it
off), and retries (`max_retries` is 0).

### DagManager and GraphAlgorithms

`DagManager` has the graph `dag` and its `history`; the six mutations and the rollback are
actions. A refusal changes nothing, so it is a stutter. `GraphAlgorithms` translates
the searches loop by loop (stack, colours, queue, path) and compares them with
definitions that say what they are for; the states of its part of the run are all
graphs of the instance, those with loops, parallel edges and missing ends included.

### RecursiveTree

| Model | Code |
|---|---|
| `measured` | which usage contract the run has: provider usage or the fixture |
| `tree` | the persisted snapshot: state, root budget, spent, reserved, nodes, receipts |
| `row`, `attempt` | the workflow rows that carry the nodes |
| `job[n, a]`, `candidate[n, a]` | what the executor thread of an attempt is doing, and the tree it has made from a snapshot and not yet stored |
| `action[n]` | `agent_action_receipts`, one per node |
| `refused`, `returned` | no columns: what the store would not save, and what reached it |
| `Lease`, `Replay`, `Decide`, `StepFails`, `CommitAction`, `LosesReceipt`, `Crash` | phases 1 and 2 of an agent step |
| `Settle`, `SettleRefused`, `LateResult`, `LateRefused` | phase 3, with a current and with an expired lease |
| `RecoverStale`, `Pause`, `Resume`, `Kill` | the operations of the same name |

Since a node commits one action and a proposal names its proposer as the parent, a
tree is a line, and nodes are named by their depth. The four dimensions of a budget
are one number. `Valid` is `validate` of the snapshot, without which nothing is
stored: an operation whose tree does not validate is refused, and its rows stay.
Not modelled: scopes, capabilities, fingerprints, malformed identities and corrupt
roots, the kill-switch environment variable (as an operator's kill here), caps over
several runs.

### ProductWorkspace

`intake`, `task`, `receipt`, `marker`, `tree`, `rows` and `lock` are the task's row, the
preparation row, the marker file, the path with its git registration, the supervised
workspace rows and the file lock; `at` and `local` are where each call of
`admit_product_task` or `recover_product_task_workspace` is and what it has read;
`faults` bounds the crashes and failing calls. Each step between two of the code's
transactions or file operations is an action (`Admit` ... `RemoveMarker`); a `git worktree
add` or a copy that is interrupted leaves any of `Interrupted`, a removal any of
`HalfRemoved`. A git child is taken to die with its engine.

### DelegatedAttempt

`grant` is the delegation row, `lapsed` its expiry, `goal` the task, `node` the workflow
nodes of the stages, `journal` the request journal, `sent` and `wrote` what reached the
provider and the workspace, `exec` each leased execution, `closer` each closing call,
`seal` the terminal receipt. A stage is executed under a lease of its node, or, before the task
is activated, directly by the holder of the attempt (`DirectStage`, lease 0; the code's answer
to a task that is `workspace_bound`). Whether such a holder may still activate the task is the
constant `Handover`; the proofs are for both values. `Rebind` ... `AdmitAttempt` is the way to an admitted attempt,
`ClaimRequest`, `Send`, `Reconcile`, `ApplyAction`, `SettleStage` one execution of a stage
with its refusals, `CloseFailure`, `CloseSuccess`, `Revoke`, `CloseRevoked`,
`CompleteAttempt`, `SealRevoked` the ways of closing it. The end of a task's run by a kill and the
task's own (`KillTask`) are one step, from every status from which the transition table has it.

### BudgetGateway

`ledger` is the journal file and `entry` the same in memory, apart because a write may
fail; `gateway` is the place of the accept loop, `counted` its counters, `refusal` the last
refusal, which the launcher reads; `child` is the Codex process; `outcome` and `reported`
are the attempt's row; `upstream` is the provider, with what it bills; `unsure` remembers
that some post ended with an unknown effect. `host` says whether the gateway is started by
the launcher, once per lease, or by a caller that may start it again on the same journal,
`route` whether the provider takes an output limit. `Reserve`, `PostUpstream`, `Answer`,
`Commit`, `AnswerExceeds` and `Lost` are a request; `SpawnChild`, `ChildEnds`, `Finish` the
launcher; `Vanish` and `GatewayDies` are deaths. A child ends with success, with failure, without an
exit status, or with exit status 0 and an output that is a failed turn or cannot be read (`garbled`). `Reconciliation` and `Terminal` are what the
launcher makes of exit status, session log and gateway. Two gateways on one journal
at the same time are not modelled.

### ProductOutput

`product` is the task, `operation` the durable operation with its two leased phases,
`leased` whether the phase in progress is younger than its lease, `delivery` the output
receipt, `github` and `source` the outside, `evidence` the versions with terminal evidence,
`call` and `held` each call's place and what it has read. The Draft PR goes through
`Output`, `OpenOperation`/`ClaimPhase`, `PushBranch`, `MarkBranch`, `Settle`, `Lookup`, `Post`,
`CompletePr`, `BindTerminal`, `CompleteTask`; a folder through `ClaimEffect`, `ApplyEffect`,
`RecordReceipt`, `ClaimRollback`, `UndoEffect`, `FinishRollback`. How an application goes on
inside is `LocalFolder`: here its result is the whole change, a part of it, or none.

### LocalFolder

`change` and `stem` are the approved change and the path both markers are derived from;
`folder`, `backup`, `present`, `applied` the files; `cur`, `stopped`, `pos` the place of the code;
`touched` and `raced` the files somebody else edited, ever and between the code's look
and its write. An edit may come between any two steps.

## 3. Runs

| Run | Instance | States | Shows |
|---|---|---|---|
| `lease` | one run, four nodes with a fork and an agent step, two callers with budgets 1 and 0, one requeue per node | 142,890 | fencing, graph order, failure propagation, terminal statuses, retry budget, finality of done nodes |
| `progress` | two runs with three agent steps, three callers (one the API owner), caps 2 and 1, fair | 123,390 | the caps hold through lease recoveries; a run is again and again terminal, waiting for an operator, or without a caller that owns it |
| `effect` | one tool node, two callers with different commands, three policies, two requeues, metadata-only records | 331,212 | one effect at most, authorized, and completion only by it; refinement of `WorkflowRun` and `OneShotEffect` |
| `wedge` | the same without metadata-only records, two policies that allow, fair, with a resolving operator | 104,540 | open requests can be resolved, and runs end |
| `record` | as `wedge` with metadata-only records | violation | see Findings |
| `control` | threads: two workers, one executor with one slot, one run per tick, one tree; queue: one worker, two runs of one node, `tick_limit` 1, two findings about the first run, two priorities, one operator's request; fair, deadlock checked | 306,971 | slots, barrier, pause and trees, no tick under pause or kill, restart only when drained, a stop returns, a kill ends the workers; a budget pause is kept, a pause takes hold, no turn takes up an adopted run, runs are reached |
| `repair` | one node of the plan, two controllers, 3 ticks, 6 mutations, 4 nodes, SQLite, crashes and expiring leases; two node ids, two edge ids, six mutations on top of one another; every graph of three ids with up to four edges | 664,594 | no failure is forgiven without its fix, the tick limit is overrun by at most one tick per controller, no row is set back, no settled node changes; graphs and history stay acyclic and closed, execution by `nodes_ready` does not get stuck, rollback restores; the searches compute what they are for |
| `repair_solo` | two nodes, one controller, 12 ticks, 9 mutations, 6 nodes, PostgreSQL, fair | 49,116 | the repair ends the run |
| `repair_blocked` | two nodes, one controller that may die | violation | see Findings |
| `tree` | a root and a child, one retry, tree budget 4, child budget 2, steps of 1 and 3 units, one pause, both usage contracts, fair | 67,403 | results that fit are stored, usage is charged once, rows and tree agree, an ended tree stays ended, every row is settled |
| `tree_retry` | the same without a pause | violation | see Findings |
| `product` | two calls of each kind; two faults of the preparation, one stage with two leases and one dying closer, three posts with one failing write and one restart of the gateway, one death in the output, two files | 394,615 | see below |

`control` is about the threads or about the queue, chosen in the initial state (215,448 and
91,523 states); the other side keeps its initial state. `repair` is in the same way about the
controllers (414,821 states), an editor of the graph, or one graph to be searched. In
`control` the first finding is always applied first: the two differ in their names alone, so that
the behaviours left out are copies of those that remain.

`product` chooses in its initial state which part of a task's life the behaviour is
about; the other parts are parked in one of their initial states. The states are the sum
of the parts (workspace 161,733, output 88,622, attempt 87,933, gateway 45,813, folder
10,514), and the properties of one part are constant in the others. It shows: nothing is
created without a durable record that names it, and every preparation ends with the
pinned tree or with none; a stage's request is sent once, a receipt is sound and
final, and nothing is written after cleanup began; the gateway's budget holds across
crashes and failed writes; a call whose claim expired cannot answer for its
successor, nothing is completed without its effect; no preimage and, outside
a named window, no edit is lost; and retries end in an outcome or in a state that is
listed (`NeedsOperator`, `NeedsReconciliation`).

Why the bounds are enough. Two callers are what a race for a lease, a receipt, a
slot, a claim or a guard needs; three are used where a cap of two has to be exceeded. The
fork of `lease` has a chain of length three below its root, so a propagation of one pass is
told from a loop, and a sibling that a failure must not touch. One requeue per node
(two in `effect`) gives every node a stale holder next to a live one, and in `effect` a
lease expiry after an approval. Three policies tell allowed, allowed with approval
and refused apart. Three ticks let a controller fail a node, repair it and find the repair
of the other; 12 let a fix fail and be fixed. Four edges over three ids give parallel edges
next to a cycle. In `tree` a step of 1 fits every budget and one of 3 only the tree's. In
`product` a second fault hits the recovery from the first, four attempts
is the code's own limit (`claim_product_output_phase`), and the gateway's token limit
admits two worst cases and not three.

Larger instances were checked once, without a violation: a tree of depth 2 (331,414
states), `DelegatedAttempt` with two stages (518,314)
and with `Handover` (465,743), `BudgetGateway` with three starts,
two failing writes and two request sizes (191,983), `LocalFolder` with three files
(234,004), `ProductOutput` with two deaths (143,857), `RunQueue` with two workers (2,753,614).

Deadlock is checked in `control` alone: elsewhere a run, a task or an
attempt that has ended is a state in which nothing more need happen.

### Fairness

* `FairSpec` of `WorkflowRun`: callers tick, leases of a dead holder are
  recovered, executions return. A scheduler worker loops over the active runs,
  every tick begins with `recover_stale_leases`, executors have timeouts that
  `start` compares with the lease timeout. This holds for runs that are among
  the first `tick_limit` active runs and have no `pause_reason`; `RunsAreReached` of
  `RunQueue` states for which runs that is so.
  Operators are not fair.
* `ToolFairSpec` adds an operator who resolves open requests.
* `FairSpec` of `Scheduler`: threads take their steps, an API call goes on once
  begun, and a worker waiting for the gate gets it if it is free again and again
  (strong fairness: barriers hold the gate briefly and use `try_lock`).
  The API may take barriers for ever.
* `QueueFairness`: the workers keep taking turns and go on with one they began. Operators,
  findings and time are not fair.
* `FairSpec` of `DynamicRun`: a worker calls the next tick and a tick goes on.
* `FairSpec` of `RecursiveTree`: ready rows are leased, stale leases recovered, a
  paused tree resumed; executors may hang. It is weak fairness of three actions
  with their enabling conditions written out, which TLC evaluates faster.
* `WsFairness`: a call goes on, the admission loop gives up after its bound, and an
  operator keeps asking for recovery (strong: recovery is an HTTP call,
  refused while another one is at work; the engine does not retry by itself).
* `OutFairness`: a call goes on, leases expire, and output that was begun is asked for again
  (strong, for the same reason).
* `AttemptFairness`: closing calls go on, and finalizing is asked for again.

### Properties

What one part of the system owes to one hazard is stated in named pieces, each with its
comment, and checked as their conjunction:

| Property | Module | Parts |
|---|---|---|
| `LeasesAreFenced` | `WorkflowRun` | `LeaseExclusive`, `ResultIsOfLastLease`, `RetryBudget` |
| `GraphIsRespected` | `WorkflowRun` | `DependenciesFirst`, `BlockedForCause`, `FailurePropagated`, `TerminalRunIsDone` |
| `EffectIsSound` | `ToolExecution` | `ToolTypeOK`, `EffectAtMostOnce`, `EffectIsAuthorized`, `CompletedByItsEffect` |
| `ControlIsSound` | `Scheduler` | `TypeOK`, `SlotAccounting`, `BarrierIsLinear`, `PausedTreeHasPause` |
| `SwitchesAreObeyed` | `Scheduler` | `ControlAdmitsNoTick`, `KillLiftedOnlyWhenDrained` |
| `ControlTakesEffect` | `Scheduler` | `StopReturns`, `KillEndsWorkers` |
| `PausesAreKept` | `RunQueue` | `QueueTypeOK`, `LeasesFit`, `BudgetPauseIsKept`, `PauseTakesHold` |
| `RepairIsSound` | `DynamicRun` | `TypeOK`, `RecoveredHasFix`, `TickLimit` |
| `GraphStaysUsable` | `DagManager` | `DagTypeOK`, `GraphsAreValid`, `ReadyProgress`, `HistoryIsChain` |
| `SearchesAreRight` | `GraphAlgorithms` | `SearchesFindCycles`, `OrderIsTopological`, `WavesAreEarliest`, `PathsAreFound` |
| `AccountsAgree` | `RecursiveTree` | `TypeOK`, `FittingResultIsSaved`, `ChargedOnce`, `EndedIsOver`, `RowsAgree` |
| `WorkspaceIsAttributed` | `ProductWorkspace` | `WsTypeOK`, `PreparingHasReceipt`, `TreeIsAttributed`, `BoundHasTree`, `FailedLeavesNoTree` |
| `StageIsSound` | `DelegatedAttempt` | `AttemptTypeOK`, `SentOnce`, `SealIsSound`, `DutiesAreSeparate` |
| `AttemptIsFinal` | `DelegatedAttempt` | `SealedForGood`, `WritesBeforeCleanup` |
| `GatewayIsSound` | `BudgetGateway` | `GatewayTypeOK`, `BudgetIsKept`, `LedgerCoversBill`, `ReceiptCoversBill`, `UnknownIsKept` |
| `OutputIsSound` | `ProductOutput` | `OutTypeOK`, `OneHolder`, `RecordedHappened`, `CompletedIsProved`, `AppliedOnce` |
| `FolderIsSound` | `LocalFolder` | `PreimageKept`, `UndoneIsRestored` |
| `OutcomesAreFinal` | `MCProduct` | `FinishedIsFinished`, `OutcomeIsFinal` |

The remaining properties are checked as they stand. Each checked property has a mutant in
`PROJECT.json`: a definition of the model changed the way a bug would change the
code, under which TLC finds the property violated. The mutants stand before the
definitions they change, marked as such. The pieces of a conjunction were each
broken once in the same way, by a mutant of their own that is not kept.

## 4. Proofs

Everything below is proved for all values of the constants under the named
assumptions of the modules (`ConstantsAssumption`, `SchedulerAssumption`,
`QueueAssumption` and so on, one per module): typing, finiteness of nodes, workers
or controllers, edges that stay within a run, distinguished values. Where they ask for
more than types it is for an instance that exists: a priority to give
(`Priority # {}`), a controller to tick the run (`Ctrl # {}`). Each inductive invariant
was checked by TLC on the instances of the runs before it was proved.

`WorkflowRunProofs`. `Inv` is the conjunction of the type invariant, the
checked properties and what makes them inductive: `ClaimsArePast` (an attempt in
a claim was given out, so a fresh lease differs from every claim),
`RetryHeadroom` (a node that is pending again has budget or a requeue to show
for it), and in `Graph` that a node with a status beyond pending has been leased
and a blocked node's run has a failure. The step that needs an argument is
settlement: the status table is updated, then propagated, and propagation is a
least fixed point. `DoomedClosed` and `DoomedCause` say that it is closed under
the rule and contains nothing without a cause; the second is the minimality
argument (remove the node, the rest is still closed). The pieces of `LeasesAreFenced` and
`GraphIsRespected` are theorems of their own, from which `LeaseFencing` and
`GraphRespected` follow; `EffectSoundness`, `ControlSoundness` and `SwitchObedience` below
are put together in the same way.

`ToolExecutionProofs`. Every step of `ToolSpec` is a step of `WorkflowRun` or
leaves its variables alone (`ToolImplementsRun`), so the theorems above carry
over. `ToolInv` adds: where a caller between gate and effect stands (`Route`,
`Holders`), that a row that is consumed stays so and has one consumer
(`Rows`), that an effect has a consumed row (`Performed`), that a node waiting
for approval has a request (`Waiting`) which is the latest record unless
superseded (`RequestIsLatest`). At most one effect follows since a consumed row
has at most one caller on the way to its effect and none after it. The
refinement of `OneShotEffect` is proved step by step from the same invariant.

`SchedulerProofs`. `Inv` adds to the four invariants that a slot is held only
inside a store call (`HoldersExecute`), that without handles there is no thread
(`Drained`, what makes the registration of fresh executors by `start` sound)
and that resume has released every tree before it clears the flag (`Released`).
Counting uses cardinalities of the set of holders.

For the queue, `QueueInv` has the types, `BudgetPauseIsKept`, `LeasesFit`, that a list a worker has
read names a run once, and `LateInv`: the ticks a paused run has had since, together with
the workers that may still give it one, are at most the number of workers. The fourth
conjunct is what makes a tick use up one worker. `AdoptedUntouched` goes through the actions: a
worker that holds a lease of an adopted run can only give it up.

`DynamicRunProofs`. `DynInv` relates what a controller read to what the tables hold when
it writes. Rows are never removed, so what it read is still there (`KnownInv`); the
graph of its `DAGManager` is part of the table but for the node whose insert is
next (`BatchInv`); the fix comes first in its batch (`FixInv`), so a row marked recovered
has its fix (`RecoveredHasFix`). For the tick limit, `TickInv` counts the controllers between reading
the number of ticks and adding one. This holds for any number of controllers that tick at
once, die and lose leases. `RowsKept` is for the store whose lock spans search and insert
(`~ Pg`), since on the other it is false. So is `SettledFinal`, whose point is the mark that
`update_workflow_node_status` writes without comparing the status. It needs `FailedInv`: as long as a
controller has a node of its snapshot to repair, that node is failed or already recovered in the
table, because on a store whose lock spans the call a failed row changes only by the mark, whoever
writes it. The settlement's fence (`HoldsLease`) keeps every other write to rows that are running.

`DagManagerProofs`. `DagInv`: the graph and every snapshot are valid, and the history is a
chain of versions. Each mutation keeps a graph acyclic because it is refused otherwise,
because it only removes edges, or because no edge touches the new node; `nodes_ready` is
never stuck, since the nodes that are not completed would form a cycle. `RollbackIsExact` reads
the snapshot out of the chain.

`ProviderProofs`. `GatewayInv`: the journal on disk covers what was posted and billed
(`LedgerInv`), memory and disk agree until a write fails (`EntryInv`), a request under way is within
its reservation and that within the budget (`FlightInv`). The argument for every way
a request can end is one lemma: whether the write succeeds, fails or leaves the old file,
both copies cover the bill. `AttemptInv`: a request under way is the only one of its stage and its
claim is open (`FlyInv`), what a closing call read before the cleanup is still true when
it writes its receipt (`CloseInv`), the authorities come one after the other (`GrantInv`).

`DeliveryProofs`. `WsInv`: the work between the check and the end of a preparation is under the guard
(`GuardInv`), and what a call knows of task, receipt and path at each place of the code
(`PlaceInv`, `PathInv`, `ReceiptInv`). `FolderInv`: a file its owner left alone is saved before it is
replaced (`FileInv`), and an edit of the file in hand is known to have raced (`EditInv`). `OutInv`: no
two calls carry the same version of the operation (`VersionInv`), so one at most can end a
phase; receipts of a local effect are as far as the effect or behind it (`EffectInv`).
`FinishedFinal` and `OutcomeFinal` are the two pieces of `OutcomesAreFinal`.

`RecursiveTreeProofs`. Budgets are sums over the nodes of a tree (`SumFunction`), so the module
begins with sums: that the library's fold is a function with the recursion it names
(`SumsExist`, `SumIs`), and that sums add (`SumPlus`), are those of a single amount (`SumOne`),
grow with their terms (`SumLess`) and change by what one term changes (`SumChange`). The
library's induction theorems cannot be instantiated here; each of these facts is proved from a
least counterexample instead (`Least`, `SmallestSubset`, by `WFMin`). `TreeInv` has, of the tree: that
the stored snapshot validates; `Covered`, that what is left and what is reserved stay within what
there was, which unlike the equations of `Valid` outlives an overrun, so that no release
gives back too much; `Line`, that the nodes are a line from the root with nothing where
there is no node; `EndInv`, that an open tree has no failed node and an ended one no live child
that was never attempted. Of the rows: `RowAt`, node by node, and `Above` with `Begun`, that a node is
attempted only when everything above it is completed, so that a failure never has
attempted children. Of the usage: `Parents`, `ReceiptInv` and `UsageInv`, that a child and a receipt
come after the action that is charged. Of the attempts: `JobAt`, that a candidate that is still fresh is
what the current tree admits. Every operation on a tree is shown to be one of a few kinds of
change (`Marks`, `Frees`, `Charges`), these to keep the books (`Keeps`) or to charge one receipt once
(`Settles`), and each action is put together from them. That a fitting result is never refused is
the lemma `FitIsValid`: charging what fits turns books that are right into books that are right.

The proofs found two mistakes. Of `RowsAgree`, an earlier form had a row that a retry leaves
at `ready` follow its node, which a larger instance refuted when the invariant was checked
before its proof: nothing looks at such a row again (finding 2 below). And in `DynamicRun` the
alternatives of `TestFailure` overlapped when the fix existed already, and a `CASE` with
overlapping guards is any of them in TLA+, the first in TLC. They are now tried in the order of
the code.

Only model-checked: liveness (`RunsProgress`, `ApprovalsDoNotWedge`,
`ControlTakesEffect`, `RunsAreReached`, `RunEnds` of both modules that have one,
`PreparationEnds`, `AttemptEnds`, `OutputEnds`), which is out of the prover's reach, and the
graph searches (`SearchesAreRight`), whose operators are RECURSIVE. Every other property of
a passing run is a theorem, or the conjunction of two.

## 5. Findings

Three runs show the code doing other than the repository says.

1. `record`: the runbook has metadata-only approval records that do not act on execution.
   Posting one while a tool request is open makes that request superseded; it can
   then not be resolved, and the node waits for ever.
2. `tree_retry`: when a failed recursive step is granted a retry, the row is set to
   pending and then overwritten by the tree's word for it, `ready`, which no lease
   query selects and the completion test does not know. The run neither retries nor
   ends (`RunEnds` of `RecursiveTree` excepts it), and a later pause or kill of the tree fails
   with "terminalization raced".
3. `repair_blocked`: the comment at `store/workflow_runs.rs:6381` has fix nodes depend on failed
   nodes, and the search for a ready node follows it. `propagate_failed_dependencies_locked`, which
   runs after every settlement, does not: a fix whose node is still marked failed is blocked by it.
   It takes one death between the insert of the edge and the mark. The next tick finds the fix
   present and marks nothing, executes another node, and the propagation after it blocks the
   fix; the run fails without its repair having been tried.

Not findings, because tests or comments of the repository expect them: a
cancelled run that a late settlement completes, and a receipt that a caller
with an expired lease consumes.

### Observations

Behaviour the models reproduce and a reader of the code may not expect. The
properties are stated so that each is a named exception.

* Workflow runs. The mutation limit is compared in nodes and spent in nodes
  and edges, so it is exceeded. Two controllers need no death to block a fix (`FixNotBlocked`),
  since one of them may settle a node between the other's insert and its mark; and one may lease
  a node whose edge the other has not inserted yet, so that it runs before the node it
  was made for. On PostgreSQL, where nothing spans the search
  for a duplicate and the insert, `RowsAreNotReplaced` and with it `SettledIsFinal` do not hold.
  A proposal that needs approval is refused by `DAGManager` even when its status is approved.
* Queue and pauses. Two findings may pause one run; recovering the later one clears the pause
  while the older decision stands, and from then on neither recovery ("pause owner
  unavailable") nor a pause ("requires explicit audited recovery") succeeds. If such a run is
  overdue and the load is high, every turn fails before its first tick (`Wedged`, the
  exception of `RunsAreReached`; `BudgetPauseIsKept` is about the decision made last). A run behind `tick_limit` runs that wait for
  approvals is never ticked, and neither is one for which the executor pool is full each time a
  worker comes to it: it has used its place in the turn (`FindsNoSlot`). A pause does not stop a list already read: each worker may tick the run
  once more. An adoption does not end leases: what was leased before it is settled after it, under the
  API's ownership. A backpressure pause is never lifted by the engine, since every turn builds a
  new `Backpressure`, and it replaces an operator's hold. Resuming a terminal run opens it until
  the next tick closes it again.
* Recursive tree. A step that uses more than its node's budget can be refused by the store,
  and its usage is then not charged; the default child budget makes this reachable. An operator's
  pause keeps leases, contrary to the comment at `store/recursive_execution.rs:1125`. A
  killed tree may leave a root that waited for its retry pending.
* Workspace. An intake without a pinned hash may be bound to a checkout that was cut short.
  A killed `git worktree add` leaves a lock for which `remove --force` refuses. A local
  folder's recovery after a crash past the staging always fails the task. A second
  supervised row makes compensation impossible.
* Delegation. A retryable failure before sending is never sent again, because the journal
  refuses a second claim. A caller whose node lease was given away can still claim, send
  and apply. Closing a revoked attempt through `complete` writes a receipt that says expired. An
  overrun beyond the ceiling makes a failed attempt impossible to close until it is revoked
  (`AttemptEnds` excepts it). Revoking cleans up the workspace of a task that still runs.
* Gateway. The comment at `cli/cli_node_executor.rs:1440` ("the attempt terminal state must
  preserve that uncertainty") has the three exceptions that `UnknownIsKept` names: a child that
  ends without an exit status, a later request refused before the call, and a session log
  that counts no tokens, which makes a child that did not fail `failed`. TLC shows each to be reachable. An attempt whose launcher
  dies stays `admitted`.
* Output. In the first round a POST with an unknown outcome cannot be recorded (the claim
  was taken at the version before), so that a retry after the lease may POST again. A
  reconciling claim overwrites `outcome_unknown` and regains the authority to create once its
  lease has expired. A task that is `outcome_unknown` refuses every retry,
  while `docs/RUNBOOK.md:133` sends the operator to the same operation. A crash between
  recording the pull request and binding the version leaves the task pending for good.
  These are the disjuncts of `NeedsReconciliation`.
* Folder. Markers are derived with `with_extension`, so `Cargo.toml` and `Cargo.lock` share one
  and a rollback of both stops with an error. A failing directory creation for the marker leaves
  the file in hand applied. An edit between a file's check and its replacement is lost.

Found by reading, without a module: the circuit breaker's documentation has a half-open
circuit admit "a single probe call" and close on one success; the code admits any number and
asks for two (`infrastructure/circuit_breaker.rs`).

## 6. Not modelled

The engine has some 284,000 lines, tests in the same files included; the mapped lines are
about 7 % of them. The modules cover the parts in which several actors change
durable state. Every part left out is listed with its reason in `PROJECT.json`. In short:

* process launching, network clients, HTTP parsing, scoring heuristics, generated types
  and offline evaluation change no state that the modelled parts decide on;
* of product tasks: compiling, verification, repair and approval, exporting patches, and the
  EC3 failure path; of managed acceptance: effect envelopes, child authorizations, the
  decisions on them and the RWE authority, which bind identities by hashes more than they
  change state side by side;
* the RWE coordinator and harness evolution, sequential programs over frozen
  identities;
* SQL is taken to be atomic per transaction; clocks are replaced by "at any time".

## 7. Plan

1. An abstract specification of a one-use request with an unknown outcome that both
   `DelegatedAttempt` and `BudgetGateway` implement, from `AttemptInv` and `GatewayInv`.
2. The compile, verification and approval phases of product tasks.
3. Composition of `Scheduler` with `WorkflowRun`: a tick as the workers' turn, pause and
   kill against leases in flight.
