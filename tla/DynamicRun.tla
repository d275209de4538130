----------------------------- MODULE DynamicRun -----------------------------
(***************************************************************************)
(* One workflow run driven by DynamicWorkflowController::tick: besides     *)
(* executing ready nodes, a tick repairs the graph.  A failed node gets a  *)
(* fix node and a test of the fix and is marked recovered; a completed     *)
(* node whose result failed the quality check gets a review node.          *)
(*                                                                         *)
(* Every scheduler worker builds its own controller, so several of them    *)
(* tick the same run at the same time.  A tick is a long sequence of store *)
(* calls: it reads the run once, works from that snapshot, and every node, *)
(* every edge, every event and every status it writes is a transaction of  *)
(* its own, between which the other controllers go on and the process may  *)
(* die.                                                                    *)
(*                                                                         *)
(* Leases are those of WorkflowRun, for one run of ordinary nodes and      *)
(* max_retries 0.  The order of node ids is left open.                     *)
(***************************************************************************)
EXTENDS Naturals, Sequences, FiniteSets

CONSTANTS
    Base,           \* the nodes of the plan
    BaseEdge,       \* the edges of the plan, pairs of base nodes
    Ctrl,           \* the controllers that tick this run
    MaxTicks,       \* max_ticks_per_run
    MaxMutations,   \* max_mutations_per_run
    MaxNodes,       \* max_nodes of the DecompositionContext
    Pg,             \* TRUE: no lock spans the statements of a store call
    Faulty,         \* TRUE: processes die and leases expire
    MaxAttempts     \* bound: leases of one row

ASSUME DynamicAssumption ==
    /\ BaseEdge \subseteq Base \X Base
    /\ IsFiniteSet(Ctrl) /\ Ctrl # {}
    /\ MaxTicks \in Nat /\ MaxMutations \in Nat /\ MaxNodes \in Nat
    /\ Pg \in BOOLEAN /\ Faulty \in BOOLEAN
    /\ MaxAttempts \in Nat

VARIABLES
    runStatus,      \* workflow_runs.status
    row,            \* workflow_run_nodes: id -> status, attempt_count, quality
    edge,           \* workflow_run_edges
    ticks,          \* events controller.tick_started
    applied,        \* events dag.mutation.applied
    at              \* the local state of each controller

vars == <<runStatus, row, edge, ticks, applied, at>>

-----------------------------------------------------------------------------
(* Node ids.  A generated id is its origin and the prefixes put before it. *)

Kind == {"fix", "test", "review"}

Plain(b)  == <<b, << >> >>
Fix(n)    == <<n[1], Append(n[2], "fix")>>
Test(n)   == <<n[1], Append(n[2], "test")>>
Review(n) == <<n[1], Append(n[2], "review")>>

\* depends_on of a generated node has one element: the node it is made for.
DependsOn(n) == <<n[1], SubSeq(n[2], 1, Len(n[2]) - 1)>>
IsFix(n)     == n[2] # << >> /\ n[2][Len(n[2])] = "fix"

PendingRow == [status |-> "pending", attempt |-> 0, poor |-> FALSE]

Idle == [pc |-> "idle", seen |-> << >>, run |-> "", total |-> 0, todo |-> {},
         subject |-> << >>, batch |-> << >>, nodes |-> {}, edges |-> {},
         hits |-> 0, fixed |-> FALSE, phase |-> "repair", lease |-> 0]

With(s, st) == {n \in DOMAIN s : s[n].status = st}

IsTerminal(st) == st \in {"completed", "failed", "cancelled"}

Init ==
    /\ runStatus = "created"
    /\ row = [n \in {Plain(b) : b \in Base} |-> PendingRow]
    /\ edge = {<<Plain(e[1]), Plain(e[2])>> : e \in BaseEdge}
    /\ ticks = 0
    /\ applied = 0
    /\ at = [c \in Ctrl |-> Idle]

-----------------------------------------------------------------------------
(* The node table, as in WorkflowRun but with the edges of the moment. *)

Parents(n) == {p \in DOMAIN row : <<p, n>> \in edge}

Ready(n) ==
    /\ row[n].status = "pending"
    /\ \A p \in Parents(n) :
          \/ row[p].status = "completed"
          \/ IsFix(n) /\ row[p].status \in {"failed", "recovered"}

\* propagate_failed_dependencies_locked: the least set of pending nodes that
\* contains every pending child of a failed or blocked node and of itself.
Doomed(s) ==
    LET pending == With(s, "pending")
        bad     == With(s, "failed") \cup With(s, "blocked")
        Closed(S) == \A n \in pending : Parents(n) \cap (bad \cup S) # {} => n \in S
    IN  {n \in pending : \A S \in SUBSET pending : Closed(S) => n \in S}

Propagate(s) ==
    [n \in DOMAIN s |-> IF n \in Doomed(s) THEN [s[n] EXCEPT !.status = "blocked"] ELSE s[n]]

\* Mutant: a recovered node is not done.
CompletionUnrecovered(s, cur) ==
    IF \A n \in DOMAIN s : s[n].status \in {"completed", "failed", "blocked"}
    THEN IF With(s, "failed") \cup With(s, "blocked") # {} THEN "failed" ELSE "completed"
    ELSE cur

\* check_run_completion_locked: a recovered node is done and is no failure.
Completion(s, cur) ==
    IF \A n \in DOMAIN s : s[n].status \in {"completed", "failed", "blocked", "recovered"}
    THEN IF With(s, "failed") \cup With(s, "blocked") # {} THEN "failed" ELSE "completed"
    ELSE cur

-----------------------------------------------------------------------------
(* Decomposition: what to add for a node, given the ids in the snapshot. *)

\* decompose_test_failure
TestFailure(n, s) ==
    LET size == Cardinality(DOMAIN s)
    IN  IF Fix(n) \in DOMAIN s \/ size >= MaxNodes THEN << >>
        ELSE IF size + 1 < MaxNodes THEN <<Fix(n), Test(Fix(n))>>
        ELSE <<Fix(n)>>

\* decompose_quality_failure
QualityFailure(n, s) ==
    IF Review(n) \in DOMAIN s \/ Cardinality(DOMAIN s) >= MaxNodes
    THEN << >> ELSE <<Review(n)>>

\* node_proposals_to_dag_mutations: per proposal the node, then its edge.
DagMutations(ps) ==
    [i \in 1 .. 2 * Len(ps) |->
        [add |-> IF i % 2 = 1 THEN "node" ELSE "edge", id |-> ps[(i + 1) \div 2]]]

-----------------------------------------------------------------------------
Store == <<runStatus, row, edge, ticks, applied>>

Goto(c, l) == at' = [at EXCEPT ![c] = l]

\* The run is read; the counters are those of its event log.
Begin(c) ==
    /\ at[c].pc = "idle"
    /\ ticks < MaxTicks
    /\ Goto(c, [Idle EXCEPT !.pc = "start", !.seen = row, !.run = runStatus,
                            !.total = applied])
    /\ UNCHANGED Store

\* terminal_repair_allowed
RepairAllowed(l) == l.run = "failed" /\ With(l.seen, "failed") # {}

\* Mutant: a node that is running in the snapshot is taken for a failed one.
StartLost(c) ==
    /\ at[c].pc = "start"
    /\ ticks' = ticks + 1
    /\ Goto(c, IF IsTerminal(at[c].run) /\ ~ RepairAllowed(at[c])
               THEN Idle
               ELSE [at[c] EXCEPT !.pc = "recover",
                                  !.todo = With(at[c].seen, "failed") \cup With(at[c].seen, "running")])
    /\ UNCHANGED <<runStatus, row, edge, applied>>

\* controller.tick_started is appended, then terminal runs are left alone.
Start(c) ==
    /\ at[c].pc = "start"
    /\ ticks' = ticks + 1
    /\ Goto(c, IF IsTerminal(at[c].run) /\ ~ RepairAllowed(at[c])
               THEN Idle
               ELSE [at[c] EXCEPT !.pc = "recover", !.todo = With(at[c].seen, "failed")])
    /\ UNCHANGED <<runStatus, row, edge, applied>>

\* apply_dag_mutations_batch begins: the graph is loaded into a DAGManager.
BeginBatch(l, n, ps) ==
    [l EXCEPT !.pc = "batch", !.subject = n, !.batch = DagMutations(ps),
              !.nodes = DOMAIN row, !.edges = edge, !.hits = 0]

\* Mutant: a failed node is marked recovered even when nothing can be added.
RecoverNodeAlways(c, n) ==
    LET l  == at[c]
        ps == TestFailure(n, l.seen)
    IN  /\ l.pc = "recover"
        /\ l.total < MaxMutations
        /\ n \in l.todo
        /\ Goto(c, IF ps = << >> THEN [l EXCEPT !.pc = "mark", !.subject = n]
                   ELSE BeginBatch(l, n, ps))
        /\ UNCHANGED Store

\* One failed node of apply_failed_node_recovery.  The proposals that are
\* compared with the rest of the budget are nodes; what is counted later are
\* nodes and edges.
RecoverNode(c, n) ==
    LET l  == at[c]
        ps == TestFailure(n, l.seen)
    IN  /\ l.pc = "recover"
        /\ l.total < MaxMutations
        /\ n \in l.todo
        /\ Goto(c, CASE ps = << >> -> [l EXCEPT !.todo = @ \ {n}]
                     [] ps # << >> /\ l.total + Len(ps) > MaxMutations -> [l EXCEPT !.todo = {}]
                     [] OTHER -> BeginBatch(l, n, ps))
        /\ UNCHANGED Store

\* Phase 2 begins: the completed nodes whose result failed the quality check.
ToQuality(l) ==
    [l EXCEPT !.pc = "quality", !.phase = "quality",
              !.todo = {n \in With(l.seen, "completed") : l.seen[n].poor}]

\* The loop is over.  After a tick, or on a failed run, a repair is followed
\* by a resume, and without one there is nothing more to do.
RecoverEnd(c) ==
    LET l       == at[c]
        resumes == l.phase = "late" \/ RepairAllowed(l)
    IN  /\ l.pc = "recover"
        /\ l.todo = {} \/ l.total >= MaxMutations
        /\ Goto(c, CASE resumes /\ l.fixed   -> [l EXCEPT !.pc = "resume"]
                     [] resumes /\ ~ l.fixed -> Idle
                     [] OTHER                -> ToQuality(l))
        /\ UNCHANGED Store

\* request_workflow_run_resume, whatever the status is by now.
Resume(c) ==
    /\ at[c].pc = "resume"
    /\ runStatus' = "running"
    /\ Goto(c, IF at[c].phase = "late" THEN Idle ELSE ToQuality(at[c]))
    /\ UNCHANGED <<row, edge, ticks, applied>>

\* One completed node of phase 2; what is left of the budget is not compared.
ReviewNode(c, n) ==
    LET l  == at[c]
        ps == QualityFailure(n, l.seen)
    IN  /\ l.pc = "quality"
        /\ l.total < MaxMutations
        /\ n \in l.todo
        /\ Goto(c, IF ps = << >> THEN [l EXCEPT !.todo = @ \ {n}] ELSE BeginBatch(l, n, ps))
        /\ UNCHANGED Store

\* Phase 3.  At the mutation limit a run whose snapshot has pending nodes is
\* not ticked: approval is asked for.
QualityEnd(c) ==
    LET l == at[c]
    IN  /\ l.pc = "quality"
        /\ l.todo = {} \/ l.total >= MaxMutations
        /\ Goto(c, IF l.total >= MaxMutations /\ With(l.seen, "pending") # {}
                   THEN Idle ELSE [l EXCEPT !.pc = "tick"])
        /\ UNCHANGED Store

-----------------------------------------------------------------------------
(* apply_dag_mutations_batch, one proposal at a time. *)

\* DAGManager::apply_mutation on the loaded graph: no duplicates, and both
\* ends of an edge are there.  (A generated node has no outgoing edge when its
\* own edge is added, so has_cycle is never true here; see DagManager.)
Accepts(l, m) ==
    IF m.add = "node" THEN m.id \notin l.nodes
    ELSE /\ {m.id, DependsOn(m.id)} \subseteq l.nodes
         /\ <<DependsOn(m.id), m.id>> \notin l.edges

\* The proposal is in the graph of the DAGManager, applied or not.
Taken(l, m) ==
    IF m.add = "node" THEN [l EXCEPT !.nodes = @ \cup {m.id}]
    ELSE [l EXCEPT !.edges = @ \cup {<<DependsOn(m.id), m.id>>}]

Skipped(l) == [l EXCEPT !.batch = Tail(@)]

InsertNode(n) == row' = [x \in DOMAIN row \cup {n} |-> IF x = n THEN PendingRow ELSE row[x]]

\* insert_workflow_node and insert_workflow_edge refuse what is in the table.
InTable(m) ==
    IF m.add = "node" THEN m.id \in DOMAIN row ELSE <<DependsOn(m.id), m.id>> \in edge

Refuse(c) ==
    LET l == at[c]
        m == Head(l.batch)
    IN  /\ l.pc = "batch"
        /\ l.batch # << >>
        /\ ~ Accepts(l, m) \/ InTable(m)
        /\ Goto(c, Skipped(IF Accepts(l, m) THEN Taken(l, m) ELSE l))
        /\ UNCHANGED Store

\* Mutant: SQLite does not look for the row either.
ApplyUnchecked(c) ==
    LET l == at[c]
        m == Head(l.batch)
    IN  /\ l.pc = "batch"
        /\ l.batch # << >>
        /\ Accepts(l, m)
        /\ IF m.add = "node" THEN InsertNode(m.id) /\ UNCHANGED edge
           ELSE edge' = edge \cup {<<DependsOn(m.id), m.id>>} /\ UNCHANGED row
        /\ Goto(c, [Taken(l, m) EXCEPT !.pc = "record"])
        /\ UNCHANGED <<runStatus, ticks, applied>>

\* SQLite: the process lock spans the search for the row and the insert.
Apply(c) ==
    LET l == at[c]
        m == Head(l.batch)
    IN  /\ l.pc = "batch"
        /\ l.batch # << >>
        /\ Accepts(l, m) /\ ~ InTable(m)
        /\ ~ Pg
        /\ IF m.add = "node" THEN InsertNode(m.id) /\ UNCHANGED edge
           ELSE edge' = edge \cup {<<DependsOn(m.id), m.id>>} /\ UNCHANGED row
        /\ Goto(c, [Taken(l, m) EXCEPT !.pc = "record"])
        /\ UNCHANGED <<runStatus, ticks, applied>>

\* PostgreSQL: the search is a statement of its own ...
PgSearch(c) ==
    LET l == at[c]
        m == Head(l.batch)
    IN  /\ l.pc = "batch"
        /\ l.batch # << >>
        /\ Accepts(l, m) /\ ~ InTable(m)
        /\ Pg
        /\ Goto(c, [Taken(l, m) EXCEPT !.pc = "insert"])
        /\ UNCHANGED Store

\* ... and the insert ON CONFLICT DO UPDATE another.
PgInsert(c) ==
    LET m == Head(at[c].batch)
    IN  /\ at[c].pc = "insert"
        /\ IF m.add = "node" THEN InsertNode(m.id) /\ UNCHANGED edge
           ELSE edge' = edge \cup {<<DependsOn(m.id), m.id>>} /\ UNCHANGED row
        /\ Goto(c, [at[c] EXCEPT !.pc = "record"])
        /\ UNCHANGED <<runStatus, ticks, applied>>

\* The event dag.mutation.applied.
Record(c) ==
    /\ at[c].pc = "record"
    /\ applied' = applied + 1
    /\ Goto(c, [Skipped(at[c]) EXCEPT !.pc = "batch", !.hits = @ + 1])
    /\ UNCHANGED <<runStatus, row, edge, ticks>>

BatchEnd(c) ==
    LET l == [at[c] EXCEPT !.total = @ + at[c].hits, !.nodes = {}, !.edges = {}]
    IN  /\ l.pc = "batch"
        /\ l.batch = << >>
        /\ Goto(c, CASE l.phase = "quality" -> [l EXCEPT !.pc = "quality", !.todo = @ \ {l.subject}]
                     [] l.phase # "quality" /\ l.hits > 0 -> [l EXCEPT !.pc = "mark"]
                     [] OTHER -> [l EXCEPT !.pc = "recover", !.todo = @ \ {l.subject}])
        /\ UNCHANGED Store

\* update_workflow_node_status(.., "recovered"): the status is not compared.
Mark(c) ==
    LET l == at[c]
    IN  /\ l.pc = "mark"
        /\ row' = [row EXCEPT ![l.subject].status = "recovered"]
        /\ Goto(c, [l EXCEPT !.pc = "recover", !.fixed = TRUE, !.todo = @ \ {l.subject}])
        /\ UNCHANGED <<runStatus, edge, ticks, applied>>

-----------------------------------------------------------------------------
(* Phase 4, the three phases of WorkflowRun, and what follows it. *)

\* tick_with_executor_and_command of a terminal run is an error.
TickTerminal(c) ==
    /\ at[c].pc = "tick"
    /\ IsTerminal(runStatus)
    /\ Goto(c, Idle)
    /\ UNCHANGED Store

Lease(c, n) ==
    /\ at[c].pc = "tick"
    /\ ~ IsTerminal(runStatus)
    /\ n \in DOMAIN row /\ Ready(n)
    /\ row[n].attempt < MaxAttempts
    /\ runStatus' = "running"
    /\ row' = [row EXCEPT ![n].status = "running", ![n].attempt = @ + 1]
    /\ Goto(c, [at[c] EXCEPT !.pc = "execute", !.subject = n, !.lease = row[n].attempt + 1])
    /\ UNCHANGED <<edge, ticks, applied>>

NoReadyNode(c) ==
    /\ at[c].pc = "tick"
    /\ ~ IsTerminal(runStatus)
    /\ \A n \in DOMAIN row : ~ Ready(n)
    /\ row' = Propagate(row)
    /\ runStatus' = Completion(row', "running")
    /\ Goto(c, [at[c] EXCEPT !.pc = "after"])
    /\ UNCHANGED <<edge, ticks, applied>>

HoldsLease(l) == row[l.subject].status = "running" /\ row[l.subject].attempt = l.lease

Settle(c, out) ==
    LET l == at[c]
    IN  /\ l.pc = "execute"
        /\ HoldsLease(l)
        /\ row' = Propagate([row EXCEPT ![l.subject] =
                      [@ EXCEPT !.status = IF out = "failed" THEN "failed" ELSE "completed",
                                !.poor = out = "poor"]])
        /\ runStatus' = Completion(row', runStatus)
        /\ Goto(c, [l EXCEPT !.pc = "after"])
        /\ UNCHANGED <<edge, ticks, applied>>

SettleStale(c) ==
    /\ at[c].pc = "execute"
    /\ ~ HoldsLease(at[c])
    /\ Goto(c, [at[c] EXCEPT !.pc = "after"])
    /\ UNCHANGED Store

\* The run is read again; if it is failed now, its failed nodes are repaired.
After(c) ==
    /\ at[c].pc = "after"
    /\ Goto(c, IF runStatus = "failed"
               THEN [at[c] EXCEPT !.pc = "recover", !.phase = "late", !.seen = row,
                                  !.todo = With(row, "failed"), !.fixed = FALSE]
               ELSE Idle)
    /\ UNCHANGED Store

-----------------------------------------------------------------------------
\* recover_stale_leases, for one node: its holder may still be at work.
RecoverStaleLease(n) ==
    /\ Faulty
    /\ n \in With(row, "running")
    /\ row' = [row EXCEPT ![n].status = "pending"]
    /\ UNCHANGED <<runStatus, edge, ticks, applied, at>>

Crash(c) ==
    /\ Faulty
    /\ at[c].pc # "idle"
    /\ Goto(c, Idle)
    /\ UNCHANGED Store

CtrlStep(c) ==
    \/ Begin(c) \/ Start(c)
    \/ \E n \in at[c].todo : RecoverNode(c, n) \/ ReviewNode(c, n)
    \/ RecoverEnd(c) \/ Resume(c) \/ QualityEnd(c)
    \/ Refuse(c) \/ Apply(c) \/ PgSearch(c) \/ PgInsert(c) \/ Record(c)
    \/ BatchEnd(c) \/ Mark(c)
    \/ \E n \in DOMAIN row : Lease(c, n)
    \/ TickTerminal(c) \/ NoReadyNode(c)
    \/ \E out \in {"completed", "poor", "failed"} : Settle(c, out)
    \/ SettleStale(c) \/ After(c)

Next ==
    \/ \E c \in Ctrl : CtrlStep(c) \/ Crash(c)
    \/ \E n \in DOMAIN row : RecoverStaleLease(n)

Spec == Init /\ [][Next]_vars

\* A scheduler worker calls the next tick and a tick goes on.
FairSpec == Spec /\ \A c \in Ctrl : WF_vars(CtrlStep(c))

-----------------------------------------------------------------------------
(* Properties. *)

\* The tables and the counters are well formed, and both ends of an edge are
\* rows: find_ready_node_locked joins the two tables, so that an edge without
\* its row would be a dependency that is lost.
TypeOK ==
    /\ runStatus \in {"created", "running", "completed", "failed", "cancelled"}
    /\ \A n \in DOMAIN row :
          /\ n[1] \in Base /\ n[2] \in Seq(Kind)
          /\ row[n] \in [status : {"pending", "running", "completed", "failed", "blocked",
                                   "recovered"},
                         attempt : 0 .. MaxAttempts, poor : BOOLEAN]
    /\ \A e \in edge : {e[1], e[2]} \subseteq DOMAIN row
    /\ ticks \in Nat /\ applied \in Nat

\* A failure is forgiven only when its repair is in the graph: a recovered
\* node, which no longer counts as a failure, has its fix node, whatever
\* controller put it there and wherever a controller died.
RecoveredHasFix == \A n \in With(row, "recovered") : Fix(n) \in DOMAIN row

\* The tick limit is read from the event log at the start of a tick, so
\* controllers that started together overrun it by at most one tick each.
TickLimit == ticks < MaxTicks + Cardinality(Ctrl)

\* One controller brings a run to an end within its tick budget, through
\* failing fixes and tests of fixes, unless the mutation limit stops it.
RunEnds ==
    <>[](IsTerminal(runStatus) \/ (applied >= MaxMutations /\ With(row, "pending") # {}))

\* Duplicate inserts are refused, so no controller sets back a row that others
\* have leased or finished.
RowsAreNotReplaced ==
    [][\A n \in DOMAIN row : n \in DOMAIN row' /\ row'[n].attempt >= row[n].attempt]_vars

\* Done is done, for every controller: no late settlement, no lease and no repair
\* from an old snapshot changes a node that is completed, blocked or recovered, and
\* the mark that update_workflow_node_status writes without comparing the status
\* only ever finds a failed node or one that has it already.
SettledIsFinal ==
    [][\A n \in DOMAIN row :
          LET st == row'[n].status
          IN  /\ row[n].status \in {"completed", "blocked", "recovered"} => st = row[n].status
              /\ row[n].status = "failed" => st \in {"failed", "recovered"}]_vars

\* "Recovery/fix nodes are allowed to depend on failed or recovered nodes": a
\* fix node is not blocked by the failure it is there to fix.  The code breaks this:
\* propagate_failed_dependencies_locked does not look at the task type, and blocks
\* the fix of a node that is not marked recovered yet.
FixNotBlocked ==
    \A n \in DOMAIN row : IsFix(n) => row[n].status # "blocked"

\* What two controllers that repair one run may not do to it: lose its shape, forgive a
\* failure without a fix, or tick on beyond the limit.
RepairIsSound == TypeOK /\ RecoveredHasFix /\ TickLimit
=============================================================================
