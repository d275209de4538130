-------------------------- MODULE DynamicRunProofs --------------------------
(***************************************************************************)
(* Proofs of the safety properties of DynamicRun, for any plan, any number *)
(* of controllers that tick the run at the same time, and any limits.      *)
(***************************************************************************)
EXTENDS DynamicRun, FiniteSetTheorems, TLAPS

(* What the properties rest on. *)

NodeId == Base \X Seq(Kind)

RowStatus == {"pending", "running", "completed", "failed", "blocked", "recovered"}
Rows == [status : RowStatus, attempt : 0 .. MaxAttempts, poor : BOOLEAN]

Fields == {"pc", "seen", "run", "total", "todo", "subject", "batch", "nodes", "edges", "hits", "fixed",
           "phase", "lease"}

Mutations == [add : {"node", "edge"}, id : NodeId]

\* The store: TypeOK, with the ids as a set.
StoreInv ==
    /\ runStatus \in {"created", "running", "completed", "failed", "cancelled"}
    /\ DOMAIN row \subseteq NodeId /\ row \in [DOMAIN row -> Rows]
    /\ \A e \in edge : {e[1], e[2]} \subseteq DOMAIN row
    /\ ticks \in Nat /\ applied \in Nat

InBatch == {"batch", "insert", "record"}

\* What a controller knows of the rows, whose ids are D: they are never removed, so
\* what it has read of them is still there.
KnownInv(l, D) ==
    /\ DOMAIN l = Fields
    /\ DOMAIN l.seen \subseteq D
    /\ l.todo \subseteq D
    /\ l.pc \in InBatch \cup {"mark", "execute"} => l.subject \in D
    /\ l.pc \in {"start", "recover", "resume", "mark"} => l.phase # "quality"
    /\ l.pc = "quality" => l.phase = "quality"

\* The graph of its DAGManager is part of the table, but for the node whose
\* insert is the next statement.
BatchInv(l, D) ==
    /\ l.pc \in InBatch =>
          /\ l.batch \in Seq(Mutations)
          /\ l.nodes \subseteq D \cup (IF l.pc = "insert" THEN {Head(l.batch).id} ELSE {})
    /\ l.pc \in {"insert", "record"} => l.batch # << >>
    /\ l.pc = "insert" =>
          /\ Pg
          /\ Head(l.batch).add = "edge" => {Head(l.batch).id, DependsOn(Head(l.batch).id)} \subseteq D

\* The first thing a repair adds is the fix node, or it is there already.
FixInv(l, D) ==
    /\ l.pc \in {"batch", "insert"} /\ l.phase # "quality" =>
          \/ Fix(l.subject) \in D
          \/ l.batch # << >> /\ Head(l.batch) = [add |-> "node", id |-> Fix(l.subject)]
    /\ (l.pc = "record" /\ l.phase # "quality") \/ l.pc = "mark" => Fix(l.subject) \in D

LocalInv(l, D) == KnownInv(l, D) /\ BatchInv(l, D) /\ FixInv(l, D)

\* Controllers that have read the number of ticks and not yet added theirs.
Starting == {c \in Ctrl : at[c].pc = "start"}

TickInv == ticks + Cardinality(Starting) < MaxTicks + Cardinality(Ctrl)

DynInv ==
    /\ StoreInv
    /\ DOMAIN at = Ctrl
    /\ \A c \in Ctrl : LocalInv(at[c], DOMAIN row)
    /\ RecoveredHasFix
    /\ TickInv

-----------------------------------------------------------------------------
(* Ids, batches and rows. *)

\* A generated id is an id.
LEMMA GeneratedIds ==
    ASSUME NEW n \in NodeId
    PROVE  Fix(n) \in NodeId /\ Test(n) \in NodeId /\ Review(n) \in NodeId
  <1>1. n[1] \in Base /\ n[2] \in Seq(Kind) /\ {"fix", "test", "review"} \subseteq Kind
    BY DEF NodeId, Kind
  <1>2. \A k \in Kind : Append(n[2], k) \in Seq(Kind)
    BY <1>1
  <1> QED
    BY <1>1, <1>2 DEF NodeId, Fix, Test, Review

\* Each proposal becomes a node, then its edge.
LEMMA BatchOf ==
    ASSUME NEW ps \in Seq(NodeId), ps # << >>
    PROVE  /\ DagMutations(ps) \in Seq(Mutations) /\ DagMutations(ps) # << >>
           /\ Head(DagMutations(ps)) = [add |-> "node", id |-> ps[1]]
  <1> DEFINE k == 2 * Len(ps)
             m(i) == [add |-> IF i % 2 = 1 THEN "node" ELSE "edge", id |-> ps[(i + 1) \div 2]]
             s == [i \in 1 .. k |-> m(i)]
  <1>1. k \in Nat /\ k >= 2
    OBVIOUS
  <1>2. ASSUME NEW i \in 1 .. k PROVE m(i) \in Mutations
    <2>1. (i + 1) \div 2 \in 1 .. Len(ps)
      BY <1>1
    <2>2. ps[(i + 1) \div 2] \in NodeId
      BY <2>1
    <2> QED
      BY <2>2 DEF Mutations
  <1>3. DagMutations(ps) = s
    BY DEF DagMutations
  <1> HIDE DEF k, m
  <1>4. s \in Seq(Mutations) /\ Len(s) = k /\ s[1] = m(1)
    BY <1>1, <1>2
  <1>5. m(1) = [add |-> "node", id |-> ps[1]]
    BY DEF m
  <1> HIDE DEF s
  <1> QED
    BY <1>1, <1>3, <1>4, <1>5

\* What the decompositions propose.
LEMMA Proposals ==
    ASSUME NEW n \in NodeId, NEW s
    PROVE  /\ TestFailure(n, s) # << >> => TestFailure(n, s) \in Seq(NodeId) /\ TestFailure(n, s)[1] = Fix(n)
           /\ QualityFailure(n, s) # << >> => QualityFailure(n, s) \in Seq(NodeId)
  <1>1. Fix(n) \in NodeId /\ Test(Fix(n)) \in NodeId /\ Review(n) \in NodeId
    BY GeneratedIds
  <1>2. TestFailure(n, s) \in {<< >>, <<Fix(n), Test(Fix(n))>>, <<Fix(n)>>}
    BY DEF TestFailure
  <1>3. QualityFailure(n, s) \in {<< >>, <<Review(n)>>}
    BY DEF QualityFailure
  <1>4. <<Fix(n), Test(Fix(n))>> \in Seq(NodeId) /\ <<Fix(n)>> \in Seq(NodeId) /\ <<Review(n)>> \in Seq(NodeId)
    BY <1>1
  <1>5. <<Fix(n), Test(Fix(n))>>[1] = Fix(n) /\ <<Fix(n)>>[1] = Fix(n)
    OBVIOUS
  <1> QED
    BY <1>2, <1>3, <1>4, <1>5

\* The updates of a row.
RowOf(status, attempt, poor) == [status |-> status, attempt |-> attempt, poor |-> poor]

\* An updated row is the row built from its new fields.
LEMMA RowFields ==
    ASSUME NEW r \in Rows, NEW x, NEW y, NEW q
    PROVE  /\ q = [r EXCEPT !.status = x, !.attempt = y] => q = RowOf(x, y, r.poor)
           /\ q = [r EXCEPT !.status = x, !.poor = y] => q = RowOf(x, r.attempt, y)
           /\ q = [r EXCEPT !.status = x] => q = RowOf(x, r.attempt, r.poor)
  <1>1. q = [r EXCEPT !.status = x, !.attempt = y] => q = RowOf(x, y, r.poor)
    BY Zenon DEF Rows, RowOf
  <1>2. q = [r EXCEPT !.status = x, !.poor = y] => q = RowOf(x, r.attempt, y)
    BY Zenon DEF Rows, RowOf
  <1>3. q = [r EXCEPT !.status = x] => q = RowOf(x, r.attempt, r.poor)
    BY Zenon DEF Rows, RowOf
  <1> QED
    BY <1>1, <1>2, <1>3

\* The row of a settled node.
LEMMA SettledRow ==
    ASSUME NEW r \in Rows, NEW x \in RowStatus, NEW out
    PROVE  [r EXCEPT !.status = x, !.poor = (out = "poor")] \in Rows
  BY Zenon DEF Rows

\* Propagation blocks pending rows and leaves the others as they are.
LEMMA Propagated ==
    ASSUME NEW s, s \in [DOMAIN s -> Rows]
    PROVE  /\ DOMAIN Propagate(s) = DOMAIN s /\ Propagate(s) \in [DOMAIN s -> Rows]
           /\ \A n \in DOMAIN s :
                 /\ Propagate(s)[n].attempt = s[n].attempt /\ Propagate(s)[n].poor = s[n].poor
                 /\ Propagate(s)[n].status = IF n \in Doomed(s) THEN "blocked" ELSE s[n].status
  <1> DEFINE p == Propagate(s)
  <1>1. DOMAIN p = DOMAIN s /\ p = [n \in DOMAIN s |-> p[n]]
    BY DEF Propagate
  <1>2. ASSUME NEW n \in DOMAIN s
        PROVE  /\ p[n] \in Rows /\ p[n].attempt = s[n].attempt /\ p[n].poor = s[n].poor
               /\ p[n].status = IF n \in Doomed(s) THEN "blocked" ELSE s[n].status
    <2>1. s[n] \in Rows
      OBVIOUS
    <2>2. p[n] = IF n \in Doomed(s) THEN [s[n] EXCEPT !.status = "blocked"] ELSE s[n]
      BY DEF Propagate
    <2> HIDE DEF p
    <2>3. CASE n \in Doomed(s)
      BY <2>1, <2>2, <2>3 DEF Rows, RowStatus
    <2>4. CASE n \notin Doomed(s)
      BY <2>1, <2>2, <2>4
    <2> QED
      BY <2>3, <2>4
  <1> HIDE DEF p
  <1> QED
    BY <1>1, <1>2 DEF p

-----------------------------------------------------------------------------
(* The controllers. *)

\* What a controller knows stays true while rows are added.
LEMMA KnownGrows ==
    ASSUME NEW l, NEW D, NEW E, D \subseteq E, LocalInv(l, D)
    PROVE  LocalInv(l, E)
  <1>1. KnownInv(l, E)
    BY DEF LocalInv, KnownInv
  <1>2. BatchInv(l, E)
    BY DEF LocalInv, BatchInv
  <1>3. FixInv(l, E)
    BY DEF LocalInv, FixInv
  <1> QED
    BY <1>1, <1>2, <1>3 DEF LocalInv

\* The state between two ticks.
LEMMA IdleKnows ==
    ASSUME NEW D
    PROVE  LocalInv(Idle, D)
  <1>1. /\ DOMAIN Idle = Fields /\ Idle.pc = "idle" /\ Idle.todo = {} /\ DOMAIN Idle.seen = {}
    BY DEF Idle, Fields
  <1> QED
    BY <1>1 DEF LocalInv, KnownInv, BatchInv, FixInv, InBatch

\* Between batches nothing is known of one.
LEMMA OutsideBatch ==
    ASSUME NEW l, NEW D, l.pc \notin InBatch \cup {"mark"}
    PROVE  BatchInv(l, D) /\ FixInv(l, D)
  BY DEF BatchInv, FixInv, InBatch

\* The steps before and after a batch that replace the list of nodes to look at.
LEMMA TodoMoves ==
    ASSUME NEW l, NEW D, KnownInv(l, D), NEW T \in SUBSET D
    PROVE  /\ l.pc = "start" => LocalInv([l EXCEPT !.pc = "recover", !.todo = T], D)
           /\ l.pc \in {"recover", "quality"} => LocalInv([l EXCEPT !.todo = T], D)
           /\ l.pc = "mark" => LocalInv([l EXCEPT !.pc = "recover", !.fixed = TRUE, !.todo = T], D)
  <1>0. DOMAIN l = Fields
    BY DEF KnownInv
  <1> USE OutsideBatch DEF LocalInv, KnownInv, InBatch
  <1>1. ASSUME l.pc = "start" PROVE LocalInv([l EXCEPT !.pc = "recover", !.todo = T], D)
    <2> DEFINE r == [l EXCEPT !.pc = "recover", !.todo = T]
    <2>1. DOMAIN r = Fields /\ r.pc = "recover" /\ r.todo = T /\ r.seen = l.seen /\ r.phase = l.phase
      BY <1>0 DEF Fields
    <2> HIDE DEF r
    <2>2. LocalInv(r, D)
      BY <1>1, <2>1
    <2> QED
      BY <2>2 DEF r
  <1>2. ASSUME l.pc \in {"recover", "quality"}
        PROVE  LocalInv([l EXCEPT !.todo = T], D)
    BY <1>2 DEF Fields
  <1>3. ASSUME l.pc = "mark" PROVE LocalInv([l EXCEPT !.pc = "recover", !.fixed = TRUE, !.todo = T], D)
    <2> DEFINE r == [l EXCEPT !.pc = "recover", !.fixed = TRUE, !.todo = T]
    <2>1. DOMAIN r = Fields /\ r.pc = "recover" /\ r.todo = T /\ r.seen = l.seen /\ r.phase = l.phase
      BY <1>0 DEF Fields
    <2> HIDE DEF r
    <2>2. LocalInv(r, D)
      BY <1>3, <2>1
    <2> QED
      BY <2>2 DEF r
  <1> HIDE DEF LocalInv, KnownInv
  <1> QED
    BY <1>1, <1>2, <1>3

\* The steps before and after a batch that keep it or compute it from the snapshot.
LEMMA PlainMoves ==
    ASSUME NEW l, NEW D, KnownInv(l, D)
    PROVE  /\ l.pc = "recover" => LocalInv([l EXCEPT !.pc = "resume"], D)
           /\ l.pc = "quality" => LocalInv([l EXCEPT !.pc = "tick"], D)
           /\ LocalInv([l EXCEPT !.pc = "after"], D)
           /\ LocalInv(ToQuality(l), D)
  <1>0. DOMAIN l = Fields
    BY DEF KnownInv
  <1> USE OutsideBatch DEF LocalInv, KnownInv, InBatch
  <1>1. ASSUME l.pc = "recover" PROVE LocalInv([l EXCEPT !.pc = "resume"], D)
    BY <1>1 DEF Fields
  <1>2. ASSUME l.pc = "quality" PROVE LocalInv([l EXCEPT !.pc = "tick"], D)
    BY <1>2 DEF Fields
  <1>3. LocalInv([l EXCEPT !.pc = "after"], D)
    BY DEF Fields
  <1>4. LocalInv(ToQuality(l), D)
    <2> DEFINE t == {m \in With(l.seen, "completed") : l.seen[m].poor}
               r == ToQuality(l)
    <2>1. DOMAIN r = Fields /\ r.pc = "quality" /\ r.phase = "quality" /\ r.todo = t /\ r.seen = l.seen
      BY <1>0 DEF Fields, ToQuality
    <2>2. t \subseteq D
      BY DEF With
    <2> HIDE DEF r, t
    <2>3. LocalInv(r, D)
      BY <2>1, <2>2
    <2> QED
      BY <2>3 DEF r
  <1> HIDE DEF LocalInv, KnownInv
  <1> QED
    BY <1>1, <1>2, <1>3, <1>4

\* A leased row is the controller's subject.
LEMMA LeaseMoves ==
    ASSUME NEW l, NEW D, KnownInv(l, D), NEW n \in D, NEW k, l.pc = "tick",
           NEW r, r = [l EXCEPT !.pc = "execute", !.subject = n, !.lease = k]
    PROVE  LocalInv(r, D)
  <1>1. /\ DOMAIN r = Fields /\ r.pc = "execute" /\ r.subject = n /\ r.todo = l.todo /\ r.seen = l.seen
        /\ r.phase = l.phase
    BY DEF Fields, KnownInv
  <1> QED
    BY <1>1, OutsideBatch DEF LocalInv, KnownInv, InBatch

\* What taking and skipping a proposal leaves as it is.
LEMMA TakenFields ==
    ASSUME NEW l, DOMAIN l = Fields, NEW m, NEW t, t = Taken(l, m)
    PROVE  /\ DOMAIN t = Fields /\ t.seen = l.seen /\ t.todo = l.todo /\ t.subject = l.subject
           /\ t.phase = l.phase /\ t.batch = l.batch /\ t.pc = l.pc
           /\ t.nodes = IF m.add = "node" THEN l.nodes \cup {m.id} ELSE l.nodes
  BY DEF Taken, Fields

\* Passing a proposal over leaves the rest as it is.
LEMMA SkippedFields ==
    ASSUME NEW l, DOMAIN l = Fields, NEW t, t = Skipped(l)
    PROVE  /\ DOMAIN t = Fields /\ t.seen = l.seen /\ t.todo = l.todo /\ t.subject = l.subject
           /\ t.phase = l.phase /\ t.batch = Tail(l.batch) /\ t.pc = l.pc /\ t.nodes = l.nodes
  BY DEF Skipped, Fields

\* A step to another place leaves the rest as it is.
LEMMA PcFields ==
    ASSUME NEW l, DOMAIN l = Fields, NEW p, NEW t, t = [l EXCEPT !.pc = p]
    PROVE  /\ DOMAIN t = Fields /\ t.seen = l.seen /\ t.todo = l.todo /\ t.subject = l.subject
           /\ t.phase = l.phase /\ t.batch = l.batch /\ t.pc = p /\ t.nodes = l.nodes
           /\ t.edges = l.edges /\ t.hits = l.hits
  BY DEF Fields

\* A batch begins with the table as its graph.
LEMMA BatchBegins ==
    ASSUME NEW l, KnownInv(l, DOMAIN row), NEW n \in DOMAIN row, NEW ps \in Seq(NodeId), ps # << >>,
           \/ l.pc = "recover" /\ ps[1] = Fix(n)
           \/ l.pc = "quality"
    PROVE  LocalInv(BeginBatch(l, n, ps), DOMAIN row)
  <1> DEFINE t == BeginBatch(l, n, ps)
             b == DagMutations(ps)
  <1>1. DOMAIN l = Fields
    BY DEF KnownInv
  <1>2. /\ DOMAIN t = Fields /\ t.pc = "batch" /\ t.subject = n /\ t.batch = b /\ t.nodes = DOMAIN row
        /\ t.seen = l.seen /\ t.todo = l.todo /\ t.phase = l.phase
    BY <1>1 DEF BeginBatch, Fields
  <1>3. b \in Seq(Mutations) /\ b # << >> /\ Head(b) = [add |-> "node", id |-> ps[1]]
    BY BatchOf
  <1> HIDE DEF t, b
  <1>4. KnownInv(t, DOMAIN row)
    BY <1>2 DEF KnownInv, InBatch
  <1>5. BatchInv(t, DOMAIN row)
    BY <1>2, <1>3 DEF BatchInv, InBatch
  <1>6. FixInv(t, DOMAIN row)
    BY <1>2, <1>3 DEF FixInv, KnownInv
  <1>7. LocalInv(t, DOMAIN row)
    BY <1>4, <1>5, <1>6 DEF LocalInv
  <1> QED
    BY <1>7 DEF t

\* The head of a batch that is in the table, or refused, is passed over.
LEMMA BatchSkips ==
    ASSUME NEW l, NEW D, LocalInv(l, D), l.pc = "batch", l.batch # << >>,
           Head(l.batch).add = "node" => Head(l.batch).id \in D
    PROVE  LocalInv(Skipped(l), D) /\ LocalInv(Skipped(Taken(l, Head(l.batch))), D)
  <1> DEFINE m == Head(l.batch)
  <1>1. DOMAIN l = Fields /\ l.batch \in Seq(Mutations) /\ l.nodes \subseteq D /\ l.subject \in D
    BY DEF LocalInv, KnownInv, BatchInv, InBatch
  <1>2. Tail(l.batch) \in Seq(Mutations)
    BY <1>1
  <1>3. l.phase # "quality" => Fix(l.subject) \in D
    BY DEF LocalInv, FixInv
  <1>4. ASSUME NEW t, DOMAIN t = Fields, t.seen = l.seen, t.todo = l.todo, t.subject = l.subject,
               t.phase = l.phase, t.batch = Tail(l.batch), t.pc = "batch", t.nodes \subseteq D
        PROVE  LocalInv(t, D)
    <2>1. KnownInv(t, D)
      BY <1>1, <1>4 DEF LocalInv, KnownInv, InBatch
    <2>2. BatchInv(t, D)
      BY <1>2, <1>4 DEF BatchInv
    <2>3. FixInv(t, D)
      BY <1>3, <1>4 DEF FixInv
    <2> QED
      BY <2>1, <2>2, <2>3 DEF LocalInv
  <1>5. LocalInv(Skipped(l), D)
    <2> DEFINE t == Skipped(l)
    <2>1. /\ DOMAIN t = Fields /\ t.seen = l.seen /\ t.todo = l.todo /\ t.subject = l.subject
          /\ t.phase = l.phase /\ t.batch = Tail(l.batch) /\ t.pc = "batch" /\ t.nodes = l.nodes
      BY <1>1, SkippedFields
    <2> HIDE DEF t
    <2>2. LocalInv(t, D)
      BY <1>1, <1>4, <2>1
    <2> QED
      BY <2>2 DEF t
  <1>6. LocalInv(Skipped(Taken(l, m)), D)
    <2> DEFINE k == Taken(l, m)
               t == Skipped(k)
    <2>1. /\ DOMAIN k = Fields /\ k.seen = l.seen /\ k.todo = l.todo /\ k.subject = l.subject
          /\ k.phase = l.phase /\ k.batch = l.batch /\ k.pc = l.pc
          /\ k.nodes = IF m.add = "node" THEN l.nodes \cup {m.id} ELSE l.nodes
      BY <1>1, TakenFields
    <2> HIDE DEF k
    <2>2. /\ DOMAIN t = Fields /\ t.seen = k.seen /\ t.todo = k.todo /\ t.subject = k.subject
          /\ t.phase = k.phase /\ t.batch = Tail(k.batch) /\ t.pc = k.pc /\ t.nodes = k.nodes
      BY <2>1, SkippedFields
    <2> HIDE DEF t
    <2>3. t.nodes \subseteq D
      BY <1>1, <2>1, <2>2
    <2>4. LocalInv(t, D)
      BY <1>4, <2>1, <2>2, <2>3
    <2> QED
      BY <2>4 DEF t, k
  <1> QED
    BY <1>5, <1>6

\* The head of a batch has been inserted.
LEMMA BatchInserts ==
    ASSUME NEW l, NEW D, LocalInv(l, D), l.pc \in {"batch", "insert"}, l.batch # << >>, NEW E, D \subseteq E,
           Head(l.batch).add = "node" => Head(l.batch).id \in E,
           NEW t, DOMAIN t = Fields, t.seen = l.seen, t.todo = l.todo, t.subject = l.subject,
           t.phase = l.phase, t.batch = l.batch, t.pc = "record", t.nodes \subseteq E
    PROVE  LocalInv(t, E)
  <1>1. DOMAIN l = Fields /\ l.batch \in Seq(Mutations) /\ l.subject \in D
    BY DEF LocalInv, KnownInv, BatchInv, InBatch
  <1>2. l.phase # "quality" => Fix(l.subject) \in E
    BY DEF LocalInv, FixInv
  <1>3. KnownInv(t, E)
    BY <1>1 DEF LocalInv, KnownInv, InBatch
  <1>4. BatchInv(t, E)
    BY <1>1 DEF BatchInv
  <1>5. FixInv(t, E)
    BY <1>2 DEF FixInv
  <1> QED
    BY <1>3, <1>4, <1>5 DEF LocalInv

-----------------------------------------------------------------------------
(* Steps. *)

Kept ==
    /\ StoreInv' /\ RecoveredHasFix'
    /\ DOMAIN at' = Ctrl /\ \A c \in Ctrl : LocalInv(at'[c], DOMAIN row')

RunStates == {"created", "running", "completed", "failed", "cancelled"}

\* One controller moves, and rows are only added.
LEMMA CtrlMoves ==
    ASSUME DynInv, NEW c \in Ctrl, NEW l, Goto(c, l), DOMAIN row \subseteq DOMAIN row',
           LocalInv(l, DOMAIN row'), StoreInv', RecoveredHasFix'
    PROVE  Kept
  <1>1. DOMAIN at = Ctrl /\ at' = [at EXCEPT ![c] = l]
    BY DEF DynInv, Goto
  <1>2. DOMAIN at' = Ctrl /\ at'[c] = l /\ \A d \in Ctrl : d # c => at'[d] = at[d]
    BY <1>1
  <1>3. ASSUME NEW d \in Ctrl PROVE LocalInv(at'[d], DOMAIN row')
    <2>1. CASE d = c
      BY <1>2, <2>1
    <2>2. CASE d # c
      <3>1. LocalInv(at[d], DOMAIN row)
        BY DEF DynInv
      <3>2. LocalInv(at[d], DOMAIN row')
        BY <3>1, KnownGrows
      <3> QED
        BY <1>2, <2>2, <3>2
    <2> QED
      BY <2>1, <2>2
  <1> QED
    BY <1>2, <1>3 DEF Kept

\* One controller moves and the tables stay as they are.
LEMMA CtrlQuiet ==
    ASSUME DynInv, NEW c \in Ctrl, NEW l, Goto(c, l), UNCHANGED <<row, edge>>, LocalInv(l, DOMAIN row),
           runStatus' \in RunStates, ticks' \in Nat, applied' \in Nat
    PROVE  Kept
  <1>1. StoreInv'
    BY DEF DynInv, StoreInv, RunStates
  <1>2. RecoveredHasFix'
    BY DEF DynInv, RecoveredHasFix, With
  <1> QED
    BY <1>1, <1>2, CtrlMoves

\* The steps of a controller that write at most the run's status and its events.
LEMMA QuietSteps ==
    ASSUME DynInv, NEW c \in Ctrl,
           \/ Begin(c) \/ Start(c) \/ RecoverEnd(c) \/ Resume(c) \/ QualityEnd(c) \/ TickTerminal(c)
           \/ SettleStale(c) \/ After(c) \/ Crash(c)
           \/ \E n \in at[c].todo : RecoverNode(c, n) \/ ReviewNode(c, n)
    PROVE  Kept
  <1> DEFINE l == at[c]
  <1>0. /\ runStatus \in RunStates /\ ticks \in Nat /\ applied \in Nat /\ "running" \in RunStates
        /\ LocalInv(l, DOMAIN row) /\ KnownInv(l, DOMAIN row) /\ l.todo \subseteq DOMAIN row
        /\ DOMAIN l.seen \subseteq DOMAIN row /\ DOMAIN l = Fields /\ DOMAIN row \subseteq NodeId
    BY DEF DynInv, StoreInv, RunStates, LocalInv, KnownInv
  <1>a. ASSUME Goto(c, Idle), UNCHANGED Store PROVE Kept
    BY <1>0, <1>a, IdleKnows, CtrlQuiet DEF Store
  <1>b. ASSUME NEW k, Goto(c, k), UNCHANGED Store, LocalInv(k, DOMAIN row) PROVE Kept
    BY <1>0, <1>b, CtrlQuiet DEF Store
  <1>w. \A st : With(l.seen, st) \in SUBSET DOMAIN row /\ With(row, st) \in SUBSET DOMAIN row
    BY <1>0 DEF With
  <1>t. \A n : l.todo \ {n} \in SUBSET DOMAIN row
    BY <1>0
  <1>1. CASE Begin(c)
    <2> DEFINE k == [Idle EXCEPT !.pc = "start", !.seen = row, !.run = runStatus, !.total = applied]
    <2>1. /\ DOMAIN k = Fields /\ k.pc = "start" /\ k.seen = row /\ k.todo = {} /\ k.phase = "repair"
      BY DEF Idle, Fields
    <2>2. Goto(c, k) /\ UNCHANGED Store
      BY <1>1 DEF Begin
    <2> HIDE DEF k
    <2>3. LocalInv(k, DOMAIN row)
      BY <2>1, OutsideBatch DEF LocalInv, KnownInv, InBatch
    <2> QED
      BY <1>b, <2>2, <2>3
  <1>2. CASE Start(c)
    <2>1. ticks' \in Nat /\ UNCHANGED <<row, edge>> /\ runStatus' \in RunStates /\ applied' \in Nat
      BY <1>0, <1>2 DEF Start
    <2>2. \/ Goto(c, Idle)
          \/ Goto(c, [l EXCEPT !.pc = "recover", !.todo = With(l.seen, "failed")])
      BY <1>2 DEF Start
    <2>3. l.pc = "start"
      BY <1>2 DEF Start
    <2>4. LocalInv([l EXCEPT !.pc = "recover", !.todo = With(l.seen, "failed")], DOMAIN row)
      BY <1>0, <1>w, <2>3, TodoMoves
    <2> QED
      BY <2>1, <2>2, <2>4, IdleKnows, CtrlQuiet
  <1>3. CASE RecoverEnd(c)
    <2>1. \/ Goto(c, Idle) \/ Goto(c, [l EXCEPT !.pc = "resume"]) \/ Goto(c, ToQuality(l))
      BY <1>3 DEF RecoverEnd
    <2>2. LocalInv([l EXCEPT !.pc = "resume"], DOMAIN row) /\ LocalInv(ToQuality(l), DOMAIN row)
      BY <1>0, <1>3, PlainMoves DEF RecoverEnd
    <2> QED
      BY <1>3, <1>a, <1>b, <2>1, <2>2 DEF RecoverEnd
  <1>4. CASE Resume(c)
    <2>1. Goto(c, Idle) \/ Goto(c, ToQuality(l))
      BY <1>4 DEF Resume
    <2>2. LocalInv(ToQuality(l), DOMAIN row)
      BY <1>0, PlainMoves
    <2> QED
      BY <1>0, <1>4, <2>1, <2>2, IdleKnows, CtrlQuiet DEF Resume
  <1>5. CASE QualityEnd(c)
    <2>1. Goto(c, Idle) \/ Goto(c, [l EXCEPT !.pc = "tick"])
      BY <1>5 DEF QualityEnd
    <2>2. LocalInv([l EXCEPT !.pc = "tick"], DOMAIN row)
      BY <1>0, <1>5, PlainMoves DEF QualityEnd
    <2> QED
      BY <1>5, <1>a, <1>b, <2>1, <2>2 DEF QualityEnd
  <1>6. CASE TickTerminal(c) \/ Crash(c)
    BY <1>6, <1>a DEF TickTerminal, Crash
  <1>7. CASE SettleStale(c)
    <2>1. LocalInv([l EXCEPT !.pc = "after"], DOMAIN row)
      BY <1>0, PlainMoves
    <2> QED
      BY <1>7, <1>b, <2>1 DEF SettleStale
  <1>8. CASE After(c)
    <2> DEFINE k == [l EXCEPT !.pc = "recover", !.phase = "late", !.seen = row,
                              !.todo = With(row, "failed"), !.fixed = FALSE]
    <2>1. /\ DOMAIN k = Fields /\ k.pc = "recover" /\ k.seen = row /\ k.todo = With(row, "failed")
          /\ k.phase = "late"
      BY <1>0 DEF Fields
    <2>2. Goto(c, Idle) \/ Goto(c, k)
      BY <1>8 DEF After
    <2> HIDE DEF k
    <2>3. LocalInv(k, DOMAIN row)
      BY <1>w, <2>1, OutsideBatch DEF LocalInv, KnownInv, InBatch
    <2> QED
      BY <1>8, <1>a, <1>b, <2>2, <2>3 DEF After
  <1>9. ASSUME NEW n \in l.todo, RecoverNode(c, n) PROVE Kept
    <2> DEFINE ps == TestFailure(n, l.seen)
    <2>1. \/ Goto(c, [l EXCEPT !.todo = l.todo \ {n}]) \/ Goto(c, [l EXCEPT !.todo = {}])
          \/ ps # << >> /\ Goto(c, BeginBatch(l, n, ps))
      BY <1>9 DEF RecoverNode
    <2>2. l.pc = "recover" /\ UNCHANGED Store /\ n \in DOMAIN row /\ n \in NodeId
      BY <1>0, <1>9 DEF RecoverNode
    <2>3. LocalInv([l EXCEPT !.todo = l.todo \ {n}], DOMAIN row) /\ LocalInv([l EXCEPT !.todo = {}], DOMAIN row)
      BY <1>0, <1>t, <2>2, TodoMoves
    <2>4. ps # << >> => LocalInv(BeginBatch(l, n, ps), DOMAIN row)
      BY <1>0, <2>2, Proposals, BatchBegins
    <2> QED
      BY <1>b, <2>1, <2>2, <2>3, <2>4
  <1>10. ASSUME NEW n \in l.todo, ReviewNode(c, n) PROVE Kept
    <2> DEFINE ps == QualityFailure(n, l.seen)
    <2>1. \/ Goto(c, [l EXCEPT !.todo = l.todo \ {n}])
          \/ ps # << >> /\ Goto(c, BeginBatch(l, n, ps))
      BY <1>10 DEF ReviewNode
    <2>2. l.pc = "quality" /\ UNCHANGED Store /\ n \in DOMAIN row /\ n \in NodeId
      BY <1>0, <1>10 DEF ReviewNode
    <2>3. LocalInv([l EXCEPT !.todo = l.todo \ {n}], DOMAIN row)
      BY <1>0, <1>t, <2>2, TodoMoves
    <2>4. ps # << >> => LocalInv(BeginBatch(l, n, ps), DOMAIN row)
      BY <1>0, <2>2, Proposals, BatchBegins
    <2> QED
      BY <1>b, <2>1, <2>2, <2>3, <2>4
  <1> QED
    BY <1>1, <1>2, <1>3, <1>4, <1>5, <1>6, <1>7, <1>8, <1>9, <1>10

\* A batch is over: its subject is done with, or marked.
LEMMA BatchCloses ==
    ASSUME NEW l, NEW D, LocalInv(l, D), l.pc = "batch", l.batch = << >>, NEW t,
           DOMAIN t = Fields, t.seen = l.seen, t.todo \subseteq l.todo, t.subject = l.subject, t.phase = l.phase,
           \/ l.phase = "quality" /\ t.pc = "quality"
           \/ l.phase # "quality" /\ t.pc \in {"mark", "recover"}
    PROVE  LocalInv(t, D)
  <1>1. l.phase # "quality" => Fix(l.subject) \in D
    BY DEF LocalInv, FixInv
  <1>2. l.subject \in D /\ l.todo \subseteq D /\ DOMAIN l.seen \subseteq D
    BY DEF LocalInv, KnownInv, InBatch
  <1>3. KnownInv(t, D)
    BY <1>2 DEF KnownInv, InBatch
  <1>4. BatchInv(t, D)
    BY DEF BatchInv, InBatch
  <1>5. FixInv(t, D)
    BY <1>1 DEF FixInv
  <1> QED
    BY <1>3, <1>4, <1>5 DEF LocalInv

\* The steps of a batch that do not write the tables.
LEMMA BatchSteps ==
    ASSUME DynInv, NEW c \in Ctrl, Refuse(c) \/ PgSearch(c) \/ Record(c) \/ BatchEnd(c)
    PROVE  Kept
  <1> DEFINE l == at[c]
             D == DOMAIN row
             m == Head(l.batch)
  <1>0. /\ runStatus \in RunStates /\ ticks \in Nat /\ applied \in Nat
        /\ LocalInv(l, D) /\ DOMAIN l = Fields
    BY DEF DynInv, StoreInv, RunStates, LocalInv, KnownInv
  <1>b. ASSUME NEW k, Goto(c, k), UNCHANGED Store, LocalInv(k, D) PROVE Kept
    BY <1>0, <1>b, CtrlQuiet DEF Store
  <1>1. CASE Refuse(c)
    <2>1. /\ l.pc = "batch" /\ l.batch # << >> /\ (~ Accepts(l, m) \/ InTable(m)) /\ UNCHANGED Store
          /\ Goto(c, Skipped(l)) \/ Goto(c, Skipped(Taken(l, m)))
      BY <1>1 DEF Refuse
    <2>2. l.nodes \subseteq D
      BY <1>0, <2>1 DEF LocalInv, BatchInv, InBatch
    <2>3. m.add = "node" => m.id \in D
      BY <2>1, <2>2 DEF Accepts, InTable
    <2> HIDE DEF l, D
    <2>4. LocalInv(Skipped(l), D) /\ LocalInv(Skipped(Taken(l, m)), D)
      BY <1>0, <2>1, <2>3, BatchSkips
    <2> QED
      BY <1>b, <2>1, <2>4
  <1>2. CASE PgSearch(c)
    <2> DEFINE k == Taken(l, m)
               t == [k EXCEPT !.pc = "insert"]
    <2>1. l.pc = "batch" /\ l.batch # << >> /\ Accepts(l, m) /\ Pg /\ UNCHANGED Store /\ Goto(c, t)
      BY <1>2 DEF PgSearch
    <2> HIDE DEF l
    <2>2. /\ DOMAIN k = Fields /\ k.seen = l.seen /\ k.todo = l.todo /\ k.subject = l.subject
          /\ k.phase = l.phase /\ k.batch = l.batch /\ k.pc = l.pc
          /\ k.nodes = IF m.add = "node" THEN l.nodes \cup {m.id} ELSE l.nodes
      BY <1>0, TakenFields
    <2> HIDE DEF k
    <2>3. /\ DOMAIN t = Fields /\ t.seen = l.seen /\ t.todo = l.todo /\ t.subject = l.subject
          /\ t.phase = l.phase /\ t.batch = l.batch /\ t.pc = "insert" /\ t.nodes = k.nodes
      BY <2>2, PcFields
    <2> HIDE DEF t
    <2>4. l.batch \in Seq(Mutations) /\ l.nodes \subseteq D
      BY <1>0, <2>1 DEF LocalInv, BatchInv, InBatch
    <2>5. m.add # "node" => {m.id, DependsOn(m.id)} \subseteq D
      BY <2>1, <2>4 DEF Accepts
    <2>6. KnownInv(t, D)
      BY <1>0, <2>1, <2>3 DEF LocalInv, KnownInv, InBatch
    <2>7. BatchInv(t, D)
      <3>1. t.nodes \subseteq D \cup {m.id}
        BY <2>2, <2>3, <2>4
      <3>2. Head(t.batch) = m /\ t.batch # << >>
        BY <2>1, <2>3
      <3>3. t.batch \in Seq(Mutations)
        BY <2>3, <2>4
      <3> HIDE DEF m, D
      <3> QED
        BY <2>1, <2>3, <2>5, <3>1, <3>2, <3>3 DEF BatchInv
    <2>8. FixInv(t, D)
      BY <1>0, <2>1, <2>3 DEF LocalInv, FixInv
    <2> QED
      BY <1>b, <2>1, <2>6, <2>7, <2>8 DEF LocalInv
  <1>3. CASE Record(c)
    <2> DEFINE t == [Skipped(l) EXCEPT !.pc = "batch", !.hits = @ + 1]
    <2>1. /\ l.pc = "record" /\ applied' \in Nat /\ Goto(c, t) /\ UNCHANGED <<runStatus, row, edge, ticks>>
      BY <1>0, <1>3 DEF Record
    <2> HIDE DEF l
    <2>2. /\ DOMAIN t = Fields /\ t.seen = l.seen /\ t.todo = l.todo /\ t.subject = l.subject
          /\ t.phase = l.phase /\ t.batch = Tail(l.batch) /\ t.pc = "batch" /\ t.nodes = l.nodes
      BY <1>0 DEF Skipped, Fields
    <2> HIDE DEF t
    <2>3. /\ l.batch \in Seq(Mutations) /\ l.batch # << >> /\ l.nodes \subseteq D
          /\ l.phase # "quality" => Fix(l.subject) \in D
      BY <1>0, <2>1 DEF LocalInv, BatchInv, FixInv, InBatch
    <2>4. Tail(l.batch) \in Seq(Mutations)
      BY <2>3
    <2>5. KnownInv(t, D)
      BY <1>0, <2>1, <2>2 DEF LocalInv, KnownInv, InBatch
    <2>6. BatchInv(t, D)
      BY <2>2, <2>3, <2>4 DEF BatchInv
    <2>7. FixInv(t, D)
      BY <2>2, <2>3 DEF FixInv
    <2>8. LocalInv(t, D)
      BY <2>5, <2>6, <2>7 DEF LocalInv
    <2> QED
      BY <1>0, <2>1, <2>8, CtrlQuiet
  <1>4. CASE BatchEnd(c)
    <2> DEFINE h == [l EXCEPT !.total = @ + l.hits, !.nodes = {}, !.edges = {}]
    <2>1. h.pc = "batch" /\ h.batch = << >> /\ UNCHANGED Store
      BY <1>4 DEF BatchEnd
    <2>2. \/ h.phase = "quality" /\ Goto(c, [h EXCEPT !.pc = "quality", !.todo = @ \ {h.subject}])
          \/ h.phase # "quality" /\ Goto(c, [h EXCEPT !.pc = "mark"])
          \/ h.phase # "quality" /\ Goto(c, [h EXCEPT !.pc = "recover", !.todo = @ \ {h.subject}])
      BY <1>4 DEF BatchEnd
    <2> HIDE DEF l
    <2>3. /\ DOMAIN h = Fields /\ h.seen = l.seen /\ h.todo = l.todo /\ h.subject = l.subject
          /\ h.phase = l.phase /\ h.batch = l.batch /\ h.pc = l.pc
      BY <1>0 DEF Fields
    <2> HIDE DEF h
    <2>4. PICK t : /\ Goto(c, t) /\ DOMAIN t = Fields /\ t.seen = l.seen /\ t.todo \subseteq l.todo
                   /\ t.subject = l.subject /\ t.phase = l.phase
                   /\ \/ l.phase = "quality" /\ t.pc = "quality"
                      \/ l.phase # "quality" /\ t.pc \in {"mark", "recover"}
      <3> DEFINE Fits(t) == /\ DOMAIN t = Fields /\ t.seen = l.seen /\ t.todo \subseteq l.todo
                            /\ t.subject = l.subject /\ t.phase = l.phase
                 Q == [h EXCEPT !.pc = "quality", !.todo = @ \ {h.subject}]
                 M == [h EXCEPT !.pc = "mark"]
                 R == [h EXCEPT !.pc = "recover", !.todo = @ \ {h.subject}]
      <3>1. Fits(Q) /\ Q.pc = "quality"
        BY <2>3 DEF Fields
      <3>2. Fits(M) /\ M.pc = "mark"
        BY <2>3 DEF Fields
      <3>3. Fits(R) /\ R.pc = "recover"
        BY <2>3 DEF Fields
      <3>4. \/ Goto(c, Q) /\ l.phase = "quality"
            \/ Goto(c, M) /\ l.phase # "quality"
            \/ Goto(c, R) /\ l.phase # "quality"
        BY <2>2, <2>3
      <3> HIDE DEF Q, M, R
      <3> QED
        BY <3>1, <3>2, <3>3, <3>4
    <2>5. LocalInv(t, D)
      BY <1>0, <2>1, <2>3, <2>4, BatchCloses
    <2> QED
      BY <1>b, <2>1, <2>4, <2>5
  <1> QED
    BY <1>1, <1>2, <1>3, <1>4

-----------------------------------------------------------------------------
(* The steps that write the tables. *)

\* A proposal is inserted: what is in the tables is as before or new.
LEMMA Inserted ==
    ASSUME DynInv, NEW m \in Mutations, UNCHANGED <<runStatus, ticks, applied>>,
           IF m.add = "node" THEN InsertNode(m.id) /\ UNCHANGED edge
           ELSE edge' = edge \cup {<<DependsOn(m.id), m.id>>} /\ UNCHANGED row,
           m.add # "node" => {m.id, DependsOn(m.id)} \subseteq DOMAIN row
    PROVE  /\ StoreInv' /\ RecoveredHasFix' /\ DOMAIN row \subseteq DOMAIN row'
           /\ m.add = "node" => m.id \in DOMAIN row'
  <1>0. m.id \in NodeId /\ PendingRow \in Rows /\ PendingRow.status = "pending"
    BY DynamicAssumption DEF Mutations, PendingRow, Rows, RowStatus
  <1>i. /\ runStatus \in RunStates /\ DOMAIN row \subseteq NodeId /\ row \in [DOMAIN row -> Rows]
        /\ \A e \in edge : {e[1], e[2]} \subseteq DOMAIN row
        /\ ticks \in Nat /\ applied \in Nat
        /\ \A n \in DOMAIN row : row[n].status = "recovered" => Fix(n) \in DOMAIN row
    BY DEF DynInv, StoreInv, RunStates, RecoveredHasFix, With
  <1>1. CASE m.add = "node"
    <2>1. row' = [x \in DOMAIN row \cup {m.id} |-> IF x = m.id THEN PendingRow ELSE row[x]] /\ edge' = edge
      BY <1>1 DEF InsertNode
    <2>2. DOMAIN row' = DOMAIN row \cup {m.id}
      BY <2>1
    <2>3. \A x \in DOMAIN row' : row'[x] = IF x = m.id THEN PendingRow ELSE row[x]
      BY <2>1
    <2>4. \A x \in DOMAIN row' : row'[x] \in Rows
      BY <1>0, <1>i, <2>2, <2>3
    <2>5. row' \in [DOMAIN row' -> Rows]
      <3>1. row' = [x \in DOMAIN row' |-> row'[x]]
        BY <2>1
      <3> QED
        BY <2>4, <3>1
    <2>6. StoreInv'
      BY <1>0, <1>i, <2>1, <2>2, <2>5 DEF StoreInv, RunStates
    <2>7. RecoveredHasFix'
      <3> SUFFICES ASSUME NEW x \in DOMAIN row', row'[x].status = "recovered"
                   PROVE  Fix(x) \in DOMAIN row'
        BY DEF RecoveredHasFix, With
      <3>1. x # m.id
        BY <1>0, <2>3
      <3> QED
        BY <1>i, <2>2, <2>3, <3>1
    <2> QED
      BY <2>2, <2>6, <2>7
  <1>2. CASE m.add # "node"
    <2>1. edge' = edge \cup {<<DependsOn(m.id), m.id>>} /\ row' = row
      BY <1>2
    <2>2. StoreInv'
      BY <1>2, <1>i, <2>1 DEF StoreInv, RunStates
    <2>3. RecoveredHasFix'
      BY <2>1 DEF DynInv, RecoveredHasFix, With
    <2> QED
      BY <1>2, <2>1, <2>2, <2>3
  <1> QED
    BY <1>1, <1>2

\* The two forms of the insert.
LEMMA InsertSteps ==
    ASSUME DynInv, NEW c \in Ctrl, Apply(c) \/ PgInsert(c)
    PROVE  Kept
  <1> DEFINE l == at[c]
             D == DOMAIN row
             m == Head(l.batch)
             Writes == IF m.add = "node" THEN InsertNode(m.id) /\ UNCHANGED edge
                       ELSE edge' = edge \cup {<<DependsOn(m.id), m.id>>} /\ UNCHANGED row
  <1>0. LocalInv(l, D) /\ DOMAIN l = Fields
    BY DEF DynInv, LocalInv, KnownInv
  <1>1. CASE Apply(c)
    <2> DEFINE k == Taken(l, m)
               t == [k EXCEPT !.pc = "record"]
    <2>1. /\ l.pc = "batch" /\ l.batch # << >> /\ Accepts(l, m) /\ Goto(c, t) /\ Writes
          /\ UNCHANGED <<runStatus, ticks, applied>>
      BY <1>1 DEF Apply
    <2> HIDE DEF l
    <2>2. /\ DOMAIN k = Fields /\ k.seen = l.seen /\ k.todo = l.todo /\ k.subject = l.subject
          /\ k.phase = l.phase /\ k.batch = l.batch /\ k.pc = l.pc
          /\ k.nodes = IF m.add = "node" THEN l.nodes \cup {m.id} ELSE l.nodes
      BY <1>0, TakenFields
    <2> HIDE DEF k
    <2>3. /\ DOMAIN t = Fields /\ t.seen = l.seen /\ t.todo = l.todo /\ t.subject = l.subject
          /\ t.phase = l.phase /\ t.batch = l.batch /\ t.pc = "record" /\ t.nodes = k.nodes
      BY <2>2, PcFields
    <2> HIDE DEF t
    <2>4. l.batch \in Seq(Mutations) /\ l.nodes \subseteq D
      BY <1>0, <2>1 DEF LocalInv, BatchInv, InBatch
    <2>5. m \in Mutations
      BY <2>1, <2>4
    <2>6. m.add # "node" => {m.id, DependsOn(m.id)} \subseteq D
      BY <2>1, <2>4 DEF Accepts
    <2>7. /\ StoreInv' /\ RecoveredHasFix' /\ D \subseteq DOMAIN row'
          /\ m.add = "node" => m.id \in DOMAIN row'
      BY <2>1, <2>5, <2>6, Inserted
    <2>8. t.nodes \subseteq DOMAIN row'
      BY <2>2, <2>3, <2>4, <2>7
    <2>9. LocalInv(t, DOMAIN row')
      BY <1>0, <2>1, <2>3, <2>7, <2>8, BatchInserts
    <2> QED
      BY <2>1, <2>7, <2>9, CtrlMoves
  <1>2. CASE PgInsert(c)
    <2> DEFINE t == [l EXCEPT !.pc = "record"]
    <2>1. l.pc = "insert" /\ Goto(c, t) /\ Writes /\ UNCHANGED <<runStatus, ticks, applied>>
      BY <1>2 DEF PgInsert
    <2> HIDE DEF l
    <2>2. /\ DOMAIN t = Fields /\ t.seen = l.seen /\ t.todo = l.todo /\ t.subject = l.subject
          /\ t.phase = l.phase /\ t.batch = l.batch /\ t.pc = "record" /\ t.nodes = l.nodes
      BY <1>0, PcFields
    <2> HIDE DEF t
    <2>3. /\ l.batch \in Seq(Mutations) /\ l.batch # << >> /\ l.nodes \subseteq D \cup {m.id}
          /\ m.add = "edge" => {m.id, DependsOn(m.id)} \subseteq D
      BY <1>0, <2>1 DEF LocalInv, BatchInv, InBatch
    <2>4. m \in Mutations
      BY <2>3
    <2>5. m.add \in {"node", "edge"}
      BY <2>4 DEF Mutations
    <2>6. /\ StoreInv' /\ RecoveredHasFix' /\ D \subseteq DOMAIN row'
          /\ m.add = "node" => m.id \in DOMAIN row'
      BY <2>1, <2>3, <2>4, <2>5, Inserted
    <2>7. t.nodes \subseteq DOMAIN row'
      BY <2>2, <2>3, <2>5, <2>6
    <2>8. LocalInv(t, DOMAIN row')
      BY <1>0, <2>1, <2>2, <2>3, <2>6, <2>7, BatchInserts
    <2> QED
      BY <2>1, <2>6, <2>8, CtrlMoves
  <1> QED
    BY <1>1, <1>2

\* A row is written; a recovered one has its fix.
LEMMA RowWritten ==
    ASSUME DynInv, NEW s, s \in [DOMAIN row -> Rows], row' = s, edge' = edge, runStatus' \in RunStates,
           UNCHANGED <<ticks, applied>>,
           \A n \in DOMAIN row :
              s[n].status = "recovered" => row[n].status = "recovered" \/ Fix(n) \in DOMAIN row
    PROVE  StoreInv' /\ RecoveredHasFix' /\ DOMAIN row' = DOMAIN row
  <1>1. DOMAIN row' = DOMAIN row
    OBVIOUS
  <1>2. StoreInv'
    BY <1>1 DEF DynInv, StoreInv, RunStates
  <1>3. RecoveredHasFix'
    BY <1>1 DEF DynInv, RecoveredHasFix, With
  <1> QED
    BY <1>1, <1>2, <1>3

\* The status of a run after a check for completion.
LEMMA CompletionTypes ==
    ASSUME NEW s, NEW cur \in RunStates
    PROVE  Completion(s, cur) \in RunStates
  BY DEF Completion, RunStates

\* The steps that write rows.
LEMMA RowSteps ==
    ASSUME DynInv, NEW c \in Ctrl,
           \/ Mark(c) \/ NoReadyNode(c)
           \/ \E n \in DOMAIN row : Lease(c, n)
           \/ \E out \in {"completed", "poor", "failed"} : Settle(c, out)
    PROVE  Kept
  <1> DEFINE l == at[c]
             D == DOMAIN row
  <1>0. /\ runStatus \in RunStates /\ "running" \in RunStates /\ row \in [D -> Rows]
        /\ LocalInv(l, D) /\ KnownInv(l, D) /\ DOMAIN l = Fields
    BY DEF DynInv, StoreInv, RunStates, LocalInv, KnownInv
  <1>b. ASSUME NEW k, Goto(c, k), LocalInv(k, D), StoreInv', RecoveredHasFix', DOMAIN row' = D PROVE Kept
    BY <1>b, CtrlMoves
  <1>1. CASE Mark(c)
    <2> DEFINE q == [row[l.subject] EXCEPT !.status = "recovered"]
               k == [l EXCEPT !.pc = "recover", !.fixed = TRUE, !.todo = l.todo \ {l.subject}]
    <2>1. /\ l.pc = "mark" /\ row' = [row EXCEPT ![l.subject] = q] /\ Goto(c, k)
          /\ UNCHANGED <<runStatus, edge, ticks, applied>>
      BY <1>1 DEF Mark
    <2>2. l.subject \in D /\ Fix(l.subject) \in D /\ l.todo \ {l.subject} \in SUBSET D
      BY <1>0, <2>1 DEF LocalInv, KnownInv, FixInv
    <2>3. q = RowOf("recovered", row[l.subject].attempt, row[l.subject].poor)
      BY <1>0, <2>2, RowFields
    <2>4. q \in Rows
      BY <1>0, <2>2, <2>3 DEF Rows, RowStatus, RowOf
    <2> HIDE DEF q
    <2>5. row' \in [D -> Rows] /\ \A n \in D : n # l.subject => row'[n] = row[n]
      BY <1>0, <2>1, <2>2, <2>4
    <2>6. StoreInv' /\ RecoveredHasFix' /\ DOMAIN row' = D
      BY <1>0, <2>1, <2>2, <2>5, RowWritten
    <2>7. LocalInv(k, D)
      BY <1>0, <2>1, <2>2, TodoMoves
    <2> QED
      BY <1>b, <2>1, <2>6, <2>7
  <1>2. CASE NoReadyNode(c)
    <2> DEFINE k == [l EXCEPT !.pc = "after"]
    <2>1. /\ row' = Propagate(row) /\ runStatus' = Completion(row', "running") /\ Goto(c, k)
          /\ UNCHANGED <<edge, ticks, applied>>
      BY <1>2 DEF NoReadyNode
    <2>2. /\ row' \in [D -> Rows] /\ \A n \in D : row'[n].status = "recovered" => row[n].status = "recovered"
      BY <1>0, <2>1, Propagated
    <2>3. runStatus' \in RunStates
      BY <1>0, <2>1, CompletionTypes
    <2>4. StoreInv' /\ RecoveredHasFix' /\ DOMAIN row' = D
      BY <2>1, <2>2, <2>3, RowWritten
    <2>5. LocalInv(k, D)
      BY <1>0, PlainMoves
    <2> QED
      BY <1>b, <2>1, <2>4, <2>5
  <1>3. ASSUME NEW n \in D, Lease(c, n) PROVE Kept
    <2> DEFINE q == [row[n] EXCEPT !.status = "running", !.attempt = row[n].attempt + 1]
               k == [l EXCEPT !.pc = "execute", !.subject = n, !.lease = row[n].attempt + 1]
    <2>1. /\ l.pc = "tick" /\ row[n].attempt < MaxAttempts /\ runStatus' = "running" /\ Goto(c, k)
          /\ UNCHANGED <<edge, ticks, applied>>
      BY <1>3 DEF Lease
    <2>2. row' = [row EXCEPT ![n] = q]
      BY <1>3 DEF Lease
    <2>3. row[n] \in Rows
      BY <1>0
    <2>4. q = RowOf("running", row[n].attempt + 1, row[n].poor)
      BY <2>3, RowFields
    <2>5. q \in Rows /\ q.status = "running"
      BY <2>1, <2>3, <2>4, DynamicAssumption DEF Rows, RowStatus, RowOf
    <2> HIDE DEF q
    <2>6. row' \in [D -> Rows] /\ row'[n] = q /\ \A x \in D : x # n => row'[x] = row[x]
      BY <1>0, <2>2, <2>5
    <2>7. \A x \in D : row'[x].status = "recovered" => row[x].status = "recovered"
      BY <2>5, <2>6
    <2>8. StoreInv' /\ RecoveredHasFix' /\ DOMAIN row' = D
      BY <1>0, <2>1, <2>6, <2>7, RowWritten
    <2>9. LocalInv(k, D)
      BY <1>0, <2>1, LeaseMoves
    <2> QED
      BY <1>b, <2>1, <2>8, <2>9
  <1>4. ASSUME NEW out \in {"completed", "poor", "failed"}, Settle(c, out) PROVE Kept
    <2> DEFINE st == IF out = "failed" THEN "failed" ELSE "completed"
               q == [row[l.subject] EXCEPT !.status = st, !.poor = (out = "poor")]
               s == [row EXCEPT ![l.subject] = q]
               k == [l EXCEPT !.pc = "after"]
    <2>1. /\ l.pc = "execute" /\ runStatus' = Completion(row', runStatus) /\ Goto(c, k)
          /\ UNCHANGED <<edge, ticks, applied>>
      BY <1>4 DEF Settle
    <2>2. row' = Propagate(s)
      BY <1>4 DEF Settle
    <2>3. l.subject \in D
      BY <1>0, <2>1 DEF KnownInv
    <2>4. row[l.subject] \in Rows /\ st \in RowStatus /\ st # "recovered"
      BY <1>0, <2>3 DEF RowStatus
    <2> HIDE DEF st
    <2>5. q \in Rows
      BY <2>4, SettledRow, Zenon
    <2>6. q.status # "recovered"
      BY <2>4 DEF Rows
    <2> HIDE DEF q
    <2>7. s \in [D -> Rows] /\ DOMAIN s = D /\ \A x \in D : s[x] = IF x = l.subject THEN q ELSE row[x]
      BY <1>0, <2>3, <2>5
    <2> HIDE DEF s
    <2>8. /\ row' \in [D -> Rows] /\ \A x \in D : row'[x].status = "recovered" => s[x].status = "recovered"
      BY <2>2, <2>7, Propagated
    <2>9. \A x \in D : row'[x].status = "recovered" => row[x].status = "recovered"
      BY <2>6, <2>7, <2>8
    <2>10. runStatus' \in RunStates
      BY <1>0, <2>1, CompletionTypes
    <2>11. StoreInv' /\ RecoveredHasFix' /\ DOMAIN row' = D
      BY <2>1, <2>8, <2>9, <2>10, RowWritten
    <2>12. LocalInv(k, D)
      BY <1>0, PlainMoves
    <2> QED
      BY <1>b, <2>1, <2>11, <2>12
  <1> QED
    BY <1>1, <1>2, <1>3, <1>4

\* A stale lease is taken back; no controller moves.
LEMMA StaleLease ==
    ASSUME DynInv, NEW n \in DOMAIN row, RecoverStaleLease(n)
    PROVE  Kept
  <1> DEFINE q == [row[n] EXCEPT !.status = "pending"]
  <1>1. row' = [row EXCEPT ![n] = q] /\ UNCHANGED <<runStatus, edge, ticks, applied, at>>
    BY DEF RecoverStaleLease
  <1>2. row \in [DOMAIN row -> Rows] /\ runStatus \in RunStates
    BY DEF DynInv, StoreInv, RunStates
  <1>3. q = RowOf("pending", row[n].attempt, row[n].poor)
    BY <1>2, RowFields
  <1>4. q \in Rows /\ q.status = "pending"
    BY <1>2, <1>3 DEF Rows, RowStatus, RowOf
  <1> HIDE DEF q
  <1>5. row' \in [DOMAIN row -> Rows] /\ row'[n] = q /\ \A x \in DOMAIN row : x # n => row'[x] = row[x]
    BY <1>1, <1>2, <1>4
  <1>6. StoreInv' /\ RecoveredHasFix' /\ DOMAIN row' = DOMAIN row
    BY <1>1, <1>2, <1>4, <1>5, RowWritten
  <1> QED
    BY <1>1, <1>6 DEF Kept, DynInv

-----------------------------------------------------------------------------
(* The tick limit. *)

\* A controller moves to a place other than the start of a tick.
Passes(c) == \E k : Goto(c, k) /\ k.pc # "start"

\* The local state a controller is in has all its fields.
LEMMA LocalFields ==
    ASSUME DynInv, NEW c \in Ctrl
    PROVE  DOMAIN at[c] = Fields
  BY DEF DynInv, LocalInv, KnownInv

\* Only Begin takes a controller to the start of a tick.
LEMMA OnlyBeginStarts ==
    ASSUME DynInv, NEW c \in Ctrl, CtrlStep(c) \/ Crash(c), ~ Begin(c)
    PROVE  Passes(c)
  <1> DEFINE l == at[c]
             m == Head(l.batch)
  <1>0. DOMAIN l = Fields
    BY LocalFields
  <1>i. Idle.pc # "start"
    BY DEF Idle
  <1>q. \A h : DOMAIN h = Fields => ToQuality(h).pc # "start"
    BY DEF ToQuality, Fields
  <1>b. \A n, ps : BeginBatch(l, n, ps).pc # "start"
    BY <1>0 DEF BeginBatch, Fields
  <1>1. CASE Start(c)
    <2> DEFINE k == [l EXCEPT !.pc = "recover", !.todo = With(l.seen, "failed")]
    <2>1. k.pc # "start"
      BY <1>0 DEF Fields
    <2>2. Goto(c, Idle) \/ Goto(c, k)
      BY <1>1 DEF Start
    <2> HIDE DEF k
    <2> QED
      BY <1>i, <2>1, <2>2 DEF Passes
  <1>2. ASSUME NEW n \in l.todo, RecoverNode(c, n) \/ ReviewNode(c, n) PROVE Passes(c)
    <2>1. /\ l.pc # "start"
          /\ \/ \E T : Goto(c, [l EXCEPT !.todo = T])
             \/ \E ps : Goto(c, BeginBatch(l, n, ps))
      BY <1>2 DEF RecoverNode, ReviewNode
    <2>2. \A T : [l EXCEPT !.todo = T].pc # "start"
      BY <1>0, <2>1 DEF Fields
    <2> QED
      BY <1>b, <2>1, <2>2 DEF Passes
  <1>3. CASE RecoverEnd(c) \/ Resume(c)
    <2> DEFINE k == [l EXCEPT !.pc = "resume"]
    <2>1. k.pc # "start"
      BY <1>0 DEF Fields
    <2>2. Goto(c, Idle) \/ Goto(c, k) \/ Goto(c, ToQuality(l))
      BY <1>3 DEF RecoverEnd, Resume
    <2> HIDE DEF k
    <2> QED
      BY <1>0, <1>i, <1>q, <2>1, <2>2 DEF Passes
  <1>4. CASE QualityEnd(c) \/ NoReadyNode(c) \/ SettleStale(c) \/ TickTerminal(c) \/ Crash(c)
    <2> DEFINE t == [l EXCEPT !.pc = "tick"]
               a == [l EXCEPT !.pc = "after"]
    <2>1. t.pc # "start" /\ a.pc # "start"
      BY <1>0 DEF Fields
    <2>2. Goto(c, Idle) \/ Goto(c, t) \/ Goto(c, a)
      BY <1>4 DEF QualityEnd, NoReadyNode, SettleStale, TickTerminal, Crash
    <2> HIDE DEF t, a
    <2> QED
      BY <1>i, <2>1, <2>2 DEF Passes
  <1>5. CASE Refuse(c)
    <2> DEFINE k == Taken(l, m)
    <2>1. /\ l.pc # "start"
          /\ Goto(c, Skipped(l)) \/ Goto(c, Skipped(k))
      BY <1>5 DEF Refuse
    <2> HIDE DEF l
    <2>2. DOMAIN k = Fields /\ k.pc = l.pc
      BY <1>0, TakenFields
    <2> HIDE DEF k
    <2>3. Skipped(l).pc = l.pc /\ Skipped(k).pc = l.pc
      BY <1>0, <2>2, SkippedFields
    <2> QED
      BY <2>1, <2>3 DEF Passes
  <1>6. CASE Apply(c) \/ PgSearch(c) \/ PgInsert(c)
    <2> DEFINE k == Taken(l, m)
               r == [k EXCEPT !.pc = "record"]
               i == [k EXCEPT !.pc = "insert"]
               p == [l EXCEPT !.pc = "record"]
    <2>1. Goto(c, r) \/ Goto(c, i) \/ Goto(c, p)
      BY <1>6 DEF Apply, PgSearch, PgInsert
    <2> HIDE DEF l
    <2>2. DOMAIN k = Fields
      BY <1>0, TakenFields
    <2> HIDE DEF k
    <2>3. r.pc # "start" /\ i.pc # "start" /\ p.pc # "start"
      BY <1>0, <2>2 DEF Fields
    <2> HIDE DEF r, i, p
    <2> QED
      BY <2>1, <2>3 DEF Passes
  <1>7. CASE Record(c)
    <2> DEFINE t == [Skipped(l) EXCEPT !.pc = "batch", !.hits = @ + 1]
    <2>1. t.pc # "start"
      BY <1>0 DEF Skipped, Fields
    <2>2. Goto(c, t)
      BY <1>7 DEF Record
    <2> HIDE DEF t
    <2> QED
      BY <2>1, <2>2 DEF Passes
  <1>8. CASE BatchEnd(c)
    <2> DEFINE h == [l EXCEPT !.total = @ + l.hits, !.nodes = {}, !.edges = {}]
               q == [h EXCEPT !.pc = "quality", !.todo = @ \ {h.subject}]
               k == [h EXCEPT !.pc = "mark"]
               r == [h EXCEPT !.pc = "recover", !.todo = @ \ {h.subject}]
    <2>1. Goto(c, q) \/ Goto(c, k) \/ Goto(c, r)
      BY <1>8 DEF BatchEnd
    <2>2. DOMAIN h = Fields
      BY <1>0 DEF Fields
    <2> HIDE DEF h
    <2>3. q.pc # "start" /\ k.pc # "start" /\ r.pc # "start"
      BY <2>2 DEF Fields
    <2> HIDE DEF q, k, r
    <2> QED
      BY <2>1, <2>3 DEF Passes
  <1>9. CASE Mark(c)
    <2> DEFINE k == [l EXCEPT !.pc = "recover", !.fixed = TRUE, !.todo = @ \ {l.subject}]
    <2>1. k.pc # "start"
      BY <1>0 DEF Fields
    <2>2. Goto(c, k)
      BY <1>9 DEF Mark
    <2> HIDE DEF k
    <2> QED
      BY <2>1, <2>2 DEF Passes
  <1>10. ASSUME NEW n \in DOMAIN row, Lease(c, n) PROVE Passes(c)
    <2> DEFINE k == [l EXCEPT !.pc = "execute", !.subject = n, !.lease = row[n].attempt + 1]
    <2>1. k.pc # "start"
      BY <1>0 DEF Fields
    <2>2. Goto(c, k)
      BY <1>10 DEF Lease
    <2> HIDE DEF k
    <2> QED
      BY <2>1, <2>2 DEF Passes
  <1>11. ASSUME NEW out \in {"completed", "poor", "failed"}, Settle(c, out) PROVE Passes(c)
    <2> DEFINE k == [l EXCEPT !.pc = "after"]
    <2>1. k.pc # "start"
      BY <1>0 DEF Fields
    <2>2. Goto(c, k)
      BY <1>11 DEF Settle
    <2> HIDE DEF k
    <2> QED
      BY <2>1, <2>2 DEF Passes
  <1>12. CASE After(c)
    <2> DEFINE k == [l EXCEPT !.pc = "recover", !.phase = "late", !.seen = row,
                              !.todo = With(row, "failed"), !.fixed = FALSE]
    <2>1. k.pc # "start"
      BY <1>0 DEF Fields
    <2>2. Goto(c, Idle) \/ Goto(c, k)
      BY <1>12 DEF After
    <2> HIDE DEF k
    <2> QED
      BY <1>i, <2>1, <2>2 DEF Passes
  <1> QED
    BY <1>1, <1>2, <1>3, <1>4, <1>5, <1>6, <1>7, <1>8, <1>9, <1>10, <1>11, <1>12 DEF CtrlStep

\* Only Start counts a tick.
LEMMA OnlyStartTicks ==
    ASSUME NEW c \in Ctrl, CtrlStep(c) \/ Crash(c), ~ Start(c)
    PROVE  ticks' = ticks
  BY DEF CtrlStep, Store, Begin, RecoverNode, ReviewNode, RecoverEnd, Resume, QualityEnd, Refuse, Apply, PgSearch,
         PgInsert, Record, BatchEnd, Mark, Lease, TickTerminal, NoReadyNode, Settle, SettleStale, After, Crash

\* A tick is read before it is added: at most one for each controller is on its way.
LEMMA TickSteps ==
    ASSUME DynInv, NEW c \in Ctrl, CtrlStep(c) \/ Crash(c)
    PROVE  TickInv'
  <1> DEFINE n == Cardinality(Starting)
             k == Cardinality(Starting')
             N == Cardinality(Ctrl)
  <1>0. /\ IsFiniteSet(Ctrl) /\ Starting \subseteq Ctrl /\ Starting' \subseteq Ctrl
        /\ MaxTicks \in Nat /\ ticks \in Nat /\ DOMAIN at = Ctrl
    BY DynamicAssumption DEF Starting, DynInv, StoreInv
  <1>1. /\ IsFiniteSet(Starting) /\ IsFiniteSet(Starting') /\ n \in Nat /\ k \in Nat /\ N \in Nat /\ k <= N
        /\ ticks + n < MaxTicks + N
    BY <1>0, FS_Subset, FS_CardinalityType DEF DynInv, TickInv
  <1>2. CASE Begin(c)
    <2>1. ticks' = ticks /\ ticks < MaxTicks
      BY <1>2 DEF Begin, Store
    <2> HIDE DEF k, N
    <2>2. ticks' + k < MaxTicks + N
      BY <1>0, <1>1, <2>1
    <2> QED
      BY <2>2 DEF TickInv, k, N
  <1>3. CASE ~ Begin(c)
    <2>1. PICK q : Goto(c, q) /\ q.pc # "start"
      BY <1>3, OnlyBeginStarts DEF Passes
    <2>2. \A d \in Ctrl : at'[d] = IF d = c THEN q ELSE at[d]
      BY <1>0, <2>1 DEF Goto
    <2>3. Starting' = Starting \ {c}
      BY <2>1, <2>2 DEF Starting
    <2>4. CASE Start(c)
      <3>1. c \in Starting /\ ticks' = ticks + 1
        BY <2>4 DEF Start, Starting
      <3>2. k = n - 1
        BY <1>1, <2>3, <3>1, FS_RemoveElement
      <3> HIDE DEF k, n, N
      <3>3. ticks' + k < MaxTicks + N
        BY <1>0, <1>1, <3>1, <3>2
      <3> QED
        BY <3>3 DEF TickInv, k, N
    <2>5. CASE ~ Start(c)
      <3>1. ticks' = ticks
        BY <2>5, OnlyStartTicks
      <3>2. k <= n
        BY <1>1, <2>3, FS_Subset
      <3> HIDE DEF k, n, N
      <3>3. ticks' + k < MaxTicks + N
        BY <1>0, <1>1, <3>1, <3>2
      <3> QED
        BY <3>3 DEF TickInv, k, N
    <2> QED
      BY <2>4, <2>5
  <1> QED
    BY <1>2, <1>3

-----------------------------------------------------------------------------
(* The theorems. *)

\* A run starts as its plan, with every controller between two ticks.
LEMMA DynStarts == Init => DynInv
  <1> SUFFICES ASSUME Init PROVE DynInv
    OBVIOUS
  <1>1. /\ runStatus = "created" /\ row = [n \in {Plain(b) : b \in Base} |-> PendingRow]
        /\ edge = {<<Plain(e[1]), Plain(e[2])>> : e \in BaseEdge}
        /\ ticks = 0 /\ applied = 0 /\ at = [c \in Ctrl |-> Idle]
    BY DEF Init
  <1>2. PendingRow \in Rows /\ PendingRow.status = "pending" /\ Idle.pc = "idle"
    BY DynamicAssumption DEF PendingRow, Rows, RowStatus, Idle
  <1>3. ASSUME NEW b \in Base PROVE Plain(b) \in NodeId
    <2>1. << >> \in Seq(Kind)
      OBVIOUS
    <2> QED
      BY <2>1 DEF Plain, NodeId
  <1>4. DOMAIN row = {Plain(b) : b \in Base} /\ \A n \in DOMAIN row : row[n] = PendingRow
    BY <1>1
  <1>5. StoreInv
    <2>1. DOMAIN row \subseteq NodeId /\ row \in [DOMAIN row -> Rows]
      BY <1>1, <1>2, <1>3
    <2>2. ASSUME NEW e \in edge PROVE {e[1], e[2]} \subseteq DOMAIN row
      <3>1. PICK b \in BaseEdge : e = <<Plain(b[1]), Plain(b[2])>>
        BY <1>1
      <3>2. b[1] \in Base /\ b[2] \in Base
        BY DynamicAssumption
      <3>3. e[1] = Plain(b[1]) /\ e[2] = Plain(b[2])
        BY <3>1
      <3> QED
        BY <1>4, <3>2, <3>3
    <2> QED
      BY <1>1, <2>1, <2>2 DEF StoreInv
  <1>6. RecoveredHasFix
    BY <1>2, <1>4 DEF RecoveredHasFix, With
  <1>7. DOMAIN at = Ctrl /\ \A c \in Ctrl : LocalInv(at[c], DOMAIN row)
    BY <1>1, IdleKnows
  <1>8. TickInv
    <2>1. Starting = {}
      BY <1>1, <1>2 DEF Starting
    <2>2. Cardinality(Starting) = 0
      BY <2>1, FS_EmptySet
    <2>3. Cardinality(Ctrl) \in Nat /\ Cardinality(Ctrl) # 0
      BY DynamicAssumption, FS_CardinalityType, FS_EmptySet
    <2> QED
      BY <1>1, <2>2, <2>3, DynamicAssumption DEF TickInv
  <1> QED
    BY <1>5, <1>6, <1>7, <1>8 DEF DynInv

\* Every step of every controller, and of the recovery of leases, keeps the invariant.
LEMMA DynSteps == DynInv /\ [Next]_vars => DynInv'
  <1> SUFFICES ASSUME DynInv, [Next]_vars PROVE DynInv'
    OBVIOUS
  <1>1. ASSUME NEW c \in Ctrl, CtrlStep(c) \/ Crash(c) PROVE DynInv'
    <2>1. Kept
      BY <1>1, QuietSteps, BatchSteps, InsertSteps, RowSteps DEF CtrlStep
    <2>2. TickInv'
      BY <1>1, TickSteps
    <2> QED
      BY <2>1, <2>2 DEF Kept, DynInv
  <1>2. ASSUME NEW n \in DOMAIN row, RecoverStaleLease(n) PROVE DynInv'
    <2>1. Kept
      BY <1>2, StaleLease
    <2>2. TickInv'
      BY <1>2 DEF RecoverStaleLease, DynInv, TickInv, Starting
    <2> QED
      BY <2>1, <2>2 DEF Kept, DynInv
  <1>3. CASE UNCHANGED vars
    BY <1>3 DEF vars, DynInv, StoreInv, RecoveredHasFix, With, TickInv, Starting
  <1> QED
    BY <1>1, <1>2, <1>3 DEF Next

\* The inductive invariant: the tables are well formed, what every controller has read
\* of them is still there, a repair adds its fix node first, and the ticks that are
\* counted or about to be stay below the limit of DynamicWorkflowController::tick.
THEOREM DynInvariance == Spec => []DynInv
  <1>1. Init => DynInv
    BY DynStarts
  <1>2. DynInv /\ [Next]_vars => DynInv'
    BY DynSteps
  <1> QED
    BY <1>1, <1>2, PTL DEF Spec

\* Any number of controllers may repair one run at the same time, on either store, and
\* die at any point: no edge loses its row, a node is forgiven only when its fix is in
\* the graph, and the tick limit is overrun by less than one tick for each controller.
THEOREM RepairSoundness == Spec => []RepairIsSound
  <1>1. DynInv => RepairIsSound
    <2> SUFFICES ASSUME DynInv PROVE RepairIsSound
      OBVIOUS
    <2>1. \A n \in DOMAIN row : n[1] \in Base /\ n[2] \in Seq(Kind)
      BY DEF DynInv, StoreInv, NodeId
    <2>2. TypeOK
      BY <2>1 DEF DynInv, StoreInv, TypeOK, Rows, RowStatus
    <2>3. TickLimit
      <3>1. Cardinality(Starting) \in Nat /\ Cardinality(Ctrl) \in Nat /\ ticks \in Nat /\ MaxTicks \in Nat
        BY DynamicAssumption, FS_Subset, FS_CardinalityType DEF Starting, DynInv, StoreInv
      <3>2. ticks + Cardinality(Starting) < MaxTicks + Cardinality(Ctrl)
        BY DEF DynInv, TickInv
      <3> QED
        BY <3>1, <3>2 DEF TickLimit
    <2> QED
      BY <2>2, <2>3 DEF DynInv, RepairIsSound
  <1> QED
    BY <1>1, DynInvariance, PTL

\* Where the store's lock spans a call (SQLite), no controller sets back a row that
\* another one has leased or finished: insert_workflow_node refuses an id it finds, and
\* attempt_count only grows.
THEOREM RowsKept ==
    ASSUME ~ Pg
    PROVE  Spec => RowsAreNotReplaced
  <1> DEFINE Keeps == \A n \in DOMAIN row : n \in DOMAIN row' /\ row'[n].attempt >= row[n].attempt
  <1>1. ASSUME DynInv, [Next]_vars PROVE Keeps
    <2>0. /\ row \in [DOMAIN row -> Rows]
          /\ \A n \in DOMAIN row : row[n] \in Rows /\ row[n].attempt \in Nat
      BY <1>1, DynamicAssumption DEF DynInv, StoreInv, Rows
    <2>u. ASSUME row' = row PROVE Keeps
      BY <2>0, <2>u
    <2>1. ASSUME NEW c \in Ctrl, CtrlStep(c) \/ Crash(c) PROVE Keeps
      <3> DEFINE l == at[c]
                 m == Head(l.batch)
      <3>0. KnownInv(l, DOMAIN row) /\ BatchInv(l, DOMAIN row)
        BY <1>1 DEF DynInv, LocalInv
      <3>1. CASE Apply(c)
        <4>1. \/ m.id \notin DOMAIN row /\ InsertNode(m.id)
              \/ row' = row
          BY <3>1 DEF Apply, InTable
        <4>2. ASSUME m.id \notin DOMAIN row, InsertNode(m.id) PROVE Keeps
          <5> HIDE DEF m
          <5>1. \A x \in DOMAIN row : x \in DOMAIN row' /\ row'[x] = row[x]
            BY <4>2 DEF InsertNode
          <5> QED
            BY <2>0, <5>1
        <4> QED
          BY <2>u, <4>1, <4>2
      <3>2. CASE PgInsert(c)
        BY <3>0, <3>2 DEF PgInsert, BatchInv
      <3>3. CASE Mark(c)
        <4>1. row' = [row EXCEPT ![l.subject].status = "recovered"] /\ l.subject \in DOMAIN row
          BY <3>0, <3>3 DEF Mark, KnownInv
        <4> HIDE DEF l
        <4> QED
          BY <2>0, <4>1 DEF Rows
      <3>4. ASSUME NEW n \in DOMAIN row, Lease(c, n) PROVE Keeps
        <4>1. row' = [row EXCEPT ![n].status = "running", ![n].attempt = @ + 1]
          BY <3>4 DEF Lease
        <4>2. row'[n].attempt = row[n].attempt + 1 /\ \A x \in DOMAIN row : x # n => row'[x] = row[x]
          BY <2>0, <4>1 DEF Rows
        <4>3. DOMAIN row' = DOMAIN row
          BY <4>1
        <4> QED
          BY <2>0, <4>2, <4>3
      <3>5. CASE NoReadyNode(c)
        <4>1. row' = Propagate(row)
          BY <3>5 DEF NoReadyNode
        <4> QED
          BY <2>0, <4>1, Propagated
      <3>6. ASSUME NEW out \in {"completed", "poor", "failed"}, Settle(c, out) PROVE Keeps
        <4> DEFINE st == IF out = "failed" THEN "failed" ELSE "completed"
                   q == [row[l.subject] EXCEPT !.status = st, !.poor = (out = "poor")]
                   s == [row EXCEPT ![l.subject] = q]
        <4>1. row' = Propagate(s) /\ l.pc = "execute"
          BY <3>6 DEF Settle
        <4>2. l.subject \in DOMAIN row /\ row[l.subject] \in Rows /\ st \in RowStatus
          BY <2>0, <3>0, <4>1 DEF KnownInv, RowStatus
        <4> HIDE DEF st, l
        <4>3. q \in Rows
          BY <4>2, SettledRow, Zenon
        <4>4. q.attempt = row[l.subject].attempt
          BY <4>2 DEF Rows
        <4> HIDE DEF q
        <4>5. /\ s \in [DOMAIN row -> Rows] /\ DOMAIN s = DOMAIN row
              /\ \A x \in DOMAIN row : s[x].attempt = row[x].attempt
          BY <2>0, <4>2, <4>3, <4>4
        <4> HIDE DEF s
        <4>6. DOMAIN row' = DOMAIN row /\ \A x \in DOMAIN row : row'[x].attempt = s[x].attempt
          BY <4>1, <4>5, Propagated
        <4> QED
          BY <2>0, <4>5, <4>6
      <3>7. CASE \/ Begin(c) \/ Start(c) \/ RecoverEnd(c) \/ Resume(c) \/ QualityEnd(c) \/ TickTerminal(c)
                 \/ SettleStale(c) \/ After(c) \/ Crash(c) \/ Refuse(c) \/ PgSearch(c) \/ Record(c) \/ BatchEnd(c)
                 \/ \E n \in at[c].todo : RecoverNode(c, n) \/ ReviewNode(c, n)
        <4>1. row' = row
          BY <3>7 DEF Begin, Start, RecoverEnd, Resume, QualityEnd, TickTerminal, SettleStale, After, Crash, Refuse,
                      PgSearch, Record, BatchEnd, RecoverNode, ReviewNode, Store
        <4> QED
          BY <2>u, <4>1
      <3> QED
        BY <2>1, <3>1, <3>2, <3>3, <3>4, <3>5, <3>6, <3>7 DEF CtrlStep
    <2>2. ASSUME NEW n \in DOMAIN row, RecoverStaleLease(n) PROVE Keeps
      <3>1. row' = [row EXCEPT ![n].status = "pending"]
        BY <2>2 DEF RecoverStaleLease
      <3> QED
        BY <2>0, <3>1 DEF Rows
    <2>3. CASE UNCHANGED vars
      BY <2>u, <2>3 DEF vars
    <2> QED
      BY <1>1, <2>1, <2>2, <2>3 DEF Next
  <1>2. DynInv /\ [Next]_vars => [Keeps]_vars
    BY <1>1
  <1> HIDE DEF Keeps
  <1>3. Spec => [][Keeps]_vars
    BY <1>2, DynInvariance, PTL DEF Spec
  <1> QED
    BY <1>3 DEF RowsAreNotReplaced, Keeps

-----------------------------------------------------------------------------
(* Done is done: what a repair has in hand has failed, and stays so until it is *)
(* marked.                                                                      *)

Failed(s, n) == n \in DOMAIN s /\ s[n].status \in {"failed", "recovered"}

\* Whatever became of them since, the nodes a controller is about to repair are
\* failed rows of s, or marked already.
RepairsFailed(l, s) ==
    /\ \A n \in With(l.seen, "failed") : Failed(s, n)
    /\ l.phase # "quality" => \A n \in l.todo : Failed(s, n)
    /\ l.phase # "quality" /\ l.pc \in InBatch \cup {"mark"} => Failed(s, l.subject)

FailedInv == \A c \in Ctrl : RepairsFailed(at[c], row)

\* What a step may do to the status of a row.
Final(n) ==
    /\ row[n].status \in {"completed", "blocked", "recovered"} => row'[n].status = row[n].status
    /\ row[n].status = "failed" => row'[n].status \in {"failed", "recovered"}

\* A controller that goes on with its snapshot takes no other node in hand.
LEMMA RepairGoesOn ==
    ASSUME NEW l, NEW k, NEW s, RepairsFailed(l, s), k.seen = l.seen,
           \/ k.phase = "quality"
           \/ /\ k.phase = l.phase /\ k.todo \subseteq l.todo
              /\ \/ k.pc \notin InBatch \cup {"mark"}
                 \/ k.subject \in l.todo
                 \/ k.subject = l.subject /\ l.pc \in InBatch \cup {"mark"}
    PROVE  RepairsFailed(k, s)
  BY DEF RepairsFailed

\* Between two ticks nothing is in hand.
LEMMA IdleRepairs ==
    ASSUME NEW s
    PROVE  RepairsFailed(Idle, s)
  <1>1. Idle.todo = {} /\ Idle.seen = << >> /\ Idle.pc = "idle"
    BY DEF Idle
  <1>2. With(Idle.seen, "failed") = {}
    BY <1>1 DEF With
  <1> QED
    BY <1>1, <1>2 DEF RepairsFailed, InBatch

\* Each step of a controller takes in hand only what has failed.
LEMMA RepairTakes ==
    ASSUME DynInv, FailedInv, NEW c \in Ctrl, CtrlStep(c) \/ Crash(c)
    PROVE  \E k : Goto(c, k) /\ RepairsFailed(k, row)
  <1> DEFINE l == at[c]
             m == Head(l.batch)
             Done == \E k : Goto(c, k) /\ RepairsFailed(k, row)
  <1>0. /\ DOMAIN l = Fields /\ RepairsFailed(l, row) /\ (l.pc = "quality" => l.phase = "quality")
        /\ With(row, "failed") = {n \in DOMAIN row : row[n].status = "failed"}
    BY DEF DynInv, LocalInv, KnownInv, FailedInv, With
  <1>f. \A n \in With(row, "failed") : Failed(row, n)
    BY <1>0 DEF Failed
  <1>i. ASSUME Goto(c, Idle) PROVE Done
    BY <1>i, IdleRepairs
  <1>g. ASSUME NEW k, Goto(c, k), k.seen = l.seen,
               \/ k.phase = "quality"
               \/ /\ k.phase = l.phase /\ k.todo \subseteq l.todo
                  /\ \/ k.pc \notin InBatch \cup {"mark"}
                     \/ k.subject \in l.todo
                     \/ k.subject = l.subject /\ l.pc \in InBatch \cup {"mark"}
        PROVE  Done
    <2> HIDE DEF l
    <2>1. RepairsFailed(k, row)
      BY <1>0, <1>g, RepairGoesOn
    <2> QED
      BY <1>g, <2>1
  <1>1. CASE Begin(c)
    <2> DEFINE k == [Idle EXCEPT !.pc = "start", !.seen = row, !.run = runStatus, !.total = applied]
    <2>1. k.pc = "start" /\ k.seen = row /\ k.todo = {}
      BY DEF Idle
    <2>2. Goto(c, k)
      BY <1>1 DEF Begin
    <2> HIDE DEF k
    <2>3. RepairsFailed(k, row)
      BY <1>f, <2>1 DEF RepairsFailed, InBatch
    <2> QED
      BY <2>2, <2>3
  <1>2. CASE Start(c)
    <2> DEFINE k == [l EXCEPT !.pc = "recover", !.todo = With(l.seen, "failed")]
    <2>1. k.pc = "recover" /\ k.seen = l.seen /\ k.todo = With(l.seen, "failed")
      BY <1>0 DEF Fields
    <2>2. Goto(c, Idle) \/ Goto(c, k)
      BY <1>2 DEF Start
    <2> HIDE DEF k
    <2>3. RepairsFailed(k, row)
      BY <1>0, <2>1 DEF RepairsFailed, InBatch
    <2> QED
      BY <1>i, <2>2, <2>3
  <1>3. ASSUME NEW n \in l.todo, RecoverNode(c, n) PROVE Done
    <2> DEFINE ps == TestFailure(n, l.seen)
               k1 == [l EXCEPT !.todo = l.todo \ {n}]
               k2 == [l EXCEPT !.todo = {}]
               k3 == BeginBatch(l, n, ps)
    <2>1. l.pc = "recover" /\ (Goto(c, k1) \/ Goto(c, k2) \/ Goto(c, k3))
      BY <1>3 DEF RecoverNode
    <2>2. k1.seen = l.seen /\ k1.phase = l.phase /\ k1.todo = l.todo \ {n} /\ k1.pc = l.pc
      BY <1>0 DEF Fields
    <2>3. k2.seen = l.seen /\ k2.phase = l.phase /\ k2.todo = {} /\ k2.pc = l.pc
      BY <1>0 DEF Fields
    <2>4. k3.seen = l.seen /\ k3.phase = l.phase /\ k3.todo = l.todo /\ k3.subject = n
      BY <1>0 DEF Fields, BeginBatch
    <2>5. l.pc \notin InBatch \cup {"mark"}
      BY <2>1 DEF InBatch
    <2> HIDE DEF k1, k2, k3, l
    <2> QED
      BY <1>3, <1>g, <2>1, <2>2, <2>3, <2>4, <2>5
  <1>4. ASSUME NEW n \in l.todo, ReviewNode(c, n) PROVE Done
    <2> DEFINE ps == QualityFailure(n, l.seen)
               k1 == [l EXCEPT !.todo = l.todo \ {n}]
               k3 == BeginBatch(l, n, ps)
    <2>1. l.phase = "quality" /\ (Goto(c, k1) \/ Goto(c, k3))
      BY <1>0, <1>4 DEF ReviewNode
    <2>2. k1.seen = l.seen /\ k1.phase = l.phase
      BY <1>0 DEF Fields
    <2>3. k3.seen = l.seen /\ k3.phase = l.phase
      BY <1>0 DEF Fields, BeginBatch
    <2> HIDE DEF k1, k3, l
    <2> QED
      BY <1>g, <2>1, <2>2, <2>3
  <1>q. ASSUME Goto(c, ToQuality(l)) PROVE Done
    <2> DEFINE k == ToQuality(l)
    <2>1. k.seen = l.seen /\ k.phase = "quality"
      BY <1>0 DEF ToQuality, Fields
    <2>2. Goto(c, k)
      BY <1>q
    <2> HIDE DEF k
    <2> QED
      BY <1>g, <2>1, <2>2
  <1>p. ASSUME NEW x \in {"resume", "tick", "after"}, Goto(c, [l EXCEPT !.pc = x]) PROVE Done
    <2> DEFINE k == [l EXCEPT !.pc = x]
    <2>1. k.seen = l.seen /\ k.phase = l.phase /\ k.todo = l.todo /\ k.pc = x
      BY <1>0 DEF Fields
    <2>2. Goto(c, k)
      BY <1>p
    <2>3. x \notin InBatch \cup {"mark"}
      BY DEF InBatch
    <2> HIDE DEF k, l
    <2> QED
      BY <1>g, <2>1, <2>2, <2>3
  <1>5. CASE RecoverEnd(c)
    <2>1. Goto(c, Idle) \/ Goto(c, [l EXCEPT !.pc = "resume"]) \/ Goto(c, ToQuality(l))
      BY <1>5 DEF RecoverEnd
    <2> QED
      BY <1>i, <1>p, <1>q, <2>1
  <1>6. CASE Resume(c)
    <2>1. Goto(c, Idle) \/ Goto(c, ToQuality(l))
      BY <1>6 DEF Resume
    <2> QED
      BY <1>i, <1>q, <2>1
  <1>7. CASE QualityEnd(c)
    <2>1. Goto(c, Idle) \/ Goto(c, [l EXCEPT !.pc = "tick"])
      BY <1>7 DEF QualityEnd
    <2> QED
      BY <1>i, <1>p, <2>1
  <1>8. CASE TickTerminal(c) \/ Crash(c)
    BY <1>8, <1>i DEF TickTerminal, Crash
  <1>9. CASE \/ NoReadyNode(c) \/ SettleStale(c)
             \/ \E out \in {"completed", "poor", "failed"} : Settle(c, out)
    <2>1. Goto(c, [l EXCEPT !.pc = "after"])
      BY <1>9 DEF NoReadyNode, SettleStale, Settle
    <2> QED
      BY <1>p, <2>1
  <1>10. ASSUME NEW n \in DOMAIN row, Lease(c, n) PROVE Done
    <2> DEFINE k == [l EXCEPT !.pc = "execute", !.subject = n, !.lease = row[n].attempt + 1]
    <2>1. k.seen = l.seen /\ k.phase = l.phase /\ k.todo = l.todo /\ k.pc = "execute"
      BY <1>0 DEF Fields
    <2>2. Goto(c, k)
      BY <1>10 DEF Lease
    <2>3. "execute" \notin InBatch \cup {"mark"}
      BY DEF InBatch
    <2> HIDE DEF k, l
    <2> QED
      BY <1>g, <2>1, <2>2, <2>3
  <1>11. CASE After(c)
    <2> DEFINE k == [l EXCEPT !.pc = "recover", !.phase = "late", !.seen = row,
                              !.todo = With(row, "failed"), !.fixed = FALSE]
    <2>1. k.pc = "recover" /\ k.seen = row /\ k.todo = With(row, "failed")
      BY <1>0 DEF Fields
    <2>2. Goto(c, Idle) \/ Goto(c, k)
      BY <1>11 DEF After
    <2> HIDE DEF k
    <2>3. RepairsFailed(k, row)
      BY <1>f, <2>1 DEF RepairsFailed, InBatch
    <2> QED
      BY <1>i, <2>2, <2>3
  <1>b. ASSUME NEW k, Goto(c, k), k.seen = l.seen, k.phase = l.phase, k.todo = l.todo, k.subject = l.subject,
               l.pc \in InBatch \cup {"mark"}
        PROVE  Done
    <2> HIDE DEF l
    <2> QED
      BY <1>b, <1>g
  <1>12. CASE Refuse(c)
    <2>1. l.pc = "batch" /\ \E t \in {l, Taken(l, m)} : Goto(c, Skipped(t))
      BY <1>12 DEF Refuse
    <2>2. PICK t \in {l, Taken(l, m)} : Goto(c, Skipped(t))
      BY <2>1
    <2> HIDE DEF l, m
    <2>3. DOMAIN t = Fields /\ t.seen = l.seen /\ t.phase = l.phase /\ t.todo = l.todo /\ t.subject = l.subject
      <3>1. CASE t = l
        BY <1>0, <3>1
      <3>2. CASE t = Taken(l, m)
        BY <1>0, <3>2, TakenFields
      <3> QED
        BY <3>1, <3>2
    <2> DEFINE k == Skipped(t)
    <2>4. k.seen = t.seen /\ k.phase = t.phase /\ k.todo = t.todo /\ k.subject = t.subject
      BY <2>3 DEF Skipped, Fields
    <2>5. l.pc \in InBatch \cup {"mark"} /\ Goto(c, k)
      BY <2>1, <2>2 DEF InBatch
    <2> HIDE DEF k, l
    <2> QED
      BY <1>b, <2>3, <2>4, <2>5
  <1>13. CASE Apply(c) \/ PgSearch(c)
    <2> DEFINE t == Taken(l, m)
    <2>1. l.pc = "batch" /\ \E x \in {"record", "insert"} : Goto(c, [t EXCEPT !.pc = x])
      BY <1>13 DEF Apply, PgSearch
    <2> HIDE DEF l, m
    <2>2. DOMAIN t = Fields /\ t.seen = l.seen /\ t.phase = l.phase /\ t.todo = l.todo /\ t.subject = l.subject
      BY <1>0, TakenFields
    <2> HIDE DEF t
    <2>3. PICK x \in {"record", "insert"} : Goto(c, [t EXCEPT !.pc = x])
      BY <2>1
    <2> DEFINE k == [t EXCEPT !.pc = x]
    <2>4. k.seen = t.seen /\ k.phase = t.phase /\ k.todo = t.todo /\ k.subject = t.subject
      BY <2>2 DEF Fields
    <2>5. l.pc \in InBatch \cup {"mark"} /\ Goto(c, k)
      BY <2>1, <2>3 DEF InBatch
    <2> HIDE DEF k, l
    <2> QED
      BY <1>b, <2>2, <2>4, <2>5
  <1>14. CASE PgInsert(c)
    <2> DEFINE k == [l EXCEPT !.pc = "record"]
    <2>1. k.seen = l.seen /\ k.phase = l.phase /\ k.todo = l.todo /\ k.subject = l.subject
      BY <1>0 DEF Fields
    <2>2. l.pc \in InBatch \cup {"mark"} /\ Goto(c, k)
      BY <1>14 DEF PgInsert, InBatch
    <2> HIDE DEF k, l
    <2> QED
      BY <1>b, <2>1, <2>2
  <1>15. CASE Record(c)
    <2> DEFINE t == Skipped(l)
               k == [t EXCEPT !.pc = "batch", !.hits = @ + 1]
    <2>1. DOMAIN t = Fields /\ t.seen = l.seen /\ t.phase = l.phase /\ t.todo = l.todo /\ t.subject = l.subject
      BY <1>0 DEF Skipped, Fields
    <2>2. l.pc \in InBatch \cup {"mark"} /\ Goto(c, k)
      BY <1>15 DEF Record, InBatch
    <2> HIDE DEF t, l
    <2>3. k.seen = t.seen /\ k.phase = t.phase /\ k.todo = t.todo /\ k.subject = t.subject
      BY <2>1 DEF Fields
    <2> HIDE DEF k
    <2> QED
      BY <1>b, <2>1, <2>2, <2>3
  <1>16. CASE BatchEnd(c)
    <2> DEFINE t == [l EXCEPT !.total = @ + l.hits, !.nodes = {}, !.edges = {}]
               k1 == [t EXCEPT !.pc = "quality", !.todo = @ \ {t.subject}]
               k2 == [t EXCEPT !.pc = "mark"]
               k3 == [t EXCEPT !.pc = "recover", !.todo = @ \ {t.subject}]
    <2>1. /\ DOMAIN t = Fields /\ t.seen = l.seen /\ t.phase = l.phase /\ t.todo = l.todo
          /\ t.subject = l.subject /\ t.pc = l.pc
      BY <1>0 DEF Fields
    <2>2. l.pc \in InBatch \cup {"mark"} /\ (Goto(c, k1) \/ Goto(c, k2) \/ Goto(c, k3))
      BY <1>16, <2>1 DEF BatchEnd, InBatch
    <2> HIDE DEF t, l
    <2>3. k1.seen = t.seen /\ k1.phase = t.phase /\ k1.todo \subseteq t.todo /\ k1.pc = "quality" /\ k1.subject = t.subject
      BY <2>1 DEF Fields
    <2>4. k2.seen = t.seen /\ k2.phase = t.phase /\ k2.todo = t.todo /\ k2.subject = t.subject
      BY <2>1 DEF Fields
    <2>5. k3.seen = t.seen /\ k3.phase = t.phase /\ k3.todo \subseteq t.todo /\ k3.subject = t.subject
      BY <2>1 DEF Fields
    <2> HIDE DEF k1, k2, k3
    <2> QED
      BY <1>g, <2>1, <2>2, <2>3, <2>4, <2>5
  <1>17. CASE Mark(c)
    <2> DEFINE k == [l EXCEPT !.pc = "recover", !.fixed = TRUE, !.todo = @ \ {l.subject}]
    <2>1. k.seen = l.seen /\ k.phase = l.phase /\ k.todo \subseteq l.todo /\ k.subject = l.subject
      BY <1>0 DEF Fields
    <2>2. l.pc \in InBatch \cup {"mark"} /\ Goto(c, k)
      BY <1>17 DEF Mark, InBatch
    <2> HIDE DEF k, l
    <2> QED
      BY <1>g, <2>1, <2>2
  <1> QED
    BY <1>1, <1>2, <1>3, <1>4, <1>5, <1>6, <1>7, <1>8, <1>9, <1>10, <1>11, <1>12, <1>13, <1>14, <1>15,
       <1>16, <1>17 DEF CtrlStep

\* Propagation writes pending rows only.
LEMMA DoomedPending ==
    ASSUME NEW s, NEW n \in Doomed(s)
    PROVE  s[n].status = "pending"
  BY DEF Doomed, With

\* No step changes a row that is done, but for the mark of a failed one.
LEMMA FinalSteps ==
    ASSUME ~ Pg, DynInv, FailedInv, [Next]_vars, NEW n \in DOMAIN row
    PROVE  n \in DOMAIN row' /\ Final(n)
  <1> DEFINE Keeps == n \in DOMAIN row' /\ Final(n)
  <1>0. row \in [DOMAIN row -> Rows] /\ row[n] \in Rows
    BY DEF DynInv, StoreInv
  <1>u. ASSUME n \in DOMAIN row', row'[n] = row[n] PROVE Keeps
    BY <1>u DEF Final
  <1>p. ASSUME row[n].status \in {"pending", "running"}, n \in DOMAIN row' PROVE Keeps
    BY <1>p DEF Final
  <1>1. ASSUME NEW c \in Ctrl, CtrlStep(c) \/ Crash(c) PROVE Keeps
    <2> DEFINE l == at[c]
               m == Head(l.batch)
    <2>0. KnownInv(l, DOMAIN row) /\ BatchInv(l, DOMAIN row) /\ RepairsFailed(l, row)
      BY DEF DynInv, LocalInv, FailedInv
    <2>1. CASE Apply(c)
      <3>1. (m.id \notin DOMAIN row /\ InsertNode(m.id)) \/ row' = row
        BY <2>1 DEF Apply, InTable
      <3> HIDE DEF m
      <3> QED
        BY <1>u, <3>1 DEF InsertNode
    <2>2. CASE PgInsert(c)
      BY <2>0, <2>2 DEF PgInsert, BatchInv
    <2>3. CASE Mark(c)
      <3>1. row' = [row EXCEPT ![l.subject].status = "recovered"] /\ l.pc = "mark" /\ l.phase # "quality"
        BY <2>0, <2>3 DEF Mark, KnownInv
      <3>2. Failed(row, l.subject)
        BY <2>0, <3>1 DEF RepairsFailed
      <3> HIDE DEF l
      <3>3. CASE n = l.subject
        <4>1. n \in DOMAIN row' /\ row'[n].status = "recovered"
          BY <1>0, <3>1, <3>3 DEF Rows
        <4> QED
          BY <3>2, <3>3, <4>1 DEF Failed, Final
      <3>4. CASE n # l.subject
        BY <1>u, <3>1, <3>4
      <3> QED
        BY <3>3, <3>4
    <2>4. ASSUME NEW x \in DOMAIN row, Lease(c, x) PROVE Keeps
      <3>1. row' = [row EXCEPT ![x].status = "running", ![x].attempt = @ + 1] /\ row[x].status = "pending"
        BY <2>4 DEF Lease, Ready
      <3>2. DOMAIN row' = DOMAIN row /\ (n # x => row'[n] = row[n])
        BY <3>1
      <3> QED
        BY <1>p, <1>u, <3>1, <3>2
    <2>p. ASSUME NEW s, s \in [DOMAIN row -> Rows], row' = Propagate(s), s[n] = row[n] PROVE Keeps
      <3>1. DOMAIN s = DOMAIN row
        BY <2>p
      <3>2. n \in DOMAIN row' /\ row'[n].status = IF n \in Doomed(s) THEN "blocked" ELSE s[n].status
        BY <2>p, <3>1, Propagated
      <3>3. n \in Doomed(s) => row[n].status = "pending"
        BY <2>p, DoomedPending
      <3> QED
        BY <2>p, <3>2, <3>3 DEF Final
    <2>5. CASE NoReadyNode(c)
      BY <1>0, <2>5, <2>p DEF NoReadyNode
    <2>6. ASSUME NEW out \in {"completed", "poor", "failed"}, Settle(c, out) PROVE Keeps
      <3> DEFINE st == IF out = "failed" THEN "failed" ELSE "completed"
                 q == [row[l.subject] EXCEPT !.status = st, !.poor = (out = "poor")]
                 s == [row EXCEPT ![l.subject] = q]
      <3>1. row' = Propagate(s) /\ l.pc = "execute" /\ row[l.subject].status = "running"
        BY <2>6 DEF Settle, HoldsLease
      <3>2. l.subject \in DOMAIN row /\ row[l.subject] \in Rows /\ st \in RowStatus
        BY <1>0, <2>0, <3>1 DEF KnownInv, RowStatus
      <3> HIDE DEF st, l
      <3>3. q \in Rows
        BY <3>2, SettledRow, Zenon
      <3> HIDE DEF q
      <3>4. s \in [DOMAIN row -> Rows] /\ (n # l.subject => s[n] = row[n])
        BY <1>0, <3>2, <3>3
      <3>5. n \in DOMAIN row'
        <4> HIDE DEF s
        <4>1. DOMAIN s = DOMAIN row
          BY <3>4
        <4> QED
          BY <3>1, <3>4, <4>1, Propagated
      <3> HIDE DEF s
      <3> QED
        BY <1>p, <2>p, <3>1, <3>4, <3>5
    <2>7. CASE \/ Begin(c) \/ Start(c) \/ RecoverEnd(c) \/ Resume(c) \/ QualityEnd(c) \/ TickTerminal(c)
               \/ SettleStale(c) \/ After(c) \/ Crash(c) \/ Refuse(c) \/ PgSearch(c) \/ Record(c) \/ BatchEnd(c)
               \/ \E x \in at[c].todo : RecoverNode(c, x) \/ ReviewNode(c, x)
      <3>1. row' = row
        BY <2>7 DEF Begin, Start, RecoverEnd, Resume, QualityEnd, TickTerminal, SettleStale, After, Crash, Refuse,
                    PgSearch, Record, BatchEnd, RecoverNode, ReviewNode, Store
      <3> QED
        BY <1>u, <3>1
    <2> QED
      BY <1>1, <2>1, <2>2, <2>3, <2>4, <2>5, <2>6, <2>7 DEF CtrlStep
  <1>2. ASSUME NEW x \in DOMAIN row, RecoverStaleLease(x) PROVE Keeps
    <2>1. row' = [row EXCEPT ![x].status = "pending"] /\ row[x].status = "running"
      BY <1>2 DEF RecoverStaleLease, With
    <2>2. DOMAIN row' = DOMAIN row /\ (n # x => row'[n] = row[n])
      BY <2>1
    <2> QED
      BY <1>p, <1>u, <2>1, <2>2
  <1>3. CASE UNCHANGED vars
    BY <1>u, <1>3 DEF vars
  <1> QED
    BY <1>1, <1>2, <1>3 DEF Next

\* What is in hand stays failed or marked, for every controller.
LEMMA FailedSteps ==
    ASSUME ~ Pg, DynInv, FailedInv, [Next]_vars
    PROVE  FailedInv'
  <1>1. ASSUME NEW n, Failed(row, n) PROVE Failed(row', n)
    BY <1>1, FinalSteps DEF Failed, Final
  <1>2. ASSUME NEW l, RepairsFailed(l, row) PROVE RepairsFailed(l, row')
    BY <1>1, <1>2 DEF RepairsFailed
  <1>3. DOMAIN at = Ctrl /\ \A c \in Ctrl : RepairsFailed(at[c], row)
    BY DEF DynInv, FailedInv
  <1>4. ASSUME NEW c \in Ctrl, CtrlStep(c) \/ Crash(c) PROVE FailedInv'
    <2>1. PICK k : Goto(c, k) /\ RepairsFailed(k, row)
      BY <1>4, RepairTakes
    <2>2. \A d \in Ctrl : at'[d] = IF d = c THEN k ELSE at[d]
      BY <1>3, <2>1 DEF Goto
    <2> QED
      BY <1>2, <1>3, <2>1, <2>2 DEF FailedInv
  <1>5. ASSUME at' = at PROVE FailedInv'
    BY <1>2, <1>3, <1>5 DEF FailedInv
  <1> QED
    BY <1>4, <1>5 DEF Next, RecoverStaleLease, vars

\* On SQLite nothing that any controller does, late, twice or from an old snapshot,
\* changes a node that is done: the unconditional update_workflow_node_status only ever
\* turns a failed node into a recovered one.
THEOREM SettledFinal ==
    ASSUME ~ Pg
    PROVE  Spec => SettledIsFinal
  <1>1. Init => FailedInv
    <2> SUFFICES ASSUME Init, NEW c \in Ctrl PROVE RepairsFailed(at[c], row)
      BY DEF FailedInv
    <2> QED
      BY IdleRepairs DEF Init
  <1>2. DynInv /\ FailedInv /\ [Next]_vars => FailedInv'
    BY FailedSteps
  <1> DEFINE A == \A n \in DOMAIN row :
                    LET st == row'[n].status
                    IN  /\ row[n].status \in {"completed", "blocked", "recovered"} => st = row[n].status
                        /\ row[n].status = "failed" => st \in {"failed", "recovered"}
  <1>3. DynInv /\ FailedInv /\ [Next]_vars => [A]_vars
    BY FinalSteps DEF Final
  <1> HIDE DEF A
  <1>4. Spec => [][A]_vars
    BY <1>1, <1>2, <1>3, DynInvariance, PTL DEF Spec
  <1> QED
    BY <1>4 DEF SettledIsFinal, A

=============================================================================
