-------------------------- MODULE DagManagerProofs --------------------------
(***************************************************************************)
(* Proofs of the properties of DagManager, for any sets of nodes and edges *)
(* and any sequence of mutations, refusals and rollbacks.                  *)
(***************************************************************************)
EXTENDS DagManager, TLAPS

\* The graphs IsGraph speaks of, as a set.
DagState ==
    [version : Nat, node : UNION {[N -> Status] : N \in SUBSET Node},
     edge : UNION {[E -> Node \X Node] : E \in SUBSET Edge}]

DagInv ==
    /\ dag \in DagState /\ history \in Seq(DagState)
    /\ GraphsAreValid
    /\ HistoryIsChain

-----------------------------------------------------------------------------
(* Graphs. *)

\* The set and the predicate agree.
LEMMA DagStateIsGraph ==
    ASSUME NEW g \in DagState
    PROVE  /\ IsGraph(g)
           /\ DOMAIN g.node \subseteq Node /\ DOMAIN g.edge \subseteq Edge
           /\ \A e \in DOMAIN g.edge : g.edge[e] \in Node \X Node
  <1>1. g.version \in Nat /\ g = [version |-> g.version, node |-> g.node, edge |-> g.edge]
    BY DEF DagState
  <1>2. PICK N \in SUBSET Node : g.node \in [N -> Status]
    BY DEF DagState
  <1>3. PICK E \in SUBSET Edge : g.edge \in [E -> Node \X Node]
    BY DEF DagState
  <1>4. DOMAIN g.node = N /\ DOMAIN g.edge = E
    BY <1>2, <1>3
  <1> QED
    BY <1>1, <1>2, <1>3, <1>4 DEF IsGraph

\* A map with one more or one changed entry, and with one entry less.
LEMMA PutDrop ==
    ASSUME NEW A, NEW B, NEW S \in SUBSET A, NEW f \in [S -> B], NEW k \in A, NEW v \in B
    PROVE  /\ Put(f, k, v) \in [S \cup {k} -> B] /\ S \cup {k} \in SUBSET A
           /\ Drop(f, k) \in [S \ {k} -> B] /\ S \ {k} \in SUBSET A
           /\ Put(f, k, v)[k] = v /\ \A x \in S : x # k => Put(f, k, v)[x] = f[x]
           /\ \A x \in S \ {k} : Drop(f, k)[x] = f[x]
  BY DEF Put, Drop

\* A graph with fewer nodes or edges has a cycle only if the larger one has.
LEMMA FewerEdgesNoCycle ==
    ASSUME NEW g, NEW h, DOMAIN h.node \subseteq DOMAIN g.node,
           \A n : Preds(h, n) \subseteq Preds(g, n), ~ HasCycle(g)
    PROVE  ~ HasCycle(h)
  BY DEF HasCycle

\* A new node, which no edge touches, closes no cycle.
LEMMA NewNodeNoCycle ==
    ASSUME NEW g, NEW h, NEW n, DOMAIN h.node = DOMAIN g.node \cup {n}, h.edge = g.edge,
           n \notin DOMAIN g.node, Valid(g)
    PROVE  Valid(h)
  <1>1. \A m : Preds(h, m) = Preds(g, m)
    BY DEF Preds
  <1>2. Preds(g, n) = {} /\ ~ HasCycle(g)
    BY DEF Preds, Valid
  <1>3. ~ HasCycle(h)
    BY <1>1, <1>2 DEF HasCycle
  <1> QED
    BY <1>3 DEF Valid

-----------------------------------------------------------------------------
(* Steps. *)

DagOf(nodes, edges) == [version |-> dag.version + 1, node |-> nodes, edge |-> edges]

\* A commit pushes a valid graph below another one.
LEMMA CommitKeeps ==
    ASSUME DagInv, NEW N \in SUBSET Node, NEW nodes \in [N -> Status],
           NEW E \in SUBSET Edge, NEW edges \in [E -> Node \X Node],
           Commit(nodes, edges), Valid(DagOf(nodes, edges))
    PROVE  DagInv'
  <1> DEFINE g == DagOf(nodes, edges)
  <1>1. dag' = g /\ history' = Append(history, dag)
    BY DEF Commit, DagOf
  <1>2. dag \in DagState /\ history \in Seq(DagState) /\ dag.version \in Nat
    BY DEF DagInv, DagState
  <1>3. g \in DagState /\ g.version = dag.version + 1
    <2>1. nodes \in UNION {[M -> Status] : M \in SUBSET Node} /\ edges \in UNION {[F -> Node \X Node] : F \in SUBSET Edge}
      OBVIOUS
    <2> QED
      BY <1>2, <2>1 DEF DagOf, DagState
  <1> HIDE DEF g
  <1>4. /\ history' \in Seq(DagState) /\ Len(history') = Len(history) + 1
        /\ history'[Len(history) + 1] = dag
        /\ \A i \in 1 .. Len(history) : history'[i] = history[i]
    BY <1>1, <1>2
  <1>5. GraphsAreValid'
    <2>1. Valid(dag') /\ Valid(dag) /\ \A i \in 1 .. Len(history) : Valid(history[i])
      BY <1>1 DEF DagInv, GraphsAreValid, g
    <2>2. \A i \in 1 .. Len(history') : Valid(history'[i])
      BY <1>2, <1>4, <2>1
    <2> QED
      BY <2>1, <2>2 DEF GraphsAreValid
  <1>6. HistoryIsChain'
    BY <1>1, <1>2, <1>3, <1>4 DEF DagInv, HistoryIsChain
  <1> QED
    BY <1>1, <1>3, <1>4, <1>5, <1>6 DEF DagInv

\* What is known of the graph a mutation is applied to.
LEMMA DagParts ==
    ASSUME DagInv
    PROVE  /\ DOMAIN dag.node \in SUBSET Node /\ dag.node \in [DOMAIN dag.node -> Status]
           /\ DOMAIN dag.edge \in SUBSET Edge /\ dag.edge \in [DOMAIN dag.edge -> Node \X Node]
           /\ Valid(dag)
  BY DagStateIsGraph DEF DagInv, GraphsAreValid, IsGraph

\* A graph whose edges were searched is valid when their ends are nodes.
LEMMA SearchedIsValid ==
    ASSUME DagInv, NEW e \in Edge, NEW f \in DOMAIN dag.node, NEW t \in DOMAIN dag.node,
           ~ HasCycle([dag EXCEPT !.edge = Put(dag.edge, e, <<f, t>>)])
    PROVE  Valid(DagOf(dag.node, Put(dag.edge, e, <<f, t>>)))
  <1> DEFINE new == Put(dag.edge, e, <<f, t>>)
             g == DagOf(dag.node, new)
             h == [dag EXCEPT !.edge = new]
  <1>1. g.node = dag.node /\ g.edge = new
    BY DEF DagOf
  <1>2. h.node = dag.node /\ h.edge = new
    BY DEF DagInv, DagState
  <1>3. DOMAIN new = DOMAIN dag.edge \cup {e} /\ new[e] = <<f, t>>
        /\ \A x \in DOMAIN dag.edge : x # e => new[x] = dag.edge[x]
    BY DEF Put
  <1> HIDE DEF g, h, new
  <1>4. ~ HasCycle(g)
    <2>1. ~ HasCycle(h)
      BY DEF h, new
    <2>2. \A n : Preds(g, n) = Preds(h, n)
      BY <1>1, <1>2 DEF Preds
    <2> QED
      BY <1>1, <1>2, <2>1, <2>2 DEF HasCycle
  <1>5. \A x \in DOMAIN new : {new[x][1], new[x][2]} \subseteq DOMAIN dag.node
    BY <1>3, DagParts DEF Valid
  <1> QED
    BY <1>1, <1>4, <1>5 DEF Valid, g, new

\* Every mutation keeps the invariant.
LEMMA MutationKeeps ==
    ASSUME DagInv, DagNext, \A v \in -1 .. MaxVersion : ~ Rollback(v)
    PROVE  DagInv'
  <1> USE DagParts
  <1>1. ASSUME NEW n \in Node, NEW st \in Status, AddNode(n, st) PROVE DagInv'
    <2> DEFINE h == DagOf(Put(dag.node, n, st), dag.edge)
    <2>1. h.edge = dag.edge /\ DOMAIN h.node = DOMAIN dag.node \cup {n}
      BY DEF DagOf, Put
    <2>2. Valid(h)
      BY <1>1, <2>1, NewNodeNoCycle DEF AddNode
    <2>3. /\ Put(dag.node, n, st) \in [DOMAIN dag.node \cup {n} -> Status]
          /\ DOMAIN dag.node \cup {n} \in SUBSET Node
      BY DEF Put
    <2> QED
      BY <1>1, <2>2, <2>3, CommitKeeps DEF AddNode
  <1>2. ASSUME NEW n \in Node, NEW st \in Status, UpdateNode(n, st) PROVE DagInv'
    <2> DEFINE h == DagOf(Put(dag.node, n, st), dag.edge)
    <2>1. h.edge = dag.edge /\ DOMAIN h.node = DOMAIN dag.node
      BY <1>2 DEF DagOf, Put, UpdateNode
    <2>2. \A m : Preds(h, m) = Preds(dag, m)
      BY <2>1 DEF Preds
    <2> HIDE DEF h
    <2>3. Valid(h)
      BY <2>1, <2>2, FewerEdgesNoCycle DEF Valid
    <2>4. /\ Put(dag.node, n, st) \in [DOMAIN dag.node \cup {n} -> Status]
          /\ DOMAIN dag.node \cup {n} \in SUBSET Node
      BY DEF Put
    <2> QED
      BY <1>2, <2>3, <2>4, CommitKeeps DEF UpdateNode, h
  <1>3. ASSUME NEW n \in Node, RemoveNode(n) PROVE DagInv'
    <2> DEFINE h == DagOf(Drop(dag.node, n), dag.edge)
    <2>1. h.edge = dag.edge /\ DOMAIN h.node = DOMAIN dag.node \ {n}
      BY DEF DagOf, Drop
    <2>2. \A m : Preds(h, m) = Preds(dag, m)
      BY <2>1 DEF Preds
    <2> HIDE DEF h
    <2>3. Valid(h)
      BY <1>3, <2>1, <2>2, FewerEdgesNoCycle DEF Valid, RemoveNode
    <2>4. Drop(dag.node, n) \in [DOMAIN dag.node \ {n} -> Status] /\ DOMAIN dag.node \ {n} \in SUBSET Node
      BY DEF Drop
    <2> QED
      BY <1>3, <2>3, <2>4, CommitKeeps DEF RemoveNode, h
  <1>4. ASSUME NEW e \in Edge, NEW f \in Node, NEW t \in Node, AddEdge(e, f, t) \/ RewireEdge(e, f, t)
        PROVE  DagInv'
    <2>1. /\ f \in DOMAIN dag.node /\ t \in DOMAIN dag.node
          /\ ~ HasCycle([dag EXCEPT !.edge = Put(dag.edge, e, <<f, t>>)])
          /\ Commit(dag.node, Put(dag.edge, e, <<f, t>>))
      BY <1>4 DEF AddEdge, RewireEdge
    <2>2. /\ Put(dag.edge, e, <<f, t>>) \in [DOMAIN dag.edge \cup {e} -> Node \X Node]
          /\ DOMAIN dag.edge \cup {e} \in SUBSET Edge
      <3>1. <<f, t>> \in Node \X Node
        OBVIOUS
      <3> QED
        BY <3>1, PutDrop
    <2> QED
      BY <2>1, <2>2, SearchedIsValid, CommitKeeps
  <1>5. ASSUME NEW e \in Edge, RemoveEdge(e) PROVE DagInv'
    <2> DEFINE h == DagOf(dag.node, Drop(dag.edge, e))
    <2>1. h.node = dag.node /\ h.edge = Drop(dag.edge, e)
      BY DEF DagOf
    <2>2. DOMAIN h.edge = DOMAIN dag.edge \ {e} /\ \A x \in DOMAIN h.edge : h.edge[x] = dag.edge[x]
      BY <2>1 DEF Drop
    <2> HIDE DEF h
    <2>3. \A m : Preds(h, m) \subseteq Preds(dag, m)
      BY <2>2 DEF Preds
    <2>4. Valid(h)
      BY <2>1, <2>2, <2>3, FewerEdgesNoCycle DEF Valid
    <2>5. /\ Drop(dag.edge, e) \in [DOMAIN dag.edge \ {e} -> Node \X Node]
          /\ DOMAIN dag.edge \ {e} \in SUBSET Edge
      BY DEF Drop
    <2> QED
      BY <1>5, <2>4, <2>5, CommitKeeps DEF RemoveEdge, h
  <1> QED
    BY <1>1, <1>2, <1>3, <1>4, <1>5 DEF DagNext

\* Where rollback stops: at the requested version, or at the newest one below it.
LEMMA RollbackStops ==
    ASSUME DagInv, NEW v \in -1 .. MaxVersion, Rollback(v)
    PROVE  \E i \in 1 .. Len(history) :
               dag' = history[i] /\ history' = SubSeq(history, 1, i - 1) /\ history[i].version = i - 1
  <1> DEFINE fits == {i \in 1 .. Len(history) : history[i].version <= v}
             top == IF fits = {} THEN 1 ELSE CHOOSE x \in fits : \A y \in fits : y <= x
  <1>1. /\ history \in Seq(DagState) /\ history # << >> /\ Len(history) \in Nat
        /\ \A i \in 1 .. Len(history) : history[i].version = i - 1
    BY DEF DagInv, HistoryIsChain, Rollback
  <1>2. dag' = history[top] /\ history' = SubSeq(history, 1, top - 1)
    BY DEF Rollback
  <1>3. fits = {} \/ \E x \in fits : \A y \in fits : y <= x
    <2>1. fits = {i \in 1 .. Len(history) : i - 1 <= v}
      BY <1>1
    <2>2. MaxVersion \in Nat /\ v \in Int
      BY DagAssumption
    <2> HIDE DEF fits
    <2>3. CASE v + 1 <= Len(history)
      <3>1. v + 1 >= 1 => v + 1 \in fits
        BY <1>1, <2>1, <2>2, <2>3
      <3>2. \A y \in fits : y <= v + 1 /\ v + 1 >= 1
        BY <1>1, <2>1, <2>2
      <3> QED
        BY <3>1, <3>2
    <2>4. CASE v + 1 > Len(history)
      <3>1. Len(history) \in fits \/ Len(history) = 0
        BY <1>1, <2>1, <2>2, <2>4
      <3>2. \A y \in fits : y <= Len(history) /\ Len(history) >= 1
        BY <1>1, <2>1, <2>2
      <3> QED
        BY <3>1, <3>2
    <2> QED
      BY <1>1, <2>2, <2>3, <2>4
  <1>4. top \in 1 .. Len(history)
    <2>1. fits \subseteq 1 .. Len(history) /\ 1 \in 1 .. Len(history)
      BY <1>1
    <2> HIDE DEF fits
    <2> QED
      BY <1>3, <2>1
  <1> HIDE DEF top
  <1> QED
    BY <1>1, <1>2, <1>4

\* A rollback leaves the history as it was below the graph it returns to.
LEMMA RollbackKeeps ==
    ASSUME DagInv, NEW v \in -1 .. MaxVersion, Rollback(v)
    PROVE  DagInv'
  <1>1. PICK i \in 1 .. Len(history) :
            dag' = history[i] /\ history' = SubSeq(history, 1, i - 1) /\ history[i].version = i - 1
    BY RollbackStops
  <1>2. history \in Seq(DagState)
    BY DEF DagInv
  <1>3. /\ history' \in Seq(DagState) /\ Len(history') = i - 1
        /\ \A j \in 1 .. Len(history') : j \in 1 .. Len(history) /\ history'[j] = history[j]
    BY <1>1, <1>2
  <1>4. dag' \in DagState
    BY <1>1, <1>2
  <1> QED
    BY <1>1, <1>3, <1>4 DEF DagInv, GraphsAreValid, HistoryIsChain

\* The first state.
LEMMA DagStarts == DagInit => DagInv
  <1> SUFFICES ASSUME DagInit PROVE DagInv
    OBVIOUS
  <1>1. << >> \in [{} -> Status] /\ << >> \in [{} -> Node \X Node] /\ DOMAIN << >> = {}
    OBVIOUS
  <1>2. dag \in DagState
    <2>1. << >> \in UNION {[N -> Status] : N \in SUBSET Node}
      BY <1>1
    <2>2. << >> \in UNION {[E -> Node \X Node] : E \in SUBSET Edge}
      BY <1>1
    <2> QED
      BY <2>1, <2>2 DEF DagInit, DagState
  <1>3. DOMAIN dag.node = {} /\ DOMAIN dag.edge = {} /\ dag.version = 0
    BY <1>1 DEF DagInit
  <1>4. Valid(dag)
    BY <1>3 DEF Valid, HasCycle
  <1> QED
    BY <1>2, <1>3, <1>4 DEF DagInit, DagInv, GraphsAreValid, HistoryIsChain

-----------------------------------------------------------------------------
(* Theorems. *)

\* The inductive invariant: every graph, the current one and those below it, is valid,
\* and the history holds one graph for each version.
THEOREM DagInvariance == DagSpec => []DagInv
  <1>1. DagInv /\ [DagNext]_dvars => DagInv'
    <2>1. ASSUME DagInv, DagNext PROVE DagInv'
      BY <2>1, MutationKeeps, RollbackKeeps
    <2>2. ASSUME DagInv, UNCHANGED dvars PROVE DagInv'
      BY <2>2 DEF dvars, DagInv, GraphsAreValid, HistoryIsChain
    <2> QED
      BY <2>1, <2>2
  <1> QED
    BY <1>1, DagStarts, PTL DEF DagSpec

\* In a valid graph nodes_ready never leaves execution stuck: the nodes that are not
\* completed would otherwise form a cycle.
LEMMA ValidIsExecutable ==
    ASSUME Valid(dag)
    PROVE  ReadyProgress
  <1> SUFFICES ASSUME NEW C \in SUBSET DOMAIN dag.node, C # DOMAIN dag.node,
                      \A n \in DOMAIN dag.node \ C : dag.node[n] = "pending"
               PROVE  NodesReady(dag, C) # {}
    BY DEF ReadyProgress
  <1> DEFINE S == DOMAIN dag.node \ C
  <1>1. S \in SUBSET DOMAIN dag.node /\ S # {}
    OBVIOUS
  <1>2. PICK n \in S : Preds(dag, n) \cap S = {}
    BY <1>1 DEF Valid, HasCycle
  <1>3. Preds(dag, n) \subseteq DOMAIN dag.node
    BY DEF Preds, Valid
  <1> QED
    BY <1>2, <1>3 DEF NodesReady

\* No sequence of mutations, refusals and rollbacks leaves DAGManager with a graph
\* that has a cycle or a dangling edge, that nodes_ready cannot execute, or whose
\* history skips or repeats a version.
THEOREM DagSoundness == DagSpec => []GraphStaysUsable
  <1>1. DagInv => GraphStaysUsable
    <2> SUFFICES ASSUME DagInv PROVE GraphStaysUsable
      OBVIOUS
    <2>1. IsGraph(dag)
      BY DagStateIsGraph DEF DagInv
    <2>2. DOMAIN history = 1 .. Len(history) /\ \A i \in 1 .. Len(history) : history[i] \in DagState
      BY DEF DagInv
    <2>3. DagTypeOK
      BY <2>1, <2>2, DagStateIsGraph DEF DagTypeOK
    <2>4. ReadyProgress
      BY ValidIsExecutable DEF DagInv, GraphsAreValid
    <2> QED
      BY <2>3, <2>4 DEF DagInv, GraphStaysUsable
  <1> QED
    BY <1>1, DagInvariance, PTL

\* A rollback arrives at the graph that had the version, whatever was pushed since.
THEOREM RollbackIsExact == DagSpec => RollbackRestores
  <1>1. DagInv /\ [DagNext]_dvars =>
            [dag'.version < dag.version =>
                /\ dag' = history[dag'.version + 1]
                /\ history' = SubSeq(history, 1, dag'.version)]_dvars
    <2> SUFFICES ASSUME DagInv, DagNext, dag'.version < dag.version
                 PROVE  dag' = history[dag'.version + 1] /\ history' = SubSeq(history, 1, dag'.version)
      OBVIOUS
    <2>1. dag.version \in Nat
      BY DEF DagInv, DagState
    <2>2. ASSUME NEW nodes, NEW edges, Commit(nodes, edges) PROVE FALSE
      BY <2>1, <2>2 DEF Commit
    <2>3. PICK v \in -1 .. MaxVersion : Rollback(v)
      BY <2>2 DEF DagNext, AddNode, UpdateNode, RemoveNode, AddEdge, RewireEdge, RemoveEdge
    <2>4. PICK i \in 1 .. Len(history) :
              dag' = history[i] /\ history' = SubSeq(history, 1, i - 1) /\ history[i].version = i - 1
      BY <2>3, RollbackStops
    <2>5. dag'.version + 1 = i /\ dag'.version = i - 1
      BY <2>4
    <2> QED
      BY <2>4, <2>5
  <1> QED
    BY <1>1, DagInvariance, PTL DEF DagSpec, RollbackRestores

=============================================================================
