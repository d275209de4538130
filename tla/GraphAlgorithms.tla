-------------------------- MODULE GraphAlgorithms --------------------------
(***************************************************************************)
(* The graph searches of DAGManager and of the planner's                   *)
(* DependencyResolver, translated loop by loop and compared with what they *)
(* are meant to compute, for every graph of the instance: parallel edges,  *)
(* loops and edges to nodes that are missing included.  The planner builds *)
(* such graphs and validates them only afterwards.                         *)
(*                                                                         *)
(* Node ids are numbers, whose order is the order of the strings.          *)
(***************************************************************************)
EXTENDS Integers, Sequences, FiniteSets, SequencesExt

CONSTANTS
    Id,             \* the ids an edge may name
    MaxEdges        \* bound: edges of a graph

VARIABLE graph      \* the graph a search is asked about

\* A graph: the ids that are nodes, and a sequence of pairs of ids.
Graphs == [nodes : SUBSET Id, edges : UNION {[1 .. k -> Id \X Id] : k \in 0 .. MaxEdges}]

Sorted(S) == SetToSortSeq(S, <)

\* The neighbours of a node, in the order of the edges.
Adj(g, n) ==
    LET from == SelectSeq(g.edges, LAMBDA e : e[1] = n)
    IN  [i \in 1 .. Len(from) |-> from[i][2]]

SortedAdj(g, n) == SortSeq(Adj(g, n), <)

InDegree(g) == [n \in Id |-> Cardinality({i \in 1 .. Len(g.edges) : g.edges[i][2] = n})]

-----------------------------------------------------------------------------
(* has_cycle of dag_manager: an explicit stack of (node, next neighbour). *)

White == 0
Gray  == 1
Black == 2

\* Mutant: a node that is done counts as one that is being searched.
SearchNoBlack(seen) == seen \in {Gray, Black}

ClosesCycle(seen) == seen = Gray

\* The loop over the stack; <<found, color>>.
RECURSIVE StackLoop(_, _, _)
StackLoop(g, stack, color) ==
    IF stack = << >> THEN <<FALSE, color>>
    ELSE LET top  == Last(stack)
             rest == Front(stack)
             adj  == Adj(g, top[1])
         IN  IF top[2] > Len(adj) THEN StackLoop(g, rest, [color EXCEPT ![top[1]] = Black])
             ELSE LET m == adj[top[2]]
                      s == Append(rest, <<top[1], top[2] + 1>>)
                  IN  CASE m \in g.nodes /\ ClosesCycle(color[m]) -> <<TRUE, color>>
                        [] m \in g.nodes /\ color[m] = White ->
                              StackLoop(g, Append(s, <<m, 1>>), [color EXCEPT ![m] = Gray])
                        [] OTHER -> StackLoop(g, s, color)

RECURSIVE FromStarts(_, _, _)
FromStarts(g, starts, color) ==
    IF starts = << >> THEN FALSE
    ELSE LET n == Head(starts)
             r == StackLoop(g, << <<n, 1>> >>, [color EXCEPT ![n] = Gray])
         IN  IF color[n] # White THEN FromStarts(g, Tail(starts), color)
             ELSE r[1] \/ FromStarts(g, Tail(starts), r[2])

SearchHasCycle(g) == FromStarts(g, Sorted(g.nodes), [n \in g.nodes |-> White])

(* has_cycle of DependencyResolver: recursive, and started at every node in  *)
(* the order of a hash map, also at those that are black by then.            *)

RECURSIVE Dfs(_, _, _), DfsAll(_, _, _)
Dfs(g, n, color) ==
    LET r == DfsAll(g, Adj(g, n), [color EXCEPT ![n] = Gray])
    IN  IF r[1] THEN r ELSE <<FALSE, [r[2] EXCEPT ![n] = Black]>>

DfsAll(g, ms, color) ==
    IF ms = << >> THEN <<FALSE, color>>
    ELSE LET m == Head(ms)
         IN  CASE m \in g.nodes /\ color[m] = Gray -> <<TRUE, color>>
               [] m \in g.nodes /\ color[m] = White ->
                     LET r == Dfs(g, m, color) IN IF r[1] THEN r ELSE DfsAll(g, Tail(ms), r[2])
               [] OTHER -> DfsAll(g, Tail(ms), color)

RECURSIVE ResolverStarts(_, _, _)
ResolverStarts(g, starts, color) ==
    /\ starts # << >>
    /\ LET r == Dfs(g, Head(starts), color)
       IN  r[1] \/ ResolverStarts(g, Tail(starts), r[2])

ResolverHasCycle(g, starts) == ResolverStarts(g, starts, [n \in g.nodes |-> White])

\* validate of either: edges with missing ends, and cycles.
Validates(g) ==
    /\ \A i \in 1 .. Len(g.edges) : {g.edges[i][1], g.edges[i][2]} \subseteq g.nodes
    /\ ~ SearchHasCycle(g)

-----------------------------------------------------------------------------
(* topological_order: a queue of nodes without open predecessors. *)

\* The neighbours of one node; <<in-degrees, queue>>.
RECURSIVE Relax(_, _, _)
Relax(ms, deg, queue) ==
    IF ms = << >> THEN <<deg, queue>>
    ELSE LET m == Head(ms)
             d == [deg EXCEPT ![m] = @ - 1]
         IN  Relax(Tail(ms), d, IF d[m] = 0 THEN Append(queue, m) ELSE queue)

RECURSIVE Kahn(_, _, _, _)
Kahn(g, queue, deg, result) ==
    IF queue = << >> THEN result
    ELSE LET n == Head(queue)
             r == Relax(IF n \in g.nodes THEN SortedAdj(g, n) ELSE << >>, deg, Tail(queue))
         IN  Kahn(g, r[2], r[1], Append(result, n))

TopologicalOrder(g) == Kahn(g, Sorted({n \in g.nodes : InDegree(g)[n] = 0}), InDegree(g), << >>)

\* execution_order: wave after wave, if the graph is valid.
RECURSIVE RelaxWave(_, _, _, _)
RelaxWave(g, ready, deg, next) ==
    IF ready = << >> THEN <<deg, next>>
    ELSE LET r == Relax(Adj(g, Head(ready)), deg, next) IN RelaxWave(g, Tail(ready), r[1], r[2])

RECURSIVE Waves(_, _, _)
Waves(g, ready, deg) ==
    IF ready = << >> THEN << >>
    ELSE LET r == RelaxWave(g, ready, deg, << >>)
         IN  <<ready>> \o Waves(g, SortSeq(r[2], <), r[1])

ExecutionOrder(g) ==
    IF Validates(g) THEN Waves(g, Sorted({n \in g.nodes : InDegree(g)[n] = 0}), InDegree(g))
    ELSE << >>

-----------------------------------------------------------------------------
(* path_between: depth first, a visited node is not entered again. *)

\* <<found, visited, path>>
RECURSIVE PathDfs(_, _, _, _, _), PathDfsAll(_, _, _, _, _, _)
PathDfs(g, n, to, visited, path) ==
    IF n = to THEN <<TRUE, visited, Append(path, n)>>
    ELSE PathDfsAll(g, n, IF n \in g.nodes THEN SortedAdj(g, n) ELSE << >>, to,
                    visited \cup {n}, path)

PathDfsAll(g, n, ms, to, visited, path) ==
    IF ms = << >> THEN <<FALSE, visited, path>>
    ELSE IF Head(ms) \in visited THEN PathDfsAll(g, n, Tail(ms), to, visited, path)
    ELSE LET r == PathDfs(g, Head(ms), to, visited, Append(path, n))
         IN  IF r[1] THEN r ELSE PathDfsAll(g, n, Tail(ms), to, r[2], path)

\* The empty sequence stands for None.
PathBetween(g, from, to) ==
    LET r == PathDfs(g, from, to, {}, << >>) IN IF r[1] THEN r[3] ELSE << >>

-----------------------------------------------------------------------------
(* What they are meant to compute. *)

EdgeSet(g) == ToSet(g.edges)

Cyclic(g) ==
    \E S \in SUBSET g.nodes : S # {} /\ \A n \in S : \E p \in S : <<p, n>> \in EdgeSet(g)

Reaches(g, from, to) ==
    \A S \in SUBSET Id :
        (from \in S /\ \A e \in EdgeSet(g) : e[1] \in S \cap g.nodes => e[2] \in S) => to \in S

\* The two searches of the repository agree with each other and find a cycle
\* exactly when there is one, from whatever node they start.
SearchesFindCycles ==
    /\ SearchHasCycle(graph) = Cyclic(graph)
    /\ \A starts \in SetToSeqs(graph.nodes) : ResolverHasCycle(graph, starts) = Cyclic(graph)

\* Of a valid graph the order has every node once and after its predecessors;
\* a cycle shows in that nodes are missing.
OrderIsTopological ==
    LET order == TopologicalOrder(graph)
    IN  Validates(graph) =>
            /\ Len(order) = Cardinality(graph.nodes) /\ ToSet(order) = graph.nodes
            /\ \A i, j \in 1 .. Len(order) : <<order[i], order[j]>> \in EdgeSet(graph) => i < j

\* The waves of the planner have every node once, as early as its predecessors
\* allow: it has one in the wave before it and none in its own or a later one.
WavesAreEarliest ==
    LET ws == ExecutionOrder(graph)
        Wave(n) == {k \in 1 .. Len(ws) : n \in ToSet(ws[k])}
    IN  Validates(graph) =>
            /\ FlattenSeq(ws) \in SetToSeqs(graph.nodes)
            /\ \A e \in EdgeSet(graph) : \A i \in Wave(e[1]), j \in Wave(e[2]) : i < j
            /\ \A k \in 2 .. Len(ws) : \A n \in ToSet(ws[k]) :
                  \E p \in ToSet(ws[k - 1]) : <<p, n>> \in EdgeSet(graph)

\* A path is found whenever there is one, and what is found is one: along the
\* edges, and through no node twice, although a visited dead end is shared by
\* all the branches of the search.
PathsAreFound ==
    \A from, to \in Id :
        LET path == PathBetween(graph, from, to)
        IN  /\ path # << >> <=> Reaches(graph, from, to)
            /\ path # << >> =>
                  /\ path[1] = from /\ Last(path) = to /\ IsInjective(path)
                  /\ \A i \in 1 .. Len(path) - 1 : <<path[i], path[i + 1]>> \in EdgeSet(graph)

\* The searches of DAGManager and DependencyResolver compute what they are named for.
SearchesAreRight ==
    /\ SearchesFindCycles /\ OrderIsTopological /\ WavesAreEarliest
    /\ PathsAreFound
=============================================================================
