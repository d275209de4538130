----------------------------- MODULE DagManager -----------------------------
(***************************************************************************)
(* DAGManager (workflow/dag_manager): the graph of a workflow in memory.   *)
(* Every mutation is checked against the graph it is applied to, produces  *)
(* a graph of the next version, and pushes the old one on the history that *)
(* rollback pops.  The graph is what the planner orders, what the dynamic  *)
(* controller's batches are checked against, and what nodes_ready is asked *)
(* for work, so it must stay acyclic whatever sequence of mutations,       *)
(* refusals and rollbacks leads to it.                                     *)
(***************************************************************************)
EXTENDS Integers, Sequences

CONSTANTS
    Node,           \* node ids
    Edge,           \* edge ids
    Status,         \* node statuses
    MaxVersion      \* bound: mutations on top of one another

ASSUME DagAssumption ==
    /\ {"pending", "running", "completed"} \subseteq Status
    /\ MaxVersion \in Nat

VARIABLES
    dag,            \* DAGState: version, status of each node, ends of each edge
    history         \* the graphs below the current one

dvars == <<dag, history>>

IsGraph(g) ==
    /\ g = [version |-> g.version, node |-> g.node, edge |-> g.edge]
    /\ g.version \in Nat
    /\ DOMAIN g.node \subseteq Node /\ g.node \in [DOMAIN g.node -> Status]
    /\ DOMAIN g.edge \subseteq Edge /\ g.edge \in [DOMAIN g.edge -> Node \X Node]

DagInit ==
    /\ dag = [version |-> 0, node |-> << >>, edge |-> << >>]
    /\ history = << >>

-----------------------------------------------------------------------------
(* Reading a graph. *)

Preds(g, n) == {g.edge[e][1] : e \in {x \in DOMAIN g.edge : g.edge[x][2] = n}}

\* has_cycle: a set of nodes each of which has a predecessor in the set.  That
\* the depth-first search computes this is checked in GraphAlgorithms.
HasCycle(g) ==
    \E S \in SUBSET DOMAIN g.node : S # {} /\ \A n \in S : Preds(g, n) \cap S # {}

NodesReady(g, completed) ==
    {n \in DOMAIN g.node : /\ n \notin completed
                           /\ g.node[n] = "pending"
                           /\ Preds(g, n) \subseteq completed}

-----------------------------------------------------------------------------
(* apply_mutation: approval, then the checks of the mutation, then version  *)
(* and history.  A proposal that needs approval, because it says so or      *)
(* because of what it touches, is refused whatever its status is; a refusal *)
(* leaves graph and history as they are.                                    *)

Put(f, k, v) == [x \in DOMAIN f \cup {k} |-> IF x = k THEN v ELSE f[x]]
Drop(f, k)   == [x \in DOMAIN f \ {k} |-> f[x]]

Commit(nodes, edges) ==
    /\ dag.version < MaxVersion
    /\ dag' = [version |-> dag.version + 1, node |-> nodes, edge |-> edges]
    /\ history' = Append(history, dag)

\* requires_approval for the mutations that may need it unasked.
RemovalNeedsApproval(n) == n \in DOMAIN dag.node /\ dag.node[n] \in {"running", "completed"}
RewireNeedsApproval(e)  ==
    /\ e \in DOMAIN dag.edge
    /\ dag.edge[e][1] \in DOMAIN dag.node
    /\ dag.node[dag.edge[e][1]] = "completed"

AddNode(n, st) ==
    /\ n \notin DOMAIN dag.node
    /\ Commit(Put(dag.node, n, st), dag.edge)

RemoveNode(n) ==
    /\ n \in DOMAIN dag.node
    /\ ~ RemovalNeedsApproval(n)
    /\ \A e \in DOMAIN dag.edge : n \notin {dag.edge[e][1], dag.edge[e][2]}
    /\ Commit(Drop(dag.node, n), dag.edge)

AddEdge(e, f, t) ==
    LET new == Put(dag.edge, e, <<f, t>>)
    IN  /\ {f, t} \subseteq DOMAIN dag.node
        /\ e \notin DOMAIN dag.edge
        /\ ~ HasCycle([dag EXCEPT !.edge = new])
        /\ Commit(dag.node, new)

RemoveEdge(e) ==
    /\ e \in DOMAIN dag.edge
    /\ Commit(dag.node, Drop(dag.edge, e))

\* Mutant: the old graph, not the rewired one, is searched for a cycle.
RewireEdgeUnchecked(e, f, t) ==
    /\ e \in DOMAIN dag.edge
    /\ ~ RewireNeedsApproval(e)
    /\ {f, t} \subseteq DOMAIN dag.node
    /\ ~ HasCycle(dag)
    /\ Commit(dag.node, Put(dag.edge, e, <<f, t>>))

\* A missing end in the payload is the present one.
RewireEdge(e, f, t) ==
    LET new == Put(dag.edge, e, <<f, t>>)
    IN  /\ e \in DOMAIN dag.edge
        /\ ~ RewireNeedsApproval(e)
        /\ {f, t} \subseteq DOMAIN dag.node
        /\ ~ HasCycle([dag EXCEPT !.edge = new])
        /\ Commit(dag.node, new)

UpdateNode(n, st) ==
    /\ n \in DOMAIN dag.node
    /\ Commit(Put(dag.node, n, st), dag.edge)

\* Mutant: nodes keep the status they have reached.
RollbackKeepingStatus(v) ==
    LET fits == {i \in 1 .. Len(history) : history[i].version <= v}
        i == IF fits = {} THEN 1 ELSE CHOOSE x \in fits : \A y \in fits : y <= x
    IN  /\ dag.version > v
        /\ history # << >>
        /\ dag' = [history[i] EXCEPT !.node =
                      [n \in DOMAIN @ |-> IF n \in DOMAIN dag.node THEN dag.node[n] ELSE @[n]]]
        /\ history' = SubSeq(history, 1, i - 1)

\* rollback pops until the version is low enough or nothing is left.
Rollback(v) ==
    LET fits == {i \in 1 .. Len(history) : history[i].version <= v}
        i == IF fits = {} THEN 1 ELSE CHOOSE x \in fits : \A y \in fits : y <= x
    IN  /\ dag.version > v
        /\ history # << >>
        /\ dag' = history[i]
        /\ history' = SubSeq(history, 1, i - 1)

DagNext ==
    \/ \E n \in Node, st \in Status : AddNode(n, st) \/ UpdateNode(n, st)
    \/ \E n \in Node : RemoveNode(n)
    \/ \E e \in Edge, f, t \in Node : AddEdge(e, f, t) \/ RewireEdge(e, f, t)
    \/ \E e \in Edge : RemoveEdge(e)
    \/ \E v \in -1 .. MaxVersion : Rollback(v)

DagSpec == DagInit /\ [][DagNext]_dvars

-----------------------------------------------------------------------------
(* Properties. *)

\* The graph and every graph rollback may return to are well formed.
DagTypeOK ==
    /\ IsGraph(dag)
    /\ DOMAIN history = 1 .. Len(history) /\ \A i \in 1 .. Len(history) : IsGraph(history[i])

\* validate_dag never has anything to say, neither of the current graph nor of
\* one that rollback brings back: the ends of every edge exist and there is no
\* cycle, whatever was added, rewired, removed and rolled back before.
Valid(g) ==
    /\ \A e \in DOMAIN g.edge : {g.edge[e][1], g.edge[e][2]} \subseteq DOMAIN g.node
    /\ ~ HasCycle(g)

GraphsAreValid == Valid(dag) /\ \A i \in 1 .. Len(history) : Valid(history[i])

\* Execution by nodes_ready never gets stuck: as long as a node is not
\* completed and every such node is pending, some node is ready.
ReadyProgress ==
    \A C \in SUBSET DOMAIN dag.node :
        (C # DOMAIN dag.node /\ \A n \in DOMAIN dag.node \ C : dag.node[n] = "pending")
            => NodesReady(dag, C) # {}

\* The history holds one graph per version, so a version names one graph.
HistoryIsChain ==
    /\ Len(history) = dag.version
    /\ \A i \in 1 .. Len(history) : history[i].version = i - 1

\* A rollback goes back to the graph that had the version it arrives at and
\* leaves the history as it was then.
RollbackRestores ==
    [][dag'.version < dag.version =>
          /\ dag' = history[dag'.version + 1]
          /\ history' = SubSeq(history, 1, dag'.version)]_dvars

\* Mutations and rollbacks in any order leave a valid graph that can be executed, and a
\* history that leads to it.
GraphStaysUsable == DagTypeOK /\ GraphsAreValid /\ ReadyProgress /\ HistoryIsChain
=============================================================================
