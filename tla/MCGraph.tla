------------------------------ MODULE MCGraph ------------------------------
(* Instances of the three places where a workflow graph is changed or        *)
(* searched: a behaviour is about controllers that repair a run, about an    *)
(* editor of a DAGManager, or about one of the graphs the searches are asked *)
(* about, each of which is an initial state.                                 *)
EXTENDS DynamicRun, DagManager, GraphAlgorithms

CONSTANTS c1, c2, n1, n2, e1, e2

OneNode     == {"a"}
TwoNodes    == {"a", "b"}
NoEdges     == {}
Solo        == {c1}
Controllers == {c1, c2}
TwoIds      == {n1, n2}
TwoEdges    == {e1, e2}
Statuses    == {"pending", "running", "completed"}
ThreeIds    == {1, 2, 3}

NoGraph == [nodes |-> {}, edges |-> << >>]

VARIABLE side

gvars == <<vars, dvars, graph, side>>

GraphInit ==
    /\ Init /\ DagInit
    /\ \/ side \in {"repair", "edit"} /\ graph = NoGraph
       \/ side = "search" /\ graph \in Graphs

GraphNext ==
    \/ side = "repair" /\ Next /\ UNCHANGED <<dvars, graph, side>>
    \/ side = "edit" /\ DagNext /\ UNCHANGED <<vars, graph, side>>

GraphSpec == GraphInit /\ [][GraphNext]_gvars

\* The repair alone, with the fairness of FairSpec: ticks follow one another and go on.
RepairInit == side = "repair" /\ GraphInit
RepairSpec == RepairInit /\ [][GraphNext]_gvars /\ \A c \in Ctrl : WF_vars(CtrlStep(c))
=============================================================================
