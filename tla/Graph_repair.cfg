\* Two controllers that die and lose leases, next to an editor of two nodes and two
\* edges and to every graph of three ids and up to four edges.
SPECIFICATION GraphSpec
CONSTANTS
    c1 = c1
    c2 = c2
    n1 = n1
    n2 = n2
    e1 = e1
    e2 = e2
    Base <- OneNode
    BaseEdge <- NoEdges
    Ctrl <- Controllers
    MaxTicks = 3
    MaxMutations = 6
    MaxNodes = 4
    Pg = FALSE
    Faulty = TRUE
    MaxAttempts = 2
    Node <- TwoIds
    Edge <- TwoEdges
    Status <- Statuses
    MaxVersion = 6
    Id <- ThreeIds
    MaxEdges = 4
INVARIANTS
    RepairIsSound
    GraphStaysUsable
    SearchesAreRight
PROPERTIES
    RowsAreNotReplaced
    SettledIsFinal
    RollbackRestores
CHECK_DEADLOCK FALSE
