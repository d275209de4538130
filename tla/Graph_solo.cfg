\* One controller that does not die, on PostgreSQL; fair.
SPECIFICATION RepairSpec
CONSTANTS
    c1 = c1
    c2 = c2
    n1 = n1
    n2 = n2
    e1 = e1
    e2 = e2
    Base <- TwoNodes
    BaseEdge <- NoEdges
    Ctrl <- Solo
    MaxTicks = 12
    MaxMutations = 9
    MaxNodes = 6
    Pg = TRUE
    Faulty = FALSE
    MaxAttempts = 2
    Node <- TwoIds
    Edge <- TwoEdges
    Status <- Statuses
    MaxVersion = 1
    Id <- ThreeIds
    MaxEdges = 0
PROPERTIES
    RunEnds
CHECK_DEADLOCK FALSE
