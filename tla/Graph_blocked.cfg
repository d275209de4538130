\* One controller that may die between two of its writes.
SPECIFICATION RepairSpec
CONSTANTS
    c1 = c1
    c2 = c2
    n1 = n1
    n2 = n2
    e1 = e1
    e2 = e2
    Base <- TwoNodes
    BaseEdge <- NoEdges
    Ctrl <- Solo
    MaxTicks = 4
    MaxMutations = 6
    MaxNodes = 6
    Pg = FALSE
    Faulty = TRUE
    MaxAttempts = 1
    Node <- TwoIds
    Edge <- TwoEdges
    Status <- Statuses
    MaxVersion = 1
    Id <- ThreeIds
    MaxEdges = 0
INVARIANTS
    FixNotBlocked
CHECK_DEADLOCK FALSE
