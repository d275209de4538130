\* One run of four nodes, a retrying and a non-retrying caller.
SPECIFICATION Spec
CONSTANTS
    r1 = r1
    r2 = r2
    w1 = w1
    w2 = w2
    w3 = w3
    Run = {r1}
    Node <- OneRunNode
    RunOf <- OneRunOf
    Edge <- OneRunEdge
    AgentNode = {3}
    FixNode = {4}
    Worker = {w1, w2}
    AgentWorker = {w2}
    CappedWorker = {w2}
    ApiWorker = {}
    Retries <- OneRetry
    GlobalCap = 1
    RunCap = 1
    NoClaim = NoClaim
    MaxRequeues = 1
INVARIANTS
    TypeOK
    LeasesAreFenced
    GraphIsRespected
PROPERTIES
    DoneIsFinal
CHECK_DEADLOCK FALSE
