\* Two runs that compete for the agent-step caps; fair callers, one of them the
\* supervised-patch API owner.
SPECIFICATION FairSpec
CONSTANTS
    r1 = r1
    r2 = r2
    w1 = w1
    w2 = w2
    w3 = w3
    Run = {r1, r2}
    Node <- TwoRunNode
    RunOf <- TwoRunOf
    Edge = {}
    AgentNode = {1, 2, 3}
    FixNode = {}
    Worker = {w1, w2, w3}
    AgentWorker = {w1, w2}
    CappedWorker = {w1, w2, w3}
    ApiWorker = {w3}
    Retries <- NoRetry
    GlobalCap = 2
    RunCap = 1
    NoClaim = NoClaim
    MaxRequeues = 1
INVARIANTS
    AgentCaps
PROPERTIES
    RunsProgress
CHECK_DEADLOCK FALSE
