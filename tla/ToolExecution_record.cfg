SPECIFICATION ToolSpec
CONSTANTS
    r1 = r1  w1 = w1  w2 = w2
    open = open  gated = gated  closed = closed
    cmdA = cmdA  cmdB = cmdB
    Run = {r1}
    Node <- OneNode
    RunOf <- OneOf
    Edge = {}
    AgentNode = {}
    FixNode = {}
    Worker = {w1, w2}
    AgentWorker = {}
    CappedWorker = {}
    ApiWorker = {}
    Retries <- OneRetry
    GlobalCap = 1
    RunCap = 1
    NoClaim = NoClaim
    MaxRequeues = 2
    Policy = {open, gated, closed}
    AllowPolicy = {open, gated}
    ApprovalPolicy = {gated}
    Command <- SameCommand
    RecordedNode <- OneNode
    NoAuth = NoAuth
    NoPolicy = NoPolicy
INVARIANT
    ApprovalResolvable
CHECK_DEADLOCK FALSE
