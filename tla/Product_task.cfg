\* Two calls of each kind, two faults, one death, one stage with two leases,
\* three posts through the gateway, two files; fair calls that are repeated.
SPECIFICATION ProductSpec
CONSTANTS
    c1 = c1
    c2 = c2
    p1 = p1
    p2 = p2
    p3 = p3
    Caller = {c1, c2}
    Intakes <- EveryIntake
    MaxFaults = 2
    None = None
    Stages = 1
    Writer = 1
    Closer = {c1, c2}
    Reviewer = {p1, p2}
    Executor = {p1}
    Confirmer = {p1, p2, p3}
    Owner = p2
    Nobody = Nobody
    Ceiling = 1
    MaxLeases = 2
    MaxStops = 1
    Handover = FALSE
    MaxRequests = 3
    MaxRetries = 2
    MaxTokens = 4
    MaxInput = 1
    MaxOutput = 1
    Bodies = {1}
    MaxStarts = 2
    MaxRefused = 1
    MaxLost = 1
    Operator = {c1, c2}
    OutputIntents <- EveryIntent
    MaxDeaths = 1
    Files = 2
    StemsOf <- SomeStems
INVARIANTS
    WorkspaceIsAttributed
    StageIsSound
    GatewayIsSound
    OutputIsSound
    FolderIsSound
PROPERTIES
    OutcomesAreFinal
    PreparationEnds
    AttemptIsFinal
    AttemptEnds
    UnknownBlocks
    OutputEnds
    EditsSurvive
CHECK_DEADLOCK FALSE
