SPECIFICATION FairSpec
CONSTANTS
    MaxDepth = 1
    MaxRetries = 1
    TreeBudget = 4
    ChildBudget = 2
    Usages <- Steps
    FixtureUsage = 1
    MaxPauses = 1
INVARIANTS
    AccountsAgree
PROPERTIES
    EndedStaysEnded
    RunEnds
CHECK_DEADLOCK FALSE
