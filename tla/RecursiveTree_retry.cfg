SPECIFICATION Spec
CONSTANTS
    MaxDepth = 1
    MaxRetries = 1
    TreeBudget = 4
    ChildBudget = 2
    Usages <- Steps
    FixtureUsage = 1
    MaxPauses = 0
INVARIANT RetryIsQueued
CHECK_DEADLOCK FALSE
