\* Two workers, one executor with one slot, one tree; two runs of which the turns
\* of one worker tick one, and two findings about the first; fair threads.
SPECIFICATION ControlSpec
CONSTANTS
    w1 = w1
    w2 = w2
    e1 = e1
    t1 = t1
    a1 = a1
    a2 = a2
    Worker = {w1, w2}
    Executor = {e1}
    Limit <- OneSlot
    TickLimit = 1
    Tree = {t1}
    NoExecutor = NoExecutor
    Poller = {w1}
    Runs = 2
    Artifact = {a1, a2}
    ScopeOf <- FirstRun
    Priority = {1, 2}
    TurnLimit = 1
    Work = 1
    MaxRequests = 1
INVARIANTS
    ControlIsSound
    PausesAreKept
PROPERTIES
    SwitchesAreObeyed
    ControlTakesEffect
    AdoptedIsLeftAlone
    RunsAreReached
