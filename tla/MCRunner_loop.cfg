SPECIFICATION Spec
CONSTANTS
    Providers = {p1, p2}
    none = none
    KeepRecent = 20
    Budget = 100
    CompactionThreshold = 85
    TargetRatio = 60
    MaxToolLoopsPerTurn = 2
    ToolCallMax = 2
    TokenMax = 2
    TaskRun = FALSE
    MaxTurns = 2
    MaxParallel = 2
    MaxInterrupts = 1
    MaxFaults = 0
    MaxThrows = 1
    MaxCrashes = 1
INVARIANTS TypeOK RequestPaired NoToolOutlivesTurn ReplayFollows
PROPERTIES TurnTerminates InterruptSettles
