SPECIFICATION Spec
CONSTANTS
    Providers = {p1}
    none = none
    KeepRecent = 1
    Budget = 4
    CompactionThreshold = 85
    TargetRatio = 25
    MaxToolLoopsPerTurn = 3
    ToolCallMax = 3
    TokenMax = 2
    TaskRun = TRUE
    MaxTurns = 2
    MaxParallel = 2
    MaxInterrupts = 0
    MaxFaults = 1
    MaxThrows = 0
    MaxCrashes = 1
INVARIANTS RequestPaired TurnJournal IdleIsSettled
