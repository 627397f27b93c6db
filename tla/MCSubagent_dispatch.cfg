SPECIFICATION Spec
CONSTANTS
    Dispatches = {d1, d2}
    root = root
    MaxDepth = 2
    MaxConcurrency = 2
    DefaultBudget = 0
    RunHistoryLimit = 1
    MaxFaults = 2
    MaxCancels = 1
    MaxCrashes = 1
INVARIANTS TypeOK JournalMatchesRegistry InterruptedIsDead
PROPERTIES AbortReaches SlotsReleased CancelShown
