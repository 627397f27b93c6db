SPECIFICATION Spec
CONSTANTS
    TaskIds <- MCTaskIds
    MissedRun <- MCMissedRun
    Overlap <- MCOverlap
    Every = 1
    MaxConcurrent = 2
    JournalRetention = 5
    MaxWindowsPerTick = 3
    Ticks = {t1}
    MaxTime = 3
    MaxStops = 1
    MaxFaults = 0
    MaxEdits = 2
CHECK_DEADLOCK FALSE
PROPERTIES RunSettles WindowBooked
