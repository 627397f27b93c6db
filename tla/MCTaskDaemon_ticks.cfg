SPECIFICATION Spec
CONSTANTS
    TaskIds <- OneTaskId
    MissedRun <- OneMissedRun
    Overlap <- OneOverlap
    Every = 1
    MaxConcurrent = 1
    JournalRetention = 2
    MaxWindowsPerTick = 3
    Ticks = {t1, t2}
    MaxTime = 3
    MaxStops = 1
    MaxFaults = 1
    MaxEdits = 3
CONSTRAINT Bounded
SYMMETRY TickSymmetry
CHECK_DEADLOCK FALSE
INVARIANTS TypeOK WindowRunsOnce NoOverlap
PROPERTIES DueWindowsBooked
