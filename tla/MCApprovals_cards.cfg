CONSTANTS
    Runners = {r1, r2}
    Sessions = {s1}
    Calls = {c1, c2}
    Keys = {k1}
    Gen <- MCGen
    FileKeys = {k1}
    McpKeys = {k1}
    HiddenKeys = {}
    LoadedDenies = {k1}
    Answers = {"allSession", "forever", "denyForever", "mcpServer"}
    none = none
    ModeChoices = {"auto"}
    MaxTurns = 2
    MaxAsides = 1
    MaxFaults = 1
SPECIFICATION Spec
CHECK_DEADLOCK FALSE
INVARIANTS TypeOK NoZombieCard DiskFollows
PROPERTIES EscalationHolds RequestSettles
