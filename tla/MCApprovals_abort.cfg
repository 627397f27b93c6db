CONSTANTS
    Runners = {r1, r2}
    Sessions = {s1}
    Calls = {c1}
    Keys = {k1}
    Gen <- MCGen
    FileKeys = {}
    McpKeys = {}
    HiddenKeys = {}
    LoadedDenies = {}
    Answers = {"once", "deny"}
    none = none
    ModeChoices = {"auto"}
    MaxTurns = 1
    MaxAsides = 0
    MaxFaults = 0
SPECIFICATION Spec
CHECK_DEADLOCK FALSE
PROPERTY AbortSettles
