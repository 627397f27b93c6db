CONSTANTS
    Runners = {r1, r2, r3}
    Ids = {i1, i2, i3}
    Flights = {f1, f2}
    Ops = {o1, o2, o3}
    none = none
    MaxFaults = 1
    MaxWrites = 1
SPECIFICATION Spec
SYMMETRY Symmetry
CHECK_DEADLOCK FALSE
INVARIANTS RunsSerial
