CONSTANTS
    MaxConns = 2
    MaxStarts = 2
    MaxStops = 1
    MaxRpcs = 1
    Actives = {a}
    nil = nil
    peer = peer
    MaxFaults = 1
    MaxChanges = 2
SPECIFICATION Spec
CHECK_DEADLOCK FALSE
INVARIANTS TypeOK ClientsFollow SnapshotFollows
PROPERTIES LinkComesOnline
