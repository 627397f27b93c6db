SPECIFICATION LockSpec
CONSTANTS
    Processes = {p1, p2, p3}
    Policies = {"task", "memory", "evolution", "shared", "daemon"}
    SlowWriters = TRUE
    MaxDeaths = 2
    MaxReaps = 1
    absent = absent
INVARIANTS LockTypeOK ExclusiveUntilCrash
PROPERTIES StaleRecovered
