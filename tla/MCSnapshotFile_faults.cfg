SPECIFICATION Spec
CONSTANTS
    Snapshots = {s1, s2, s3}
    empty = empty
    missing = missing
    Environments <- MCEnvironments
INVARIANTS TypeOK
PROPERTIES ImplementsSnapshot
