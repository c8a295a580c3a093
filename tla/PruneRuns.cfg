\* Four runs, two operators, batches of two, two failing statements.
SPECIFICATION PruneSpec
CONSTANTS
    r1 = r1
    r2 = r2
    r3 = r3
    r4 = r4
    o1 = o1
    o2 = o2
    RunRows = {r1, r2, r3, r4}
    Operators = {o1, o2}
    Limit = 2
    MaxFaults = 2
INVARIANTS
    DeletionsAccounted
PROPERTY
    PrunesEnd
CHECK_DEADLOCK FALSE
