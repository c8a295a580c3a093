\* One run more may execute than the store can hold.
SPECIFICATION Spec
CONSTANTS
    r1 = r1
    r2 = r2
    r3 = r3
    r4 = r4
    Runs <- MCRuns
    MaxEntries = 2
    RetentionMs = 2
    MaxConcurrentRuns = 3
    MaxTime = 4
SYMMETRY RunSymmetry
INVARIANTS
    ActiveRunsKept
PROPERTIES
    RoomIsMadeRightly
CHECK_DEADLOCK FALSE
