\* Four requests, two units of capacity: the limit is reached, exceeded and freed. No
\* symmetry, because of the liveness properties.
SPECIFICATION Spec
CONSTANTS
    r1 = r1
    r2 = r2
    r3 = r3
    r4 = r4
    Runs <- MCRuns
    MaxConcurrentRuns = 2
INVARIANTS
    CountersExact
    OrderlyClose
PROPERTIES
    ImplementsGate
    AdmittedRunsSettle
CHECK_DEADLOCK FALSE
