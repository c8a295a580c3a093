\* Everything at once: a poller, a query that fails or whose answer is lost, two results,
\* on time or late.
SPECIFICATION Spec
CONSTANTS
    p1 = p1
    Pollers = {p1}
    MaxCallbacks = 2
    MaxPolls = 1
    MaxFaults = 1
INVARIANTS
    NoEvidenceLost
    PassedIsEarned
PROPERTIES
    WritesReplaceWhatTheyRead
    ReportsOnlyGrow
    EndsAndReports
CHECK_DEADLOCK FALSE
