\* Two clients with a quota of one run and one other request per window, room for two of
\* their four buckets and for one idempotency entry; windows of two ticks of half a second.
SPECIFICATION ApiSpec
CONSTANTS
    k1 = k1
    k2 = k2
    b1 = b1
    b2 = b2
    c1 = c1
    c2 = c2
    NoKey = NoKey
    MaxRequests = 3
    Keys = {k1, k2}
    Bodies = {b1, b2}
    MaxEntries = 1
    RetentionMs = 2
    MaxConcurrentRuns = 1
    MaxTime = 3
    Clients = {c1, c2}
    RunRateLimitMax = 1
    RateLimitMax = 1
    WindowMs = 2
    MaxKeys = 2
    TicksPerSecond = 2
    MaxConsumed = 3
INVARIANTS
    OneStartPerKey
    SameKeySameAnswer
    QuotaHolds
    RetryAfterHonest
SYMMETRY MCSymmetry
CHECK_DEADLOCK FALSE
