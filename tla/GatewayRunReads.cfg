\* No fault at all: a scenario with a ledger-reading assertion is rejected all the same.
SPECIFICATION RunSpec
CONSTANTS
    Accounts <- MCAccounts
    Concurrency = 2
    MaxAttempts = 1
    Scenarios <- MCScenarios
    Rejections <- MCRejections
    MaxRetries = 1
    MaxFaults = 0
INVARIANT
    ReadsAreAnswered
CHECK_DEADLOCK FALSE
