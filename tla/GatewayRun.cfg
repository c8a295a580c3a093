\* Four accounts, three workers, two attempts each; four scenarios, one retry per
\* request, three failing requests, aborts and timeouts at any moment.
SPECIFICATION RunSpec
CONSTANTS
    Accounts <- MCAccounts
    Concurrency = 3
    MaxAttempts = 2
    Scenarios <- MCScenarios
    Rejections <- MCRejections
    MaxRetries = 1
    MaxFaults = 3
INVARIANTS
    LedgerFollowsScenario
    ReportIsTrue
    RetryAdviceIsHonest
    FundingIsTrue
    NothingBeforeFunding
PROPERTIES
    KeepsPromise
    EverythingSettles
CHECK_DEADLOCK FALSE
