\* Two deployments: releases with missing, additional or edited migrations and differing
\* fixtures, or one with any of the odd scenarios; "beta" may be an operator's; one
\* failing statement; the first one starts a backend.
SPECIFICATION DeploymentSpec
CONSTANTS
    d1 = d1
    d2 = d2
    Deployments = {d1, d2}
    Servers = {d1}
    Slugs <- MCSlugs
    Releases <- MCReleases
    Applied <- MCApplied
    Foreign = {"beta"}
    Existing <- X
    MaxFaults = 1
INVARIANTS
    LocksPreventConflicts
    MigratedFilesApplied
    DoneMeansPublished
    PublishedIsExecutable
PROPERTIES
    HistoryOnlyGrows
    PreviewExact
    DeploymentsEnd
CHECK_DEADLOCK FALSE
