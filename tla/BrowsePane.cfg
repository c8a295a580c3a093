SPECIFICATION FairSpec
CONSTANTS
    Scenarios = {1, 2}
    NameRank <- MCNameRank
    Matching <- MCMatching
    Queries <- MCQueries
    Trim <- MCTrim
    Links <- MCLinks
    Reports <- MCReports
    MaxClicks = 3
INVARIANTS PreviewMatchesChoice AddressAndChoiceAgree SelectionVisible ComparisonAddsUp
PROPERTIES ComesToRest
CHECK_DEADLOCK FALSE
