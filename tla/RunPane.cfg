SPECIFICATION FairSpec
CONSTANTS
    Linked = 1
    Launched = {2}
    Exhausted = 2
    MaxFlips = 1
INVARIANTS PollingArmed OneRequestOfAKind
PROPERTIES ShownNeverGoesBack ReachesTerminal
CHECK_DEADLOCK FALSE
