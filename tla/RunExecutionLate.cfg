\* A callback after the run timeout, no poller and no fault.
SPECIFICATION Spec
CONSTANTS
    p1 = p1
    Pollers = {}
    MaxCallbacks = 1
    MaxPolls = 0
    MaxFaults = 0
INVARIANT
    NoUnhandledRejection
CHECK_DEADLOCK FALSE
