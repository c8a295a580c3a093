\* One GET beside the run, no fault: the store contradicts its own conflict message.
SPECIFICATION Spec
CONSTANTS
    p1 = p1
    Pollers = {p1}
    MaxCallbacks = 1
    MaxPolls = 1
    MaxFaults = 0
INVARIANT
    ConflictMeansOtherWriter
CHECK_DEADLOCK FALSE
