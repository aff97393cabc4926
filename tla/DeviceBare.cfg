SPECIFICATION Spec
CONSTANTS
    Identities = {k1, k2}
    Erased = erased
    Garbage = garbage
    MaxSessions = 2
    RecvTimeout = 2
    QueueDepth = 2
    MaxItems = 3
    MaxDevices = 2
    StartDelay = 1
    StunWait = 3
    RetryDelay = 4
    MaxFailures = 2
INVARIANT
    BareTableReleased
CHECK_DEADLOCK FALSE
