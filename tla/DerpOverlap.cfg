SPECIFICATION Spec
CONSTANTS
    QueueDepth = 2
    BackoffBase = 5
    BackoffMax = 30
    CloseWait = 1
    RetryDelay = 10
    SlowServer = FALSE
    MaxSessions = 2
    MaxConns = 3
    MaxSends = 1
INVARIANT
    OneRecvTask
