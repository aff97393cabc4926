SPECIFICATION FairSpec
CONSTANTS
    QueueDepth = 2
    BackoffBase = 1
    BackoffMax = 6
    CloseWait = 1
    RetryDelay = 2
    SlowServer = TRUE
    MaxSessions = 2
    MaxConns = 3
    MaxSends = 3
INVARIANTS
    TypeOK
    Accounted
    InOrder
PROPERTIES
    Settled
    RelayComesBack
