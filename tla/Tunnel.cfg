SPECIFICATION Spec
CONSTANTS
    a = a
    b = b
    home = home
    Nodes = {a, b}
    Addrs = {home}
    ConnectAddr = home
    WindowSize = 2
    DiffRange = 16
    SeqRange = 32
    RejectAfterTime = 1
    RekeyAfterTime = 0
    RekeyTimeout = 1
    KeepaliveInterval = 0
    RejectAfterMessages = 3
    RekeyAfterMessages = 2
    MaxDraws = 4
    MaxPayloads = 1
    MaxTime = 2
    MaxRestarts = 1
SYMMETRY NodeSymmetry
INVARIANTS
    TypeOK
    NonceNeverReused
    OneSlotPerSession
    ResponderConfirmed
    CurrentConfirmed
    OneReplayPerSession
    LinkUpWithSession
    InitiationAnsweredOnce
PROPERTY
    SessionSurvivesRekey
