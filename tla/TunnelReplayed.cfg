SPECIFICATION Spec
CONSTANTS
    a = a
    b = b
    home = home
    Nodes = {a, b}
    Addrs = {home}
    ConnectAddr = home
    WindowSize = 2
    DiffRange = 16
    SeqRange = 32
    RejectAfterTime = 2
    RekeyAfterTime = 0
    RekeyTimeout = 0
    KeepaliveInterval = 0
    RejectAfterMessages = 3
    RekeyAfterMessages = 2
    MaxDraws = 2
    MaxPayloads = 1
    MaxTime = 1
    MaxRestarts = 0
SYMMETRY NodeSymmetry
INVARIANT
    NeverDeliveredTwice
