SPECIFICATION FairSpec
CONSTANTS
    a = a
    b = b
    a1 = a1
    a2 = a2
    b1 = b1
    Nodes = {a, b}
    Addrs = {a1, a2}
    NoNode = NoNode
    NoAddr = NoAddr
    VirtualAddr = VirtualAddr
    HostOf <- MCHosts
    HomesOf <- MCHomes
    MapLists <- Changes
    MaxPeers = 2
    MaxEndpoints = 1
    RelayTrust = 1
    DirectTrust = 2
    MaxMaps = 2
INVARIANTS
    TypeOK
    SyncedReachesOwner
    DirectPathEarned
PROPERTIES
    NoFlapping
    DeadPathLeft
    RelayAnswersRelay
