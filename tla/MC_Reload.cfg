CONSTANTS
    v1 = v1
    v2 = v2
    v3 = v3
    v4 = v4
    a1 = a1
    a2 = a2
    p1 = p1
    p2 = p2
    Config = {v1, v2, v3, v4}
    Listeners <- MC_Listeners
    BadForwarders = {v4}
    First = v1
    Addr = {a1, a2}
    Peer = {p1, p2}
    Conn = {c1}
    Cell = {1, 2, 3, 4}
    Nothing = Nothing
    MaxEdits = 2
SPECIFICATION FairReloadSpec
INVARIANTS
    ListenersMatchHandler
    NoOrphanSocket
PROPERTIES
    OutsidersAreBooted
    LastEditIsApplied
