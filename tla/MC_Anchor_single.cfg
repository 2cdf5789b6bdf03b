CONSTANTS
    k1 = k1
    k2 = k2
    k3 = k3
    zsk = zsk
    Key = {k1, k2, zsk}
    Sep = {k1, k2}
    Embedded = {k1}
    Task = {t1}
    NoTask = NoTask
    HoldDown = 2
    MaxTime = 4
    MaxCrash = 1
    RootMove <- MC_Rollover
    OperatorFiles <- MC_OperatorKeepsK1
SPECIFICATION Spec
INVARIANTS
    AnchorInv
PROPERTIES
    RevocationSticks
    RemovalNeedsRevoke
