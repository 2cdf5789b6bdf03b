CONSTANTS
    k1 = k1
    k2 = k2
    k3 = k3
    zsk = zsk
    Key = {k1, k2, k3}
    Sep = {k1, k2, k3}
    Embedded = {k1, k2}
    Task = {t1}
    NoTask = NoTask
    HoldDown = 2
    MaxTime = 3
    MaxCrash = 1
    RootMove <- MC_OneRevokedOneAdded
    OperatorFiles <- MC_NoOperator
SPECIFICATION FairSpec
PROPERTIES
    RevocationTakesEffect
    HoldDownCompletes
