CONSTANTS
    plain = plain
    onion1 = onion1
    onion2 = onion2
    Task = {t1, t2}
    Domain = {plain, onion1, onion2}
    Via <- MC_Via
    Stream = {s1, s2, s3}
    NoStream = NoStream
    NoUser = NoUser
    IDLE_CAP = 1
    MAX_LIFETIME = 2
    MAX_PER_KEY = 1
    MaxTime = 2
SPECIFICATION FairPoolSpec
INVARIANTS
    CircuitIsolation
    ExclusiveUse
PROPERTIES
    FailureIsUpstreams
    ExchangeEnds
