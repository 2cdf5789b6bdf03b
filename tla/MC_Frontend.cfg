SPECIFICATION FairSpec
CONSTANTS
    Kinds = {"udp", "tcp", "dot", "doh", "h2"}
    Requests <- MCRequests
    Tokens = {"bare", "t1"}
    Gates <- MCGates
    MaxSends = 3
    MaxReloads = 1
    MAX_REQS_PER_CONN = 2
    MAX_HEADER = 4
    MAX_BODY = 2
    CHUNK = 3
    MAX_STREAMS = 2
    MAX_INFLIGHT = 1
    Threads = 3
    Listeners = {"a", "b"}
    Wrap = 2
    Me = "a"
INVARIANTS
    FramingHolds
    NoSilentDrop
    PermitsBalanced
PROPERTIES
    NothingLeftBehind
CHECK_DEADLOCK FALSE
