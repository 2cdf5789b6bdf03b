SPECIFICATION FairSpec
CONSTANTS
    Name <- MCName
    Ip = {"r4", "r6", "a4", "a6", "b4", "c4"}
    V6 = {"r6", "a6"}
    Question <- MCQuestion
    PrivateReverse <- MCPrivate
    World <- MCWorld
    Reply <- MCReply
    DefaultRoots = {"r4", "r6"}
    HintFiles <- MCFiles
    IPV6 = FALSE
    MaxDepth = 2
    MaxQueries = 5
    MaxCname = 2
    SubDepth = 2
    SubQueries = 3
    SubCname = 0
    MAX_NS_ATTEMPTS = 3
    NS_PARALLEL = 2
    MaxNest = 2
    MaxAsks = 2
    MaxExpiries = 1
    NoFile = NoFile
    NoEntry = NoEntry
INVARIANTS
    UpstreamsUsable
    NoOrphanWalk
    AnswerIsAChain
PROPERTIES
    WalkEnds
CHECK_DEADLOCK FALSE
