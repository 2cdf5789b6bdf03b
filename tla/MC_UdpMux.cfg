CONSTANTS
    q1 = q1
    q2 = q2
    q3 = q3
    p1 = p1
    p2 = p2
    n1 = n1
    n2 = n2
    Query = {q1, q2, q3}
    Asks <- MC_Asks
    Servers <- MC_TwoServers
    Txid = {1}
    NoQuery = NoQuery
    Empty = Empty
    Closed = Closed
SPECIFICATION FairMuxSpec
INVARIANTS
    SlotNotWedged
    StrayAnswersAreStale
PROPERTIES
    EveryQueryEnds
CHECK_DEADLOCK FALSE
