CONSTANTS
    Client = {c1, c2}
    Question = {"A", "AAAA"}
    Forwarded = {}
    Iterative = TRUE
    Policy = "validate"
    Dns64 = {TRUE, FALSE}
    IN_FLIGHT_CAP = 2
    NoMutex = NoMutex
SPECIFICATION FairSpec
INVARIANTS
    VerdictGoverns
    OneUpstreamPerQuestion
PROPERTIES
    NoRepeatedWalk
    EveryQueryAnswered
