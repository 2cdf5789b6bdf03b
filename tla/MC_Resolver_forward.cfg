CONSTANTS
    Client = {c1, c2}
    Question = {"AAAA", "PTR", "PTR6"}
    Forwarded = {"AAAA", "PTR"}
    Iterative = FALSE
    Policy = "strip"
    Dns64 = {TRUE, FALSE}
    IN_FLIGHT_CAP = 4
    NoMutex = NoMutex
SYMMETRY MC_Symmetry
SPECIFICATION Spec
INVARIANTS
    VerdictGoverns
    SynthesisIsPerListener
