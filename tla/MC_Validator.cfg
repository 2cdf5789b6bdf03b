SPECIFICATION Spec
CONSTANTS
    Job = {j1, j2}
    Scene <- MCScene
    KeyTtl = 5
    DsTtl <- MCDsTtl
    NEGATIVE_TTL = 1
    MIN_POSITIVE_TTL = 1
    MAX_POSITIVE_TTL = 3
    POSITIVE_CACHE_CAP = 2
    NEGATIVE_CACHE_CAP = 1
    DELEGATION_CACHE_TTL_CAP = 2
    None = None
INVARIANTS
    VerdictIsRight
    OnlyProvenLinksCached
    RevokedAnchorForgotten
    ChainIsComplete
SYMMETRY Symmetry
CHECK_DEADLOCK FALSE
