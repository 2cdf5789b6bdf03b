CONSTANTS
    Writer = {w1}
    Version = {a, b}
    Inode = {i1, i2, i3, i4}
    None = None
    Torn = Torn
    Blocks = 2
SYMMETRY MC_Symmetry
SPECIFICATION FileSpec
INVARIANTS
    ReadsAreWhole
PROPERTIES
    AtomicSpec
