--------------------------- MODULE MC_AtomicWrite ---------------------------
EXTENDS AtomicWrite, TLC

\* Inodes are interchangeable, and so are versions.
MC_Symmetry == Permutations(Inode) \cup Permutations(Version)
=============================================================================
