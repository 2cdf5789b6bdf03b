----------------------------- MODULE MC_Resolver -----------------------------
EXTENDS Resolver, TLC

\* Queries run the same code.
MC_Symmetry == Permutations(Client)
=============================================================================
