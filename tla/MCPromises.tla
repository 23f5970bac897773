----------------------------- MODULE MCPromises -----------------------------
EXTENDS SupervisionPromises, TLC

Symmetry == Permutations(Tasks) \cup Permutations(Sups)

=============================================================================
