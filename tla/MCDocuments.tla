----------------------------- MODULE MCDocuments -----------------------------
EXTENDS Documents, TLC

Symmetry == Permutations(Requests) \union Permutations(Tasks)
=============================================================================
