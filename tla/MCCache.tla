------------------------------ MODULE MCCache ------------------------------
EXTENDS Cache, TLC

\* A Cache with no cap.
NoCap == -1

Perms == Permutations(Procs) \cup Permutations(Keys)
=============================================================================
