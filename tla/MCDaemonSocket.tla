--------------------------- MODULE MCDaemonSocket ---------------------------
EXTENDS DaemonSocket, TLC

Symmetry == Permutations(Procs)
=============================================================================
