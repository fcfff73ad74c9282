------------------------------ MODULE MCDaemon ------------------------------
EXTENDS DaemonProperties, TLC

\* Session handles are interchangeable, and so are descriptor numbers.
Symmetry == Permutations(Sessions) \cup Permutations(Fds)
=============================================================================
