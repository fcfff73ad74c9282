SPECIFICATION Spec
CONSTANTS
    Procs = {p1, p2, p3}
    NoProc = NoProc
    StartupsOverlap = TRUE
    BacklogFull = FALSE
SYMMETRY Symmetry
CHECK_DEADLOCK FALSE
INVARIANT SingleServer
