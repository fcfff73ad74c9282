SPECIFICATION FairSpec
CONSTANTS
    Procs = {p1, p2, p3, p4}
    NoProc = NoProc
    StartupsOverlap = FALSE
    BacklogFull = FALSE
CHECK_DEADLOCK FALSE
INVARIANTS ServerReachable PidNamesOwner
PROPERTIES StartDecided
