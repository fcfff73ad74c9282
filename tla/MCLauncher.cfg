SPECIFICATION LaunchSpec
CONSTANTS
    Procs = {p1, p2, p3}
    NoProc = NoProc
    StartupsOverlap = TRUE
    BacklogFull = FALSE
    r = r
    k = k
    Commands = {r, k}
    MaxKills = 1
    Kind <- RestartAndConnect
INVARIANTS
    LaunchTypeOK
PROPERTIES
    Settles
    RestartNotRefused
CHECK_DEADLOCK FALSE
