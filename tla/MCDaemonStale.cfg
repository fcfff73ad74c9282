SPECIFICATION FairSpec
CONSTANTS
    Sessions = {s1, s2}
    NoSession = NoSession
    Fds = {f1, f2}
    NoFd = NoFd
    MaxFlows = 2
    Stale = {"closed", "reply"}
    AutoStart = FALSE
    Transport = "default"
CHECK_DEADLOCK FALSE
INVARIANTS TypeOK StartedUsable NeverWedged HasTokenTruthful
PROPERTY StartingEnds
