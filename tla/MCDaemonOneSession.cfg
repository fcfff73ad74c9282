SPECIFICATION Spec
CONSTANTS
    Sessions = {s1, s2}
    NoSession = NoSession
    Fds = {f1, f2}
    NoFd = NoFd
    MaxFlows = 2
    Stale = {}
    AutoStart = TRUE
    Transport = "default"
CHECK_DEADLOCK FALSE
INVARIANT OneSession
