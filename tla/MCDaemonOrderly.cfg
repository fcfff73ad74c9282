SPECIFICATION Spec
CONSTANTS
    Sessions = {s1, s2, s3}
    NoSession = NoSession
    Fds = {f1, f2}
    NoFd = NoFd
    MaxFlows = 3
    Stale = {}
    AutoStart = TRUE
    Transport = "default"
CHECK_DEADLOCK FALSE
SYMMETRY Symmetry
INVARIANTS SingleFlow TransportOfSession OpenIsGranted
PROPERTY ImplementsConsentGate
