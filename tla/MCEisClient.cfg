SPECIFICATION Spec
CONSTANTS
    k = k
    p = p
    Interfaces <- KeyboardAndPointer
    NoDevice = NoDevice
    Inputs <- MoveAndScroll
    MaxEvents = 2
    MaxCalls = 2
INVARIANTS
    TypeOK
    ViewCatchesUp
    CallsKeepProtocol
    EveryCallActs
    PingsAnswered
PROPERTIES
    TreeSuffices
CHECK_DEADLOCK FALSE
