SPECIFICATION Spec
CONSTANTS
    Procs = {p, q}
    Tokens = {t, u}
    None = None
INVARIANTS
    TypeOK
PROPERTIES
    ImplementsRegister
CHECK_DEADLOCK FALSE
