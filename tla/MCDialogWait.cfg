SPECIFICATION FairSpec
CONSTANTS
    Clients = {c, l}
    Cli = {c}
    Calls = 2
    MaxRequests <- RequestBound
CONSTRAINT OneAtLength
INVARIANTS
    TypeOK
    AtMostOnce
    AnswersOwn
    CutNeverServed
    NoAnswerMissing
    CommandTruth
PROPERTIES
    Served
CHECK_DEADLOCK FALSE
