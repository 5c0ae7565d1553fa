SPECIFICATION FairSpec
CONSTANTS
    c1 = c1
    c2 = c2
    Calls = {c1, c2}
    Asks <- AsksAny
    MaxCrashes = 2
CHECK_DEADLOCK FALSE
INVARIANTS
    TypeOK
    BegunOnce
    AnswerIsLast
PROPERTIES
    AnsweredOrLost
