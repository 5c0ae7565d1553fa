SPECIFICATION StatisticsSpec
CONSTANTS
    s1 = s1
    s2 = s2
    r0 = r0
    r1 = r1
    r2 = r2
    r3 = r3
    LastMonth = 2
    Length <- TwoMonths
    Stores = {s1, s2}
    Requests = {r0, r1, r2}
    Asks <- AsksTwice
    LastYear = 0
    MaxInFlight = 2
CHECK_DEADLOCK FALSE
INVARIANTS
    PaidOnce
