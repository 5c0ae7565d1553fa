SPECIFICATION Spec
CONSTANTS
    r1 = r1
    r2 = r2
    search = search
    january = january
    may = may
    stores = stores
    incomeJanuary = incomeJanuary
    incomeMay = incomeMay
    Queries = {stores, incomeJanuary, incomeMay}
    v1 = v1
    v2 = v2
    Values = {v1, v2}
    Failed = Failed
    Args = {search, january, may}
    Runs <- RunsOf
    Key <- KeyOf
    Swallows = {search}
    Requests = {r1, r2}
    TTL = 1
    MaxTime = 3
    MaxEvents = 1
SYMMETRY Alike
CONSTRAINT FewEvents
CHECK_DEADLOCK FALSE
INVARIANTS
    ServedWasTrue
    ServedUnderItsKey
