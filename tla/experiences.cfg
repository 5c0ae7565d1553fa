SPECIFICATION Spec
CONSTANTS
    u1 = u1
    u2 = u2
    w1 = w1
    w2 = w2
    w3 = w3
    r1 = r1
    r2 = r2
    r3 = r3
    beach = beach
    food = food
    all = all
    Users = {u1, u2}
    Titles = {beach, food}
    Queries = {all, beach}
    Matches <- MatchesOf
    NoRow = NoRow
    Writes = {w1, w2, w3}
    Asks <- AsksPost
    Requests = {r1, r2}
    TTL = 1
    MaxTime = 2
CONSTRAINT FewEvents
SYMMETRY Alike
CHECK_DEADLOCK FALSE
INVARIANTS
    VotesToggle
    WritingsAppear
PROPERTIES
    ListingsSpec
