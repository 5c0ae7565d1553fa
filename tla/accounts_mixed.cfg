SPECIFICATION Spec
CONSTANTS
    u1 = u1
    r0 = r0
    r1 = r1
    r2 = r2
    r3 = r3
    r4 = r4
    Users = {u1}
    Requests = {r0, r1, r2, r3, r4}
    Asks <- AsksMixed
    MaxTime = 1
    MaxInFlight = 2
SYMMETRY Alike
CHECK_DEADLOCK FALSE
INVARIANTS
    TypeOK
    HandedVerify
    RowsCarryTheirKey
    SpentNotCurrent
    RevokedStaysRevoked
    StoreOwnersSell
    RegisteredAreMailed
PROPERTIES
    FlagsKept
