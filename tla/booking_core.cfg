SPECIFICATION Spec
CONSTANTS
    trip = trip
    seller = seller
    buyer = buyer
    cr = cr
    r1 = r1
    r2 = r2
    r3 = r3
    c1 = c1
    Tours = {trip}
    Users = {seller, buyer}
    Requests = {cr, r1, r2, r3}
    CronRuns = {}
    Asks <- AsksCore
    MaxTime = 0
    MaxCrashes = 1
    MaxInFlight = 4
SYMMETRY Alike
CHECK_DEADLOCK FALSE
INVARIANTS
    QuantityNeverOverstates
PROPERTIES
    RefusalsAreJustified
    CounterSpec
