SPECIFICATION Spec
CONSTANTS
    trip = trip
    seller = seller
    buyer = buyer
    cr = cr
    r1 = r1
    r2 = r2
    r3 = r3
    c1 = c1
    Tours = {trip}
    Users = {seller, buyer}
    Requests = {cr, r1, r2}
    CronRuns = {}
    Asks <- AsksDelete
    MaxTime = 0
    MaxCrashes = 0
    MaxInFlight = 1
CHECK_DEADLOCK FALSE
PROPERTIES
    OnlyUnsoldToursAreDeleted
