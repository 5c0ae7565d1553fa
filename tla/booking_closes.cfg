SPECIFICATION FairSpec
CONSTANTS
    trip = trip
    seller = seller
    buyer = buyer
    cr = cr
    r1 = r1
    r2 = r2
    r3 = r3
    c1 = c1
    Tours = {trip}
    Users = {seller, buyer}
    Requests = {cr, r1}
    CronRuns = {c1}
    Asks <- AsksLive
    MaxTime = 2
    MaxCrashes = 1
    MaxInFlight = 4
CHECK_DEADLOCK FALSE
INVARIANTS
    TypeOK
    StatusFollowsDates
PROPERTIES
    PastToursClose
