SPECIFICATION RemindersSpec
CONSTANTS
    trip = trip
    seller = seller
    buyer = buyer
    cr = cr
    r1 = r1
    r2 = r2
    c1 = c1
    Tours = {trip}
    Users = {seller, buyer}
    Requests = {cr, r1, r2}
    CronRuns = {c1}
    Asks <- AsksEve
    MaxTime = 5
    MaxCrashes = 1
    MaxInFlight = 2
    PerDay = 3
    Sweep = 0
    Afternoon = 2
    Notice = 0
CHECK_DEADLOCK FALSE
INVARIANTS
    LedgerInv
    ChancesAreTaken
PROPERTIES
    RemindersAreTimely
