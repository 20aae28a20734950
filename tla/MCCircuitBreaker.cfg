SPECIFICATION FairSpec
CONSTANTS
    c1 = c1
    c2 = c2
    c3 = c3
    Calls = {c1, c2, c3}
    Posts = {c3}
    MaxRequests = 2
    Interval = 2
    Timeout = 1
    Threshold = 2
    MaxFaults = 2
    MaxMissing = 1
INVARIANTS
    TypeOK
    ProbesAreAccounted
    GaugeNeverHidesOpen
    TripsOnlyForCause
PROPERTIES
    ClosesOnLastProbe
    Recovers
