SPECIFICATION Spec
CONSTANTS
    c1 = c1
    c2 = c2
    c3 = c3
    Calls = {c1, c2}
    Posts = {}
    MaxRequests = 1
    Interval = 2
    Timeout = 1
    Threshold = 2
    MaxFaults = 0
    MaxMissing = 2
INVARIANT HealthyReadsAnswered
