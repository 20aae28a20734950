SPECIFICATION Spec
CONSTANTS
    a1 = a1
    a2 = a2
    r1 = r1
    r2 = r2
    r3 = r3
    Addresses = {a1, a2}
    Requests = {r1, r2, r3}
    From <- TwoClients
    Burst = 2
    Idle = 3
    MaxHold = 1
    MaxTime = 5
INVARIANTS
    TypeOK
    HeldIsCurrent
    RateIsBounded
PROPERTIES
    ImplementsTokenBucket
    CreditGrowsWithTime
