SPECIFICATION FairSpec
CONSTANTS
    r1 = r1
    r2 = r2
    r3 = r3
    r4 = r4
    u1 = u1
    u2 = u2
    k1 = k1
    p1 = p1
    p2 = p2
    Requests = {r1, r2, r3, r4}
    Users = {u1, u2}
    ActiveUsers = {u1}
    Opening <- OneCent
    Keys = {k1}
    NoKey = NoKey
    Body <- MixedTraffic
    Replicas = {p1}
    Nobody = Nobody
    Nowhere = Nowhere
    QueueMax = 2
    Prefetch = 2
    FaultKinds = {"db", "unknown", "redis", "crash", "sigterm"}
    MaxFaults = 2
INVARIANTS
    AnswerTellsOutcome
    BooksDriftByTies
PROPERTIES
    EnqueuedCompletes
    ImplementsLedger
CHECK_DEADLOCK FALSE
