SPECIFICATION FairSpec
CONSTANTS
    u1 = u1
    t1 = t1
    t2 = t2
    g1 = g1
    Users = {u1}
    Transactions = {t1, t2}
    Owner <- TwoTransactions
    Readers = {g1}
    NoEntry = NoEntry
    TTL = 2
    Deadline = 1
    FaultKinds = {"db", "redis", "crash"}
    MaxFaults = 1
    MaxV0Writes = 1
INVARIANTS
    TypeOK
    BoundedStaleness
    InvalidationWorks
PROPERTY EventuallyFresh
