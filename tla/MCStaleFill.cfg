SPECIFICATION Spec
CONSTANTS
    u1 = u1
    t1 = t1
    t2 = t2
    g1 = g1
    Users = {u1}
    Transactions = {t1}
    Owner <- OneTransaction
    Readers = {g1}
    NoEntry = NoEntry
    TTL = 2
    Deadline = 2
    FaultKinds = {}
    MaxFaults = 0
    MaxV0Writes = 0
INVARIANT InvalidatedStaysFresh
