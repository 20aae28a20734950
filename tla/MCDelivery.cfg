SPECIFICATION Spec
CONSTANTS
    r1 = r1
    r2 = r2
    r3 = r3
    r4 = r4
    u1 = u1
    u2 = u2
    k1 = k1
    p1 = p1
    p2 = p2
    Requests = {r1, r2}
    Users = {u1, u2}
    ActiveUsers = {u1}
    Opening <- OneCent
    Keys = {k1}
    NoKey = NoKey
    Body <- SameKeyTwice
    Replicas = {p1, p2}
    Nobody = Nobody
    Nowhere = Nowhere
    QueueMax = 1
    Prefetch = 2
    FaultKinds = {"db", "unknown", "crash", "channel", "sigterm"}
    MaxFaults = 3
SYMMETRY ReplicaSymmetry
INVARIANTS
    TypeOK
    AtLeastOnce
    DoubleApplyOnlyIfSuspect
    SingleConsumerUnlessSuspect
    SettledExactlyOnce
    DuplicateReplyNamesRecorded
    RetryAfterAnswerSuppressed
    ExtraPostingsCostFailures
    StatusIsHonest
    AnswerTellsOutcome
PROPERTIES
    StatusRegressesOnlyIfSuspect
    ImplementsLedger
CHECK_DEADLOCK FALSE
