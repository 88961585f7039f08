CONSTANTS
    Channel = {1}
    Author = {1}
    SeqNo = {0, 1}
    MaxPrefix = 0
    Prefix <- MCPrefix
    Cap = 4
    NodeId = {1, 2, 3}
    WantTTL = 2
    HaveTTL = 2
    HeardTTL = 2
    Neighbor <- Path
    K = 3
    Authorable <- Cell
    Home <- FirstNode
    Subs <- FirstTwoSubscribe
    Budgets <- OneLoss
    Duration = 3
    Latencies = {1}
    Gaps = {1, 3}
    SyncGaps = {2}
    WantIntervals = {2, 3}
    HaveIntervals = {1, 2}
    Backoff = 1
    MaxDeferrals = 1
    Quanta = {1, 2}
    Maintain = 2
    EvictFrom = 1
    GcInterval = 2
    KeepLast = 1
SPECIFICATION SimSpec
INVARIANTS NeverRefused FatesMatchFlights TimersHaveEvents HeldMeansCovered
PROPERTIES RunEnds
CHECK_DEADLOCK FALSE
