CONSTANTS
    Channel = {1}
    Author = {1}
    SeqNo = {0}
    MaxPrefix = 0
    Prefix <- MCPrefix
    Cap = 2
    NodeId = {1, 2, 3}
    WantTTL = 2
    HaveTTL = 1
    HeardTTL = 3
    EvictFrom = 1
    Neighbor <- Triangle
    K = 8
    Authorable <- Cell
    Home <- AtFirst
    Subs <- OneSubscribes
    Budgets <- Departures
    WantIntervals = {2}
    HaveIntervals = {1}
SPECIFICATION SwarmSpec
PROPERTIES WantsDieOut FloodsEnd
