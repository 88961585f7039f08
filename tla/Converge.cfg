CONSTANTS
    Channel = {1}
    Author = {1}
    SeqNo = {0}
    MaxPrefix = 0
    Prefix <- MCPrefix
    Cap = 4
    EvictFrom = 5
    NodeId = {1, 2, 3}
    WantTTL = 3
    HaveTTL = 1
    HeardTTL = 2
    Neighbor <- Path
    K = 12
    Authorable <- Cell
    Home <- AtFirst
    Subs <- EndsSubscribe
    Budgets <- Losses
    WantIntervals = {1, 2}
    HaveIntervals = {1, 2}
SPECIFICATION SwarmSpec
PROPERTIES Converges
