CONSTANTS
    Channel = {1}
    Author = {1, 2}
    SeqNo = {0, 1}
    MaxPrefix = 1
    Prefix <- MCPrefix
    Cap = 4
    NodeId = {1, 2, 3}
    WantTTL = 1
    HaveTTL = 1
    HeardTTL = 1
    Neighbor <- Path
    K = 12
    Authorable <- FirstOps
    Home <- AuthorsNode
    Subs <- EndsSubscribe
    Budgets <- EveryBudget
SPECIFICATION Spec
INVARIANTS FloodCovers WantsReachAll
PROPERTIES NothingSaidTwice
CHECK_DEADLOCK FALSE
