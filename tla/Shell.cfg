CONSTANTS
    Channel = {1, 2}
    Author = {1}
    SeqNo = {0}
    MaxPrefix = 0
    Prefix <- MCPrefix
    Cap = 3
    NodeId = {1, 2}
    WantTTL = 1
    HaveTTL = 1
    HeardTTL = 1
    Id = 1
    Incoming <- MCIncoming
    Authorable <- MCAuthorable
    Intervals = {1}
    Window = 2
    MaxLatency = 3
    EvictAt = 1
    FoundRelay <- MCFoundRelay
    FoundExt <- Nothing
    Fallible = {"append", "ext", "relay"}
    Budgets <- EveryBudget
SPECIFICATION Spec
INVARIANTS TypeOK CacheFollows RelayWithinCap DeliveredInExt PushWithinLatency OnlyFailedAppendsMute
PROPERTIES NothingVanishes
CHECK_DEADLOCK FALSE
