CONSTANTS
    Channel = {1, 2}
    Author = {1}
    SeqNo = {0}
    MaxPrefix = 1
    Prefix <- MCPrefix
    Cap = 3
    NodeId = {1, 2}
    WantTTL = 1
    HaveTTL = 1
    HeardTTL = 1
    Me = 1
    Wants = {}
    Bodies <- AnyBody
    Local <- Cell
    Durations = {1}
    WantIntervals = {}
    HaveIntervals = {}
SPECIFICATION Spec
INVARIANTS TypeOK HeldIsUnion RelayWithinCap SubscribedNotInRelay BroadcastBestCopy
PROPERTIES DeliverExactlyNew NothingLost
