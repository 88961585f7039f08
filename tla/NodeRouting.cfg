CONSTANTS
    Channel = {1}
    Author = {1, 2}
    SeqNo = {0}
    MaxPrefix = 1
    Prefix <- MCPrefix
    Cap = 2
    NodeId = {1, 2}
    WantTTL = 2
    HaveTTL = 1
    HeardTTL = 1
    Me = 1
    Wants <- SomeWants
    Bodies <- SecondBody
    Local <- OnlyFirst
    Durations = {1}
    WantIntervals = {1}
    HaveIntervals = {1}
SPECIFICATION Spec
PROPERTIES EveryLackAsked
