CONSTANTS
    Channel = {1, 2}
    Author = {1, 2, 3}
    SeqNo = {0}
    MaxPrefix = 3
    Prefix <- MCPrefix
    MaxScopes = 3
    MaxSeq = 3
    Logs <- ThreeLogs
    Lists <- MCLists
    Width <- MCWidth
    MaxWidth = 2
    Limits = {4, 6, 7, 8, 9, 11, 13, 16}
    WantInputs <- WantPairs
    Items <- MCItems
    HaveLimits = {4, 6, 8, 11}
    HaveInputs <- OpLists
SPECIFICATION Spec
INVARIANTS SweepIsCover RangesExact MapsDenoteSets WantsFit WantsAskAll HavesWhole
PROPERTIES LoopsEnd
CHECK_DEADLOCK FALSE
