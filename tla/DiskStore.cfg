CONSTANTS
    Channel = {1}
    Author = {1, 2}
    SeqNo = {0, 1}
    MaxPrefix = 0
    Prefix <- MCPrefix
    Cap = 5
SPECIFICATION Spec
INVARIANTS TypeOK NeverOverReports OnlyFailedRebuildsHide
PROPERTIES KeepsPromise
