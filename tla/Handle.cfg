CONSTANTS
    Caller = {c1, c2}
    WakeBound = 1
    CommandRoom = 1
    EventRoom = 1
    Outputs <- MCOutputs
SPECIFICATION Spec
INVARIANTS RepliesTruthful EventsInOrder
PROPERTIES EveryCallReturns
CHECK_DEADLOCK FALSE
