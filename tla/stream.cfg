SPECIFICATION Spec
CONSTANTS
    Pieces <- SomePieces
    MaxEvents = 4
    MaxCalls = 2
INVARIANTS TypeOK TextArrives EndAndErrorOnce LoggedCallsComplete
PROPERTIES ClientPromise
CHECK_DEADLOCK FALSE
