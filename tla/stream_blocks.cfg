SPECIFICATION Spec
CONSTANTS
    Pieces <- SomePieces
    MaxEvents = 4
    MaxCalls = 2
INVARIANTS BlocksAreStopped
CHECK_DEADLOCK FALSE
