CONSTANTS
    None = None
    Workers = {w1, w2}
    Handlers = {h1, h2}
    Sessions = {1, 2}
    MaxCrash = 1
    MaxServed = 4
SPECIFICATION Spec
SYMMETRY Symmetry
CHECK_DEADLOCK FALSE
INVARIANTS TypeOK RelayedOnce CancelIsFinal SessionNotLost SavedAsOwn
