CONSTANTS
    MaxEntities = 2
    MaxVersion = 1
    Components = {"a", "b"}
    Assigned = {"v"}
    NumThreads = 1
    Creators = {1}
    Deps <- ChainDeps
    MaxCommands = 1
    MaxMarked = 0
    MaxLocks = 1
    WithClear = TRUE
SPECIFICATION Spec
INVARIANTS MasksClosed RowsComplete PlacesAgree RowsAreAlive
CHECK_DEADLOCK FALSE
