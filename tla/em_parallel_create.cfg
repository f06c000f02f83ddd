CONSTANTS
    MaxEntities = 2
    MaxVersion = 1
    Components = {"a"}
    Assigned = {"v"}
    NumThreads = 2
    Creators = {1, 2}
    Deps <- NoDeps
    MaxCommands = 2
    MaxMarked = 0
    MaxLocks = 1
    WithClear = FALSE
SPECIFICATION Spec
INVARIANTS RowsAreAlive
CHECK_DEADLOCK FALSE
