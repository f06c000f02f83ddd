CONSTANTS
    MaxEntities = 1
    MaxVersion = 1
    Components = {"a"}
    Assigned = {"v"}
    NumThreads = 2
    Creators = {1}
    Deps <- NoDeps
    MaxCommands = 3
    MaxMarked = 1
    MaxLocks = 2
    WithClear = FALSE
SPECIFICATION Spec
INVARIANTS RowsAreAlive LockedIdsAreNew UnlockNeverThrows
PROPERTIES ImplementsRegistry
CHECK_DEADLOCK FALSE
