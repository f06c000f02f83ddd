CONSTANTS
    MaxEntities = 1
    MaxVersion = 1
    Components = {"a", "b", "c"}
    Assigned = {"v"}
    NumThreads = 1
    Creators = {1}
    Deps <- ChainDeps
    MaxCommands = 2
    MaxMarked = 1
    MaxLocks = 1
    WithClear = FALSE
SPECIFICATION Spec
INVARIANTS UnlockNeverThrows
CHECK_DEADLOCK FALSE
