CONSTANTS
    MaxEntities = 2
    MaxVersion = 1
    Components = {"a"}
    Assigned = {"v"}
    NumThreads = 1
    Creators = {1}
    Deps <- NoDeps
    MaxCommands = 2
    MaxMarked = 1
    MaxLocks = 1
    WithClear = FALSE
SPECIFICATION Spec
INVARIANTS TypeOK FreeListInv PlacesAgree
PROPERTIES HandlesNotReused ImplementsRegistry AllocatesHandles
CHECK_DEADLOCK FALSE
