CONSTANTS
    Archetypes <- MCArchetypes
    Comps <- MCComps
    ChunkSize <- MCChunkSize
    MaxRows <- MCMaxRows
    JobNames = {"reader", "writer"}
    Args <- MCArgs
    Check <- MCCheck
    Functions <- MCFunctions
    Workers = 1
    MaxVersion = 3
    Garbage = 9
SPECIFICATION Spec
INVARIANTS TypeOK ChangesVisible NothingSpurious EveryRowOnce TasksCoverRows
PROPERTIES ShownWhatChanged
CHECK_DEADLOCK FALSE
