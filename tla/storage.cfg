CONSTANTS
    InitialCapacity = 1
    MaxSize = 7
    Values = {"x", "y"}
    Shrinks = TRUE
    EarlyClear = FALSE
SPECIFICATION Spec
INVARIANTS TypeOK NothingLeftBehind NeverOutside
PROPERTIES KeptUnlessRecounted StableLatency
CHECK_DEADLOCK FALSE
