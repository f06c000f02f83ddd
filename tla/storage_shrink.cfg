CONSTANTS
    InitialCapacity = 2
    MaxSize = 4
    Values = {"x"}
    Shrinks = TRUE
    EarlyClear = FALSE
SPECIFICATION Spec
INVARIANTS Intact
CHECK_DEADLOCK FALSE
