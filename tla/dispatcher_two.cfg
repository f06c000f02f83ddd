SPECIFICATION FairSpec
CONSTANTS
    Workers = {w1}
    Callers = {c1, c2}
    Parallel = "parallel"
    Serial = {}
    SerialWaits = {}
    Jobs = {"p1"}
    NoJob = "none"
    Priority <- MCPriority
    QueueOf <- MCQueueOf
PROPERTIES WaitsReturn
CHECK_DEADLOCK FALSE
