SPECIFICATION FairSpec
CONSTANTS
    Workers = {w1, w2}
    Callers = {c1}
    Parallel = "parallel"
    Serial = {"high", "low"}
    SerialWaits = {"low"}
    Jobs = {"p1", "h1", "h2", "l1"}
    NoJob = "none"
    Priority <- MCPriority
    QueueOf <- MCQueueOf
INVARIANTS TypeOK SerialInOrder
PROPERTIES ParallelWaitComplete JobsRun WaitsReturn WorkersStop
CHECK_DEADLOCK FALSE
