CONSTANTS
  SystemPtrs = {"s1", "s2", "s3"}
  Groups = {"g", "h"}
  Priorities = {1}
  MaxInfos = 3
  MaxUpdates = 1
  Managers = {"m1", "m2"}
  Types = {"A", "B"}
  Receivers = {"r1", "r2", "r3"}
  Nobody = Nobody
  MaxEntries = 2
  MaxDepth = 2
  Worlds = {"v", "w"}
  GivenIds = {0}
  Singletons = {"S", "T"}
  Strings = {"x"}
  Values = {"p", "q"}
  Null = Null
  Name <- MCName
  Kind <- MCKind
  Configure <- MCConfigure
  Crc32 <- MCCrc32
SPECIFICATION MCSpec
CONSTRAINT Proper
INVARIANTS WorldTyped OrderRespected StoredIsFound
PROPERTIES PriorityRespected EachUpdatedOnce EachReceiverOnce
CHECK_DEADLOCK FALSE
