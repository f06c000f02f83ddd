CONSTANTS
  Width = 4
  PerLine = 2
  Masks = {a, b}
  ItemIds = {0, 1, 2, 5, 8}
  ObjectComponents = {"A", "D"}
  Creates = {"A"}
  Destroys = {"A"}
  Defaults = {"D"}
  Hooked = {"A"}
  Needs <- MCNeeds
  MaxEntities = 2
  MaxCommands = 2
  Entities = {e, f}
  Components = {"A"}
  SharedIds = {"S", "T"}
  Values = {0, 1}
  DefaultValue = 0
  MaxPointers = 3
  MaxArchetypes = 4
  Null = Null
SPECIFICATION ComponentsSpec
INVARIANTS MasksAreSets LifetimesBalanced SharedFound
CHECK_DEADLOCK FALSE
