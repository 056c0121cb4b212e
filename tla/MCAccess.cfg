CONSTANTS
  RSIZE = 4
  Natives = {1, 2, 4}
  MaxSz = 64
  alignment <- MCAlignment
  MaxRefs = 3
  ArrLens <- MCArrLens
  FieldTyIs <- MCFieldTyIs
  LocalTyIs <- MCLocalTyIs
  Rules <- AllRules
  MaxFields = 2
  MaxLocals = 2
  MaxDots = 3
SPECIFICATION Spec
INVARIANTS FieldsDisjoint FieldsAligned LocalsInFrame SizesAgree LeavesAligned FetchesField StoresField PointsAtField StackTyped
CHECK_DEADLOCK FALSE
