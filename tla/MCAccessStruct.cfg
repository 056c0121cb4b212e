CONSTANTS
  RSIZE = 4
  Natives = {1, 2, 4}
  MaxSz = 64
  alignment <- MCAlignment
  MaxRefs = 3
  ArrLens <- MCArrLens
  FieldTyIs <- MCFieldTyIsNested
  LocalTyIs <- MCLocalTyIs
  Rules <- NotPlainStruct
  MaxFields = 2
  MaxLocals = 2
  MaxDots = 3
SPECIFICATION Spec
INVARIANTS FetchesField
CHECK_DEADLOCK FALSE
