CONSTANTS
  d0 = d0
  d1 = d1
  Dicts <- MCDicts
  Host = "errCleanup"
  Rules <- AllRules
  DictDepth = 3
  ImmDepth = 2
  MaxCtl = 5
  MaxVals = 2
  MaxInputs = 2
  MaxToks = 5
SPECIFICATION Spec
INVARIANTS AtRest TypesOfValues
PROPERTIES HandlersRestore LSlotsExact
CHECK_DEADLOCK FALSE
