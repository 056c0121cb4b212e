CONSTANTS
  Struct <- MCStruct
  Role = "R"
  Fields <- MCFields
  Op <- MCOp
  Method <- MCMethod
  Fn <- MCFn
  Global <- MCGlobal
  Values <- MCValues
  Rules <- LateMethods
  MaxVals = 2
  MaxCalls = 1
SPECIFICATION Spec
INVARIANT NothingOverridden
CHECK_DEADLOCK FALSE
