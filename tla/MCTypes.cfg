CONSTANTS
  Struct <- MCStruct
  Role = "R"
  Fields <- MCFields
  Op <- MCOp
  Method <- MCMethod
  Fn <- MCFn
  Global <- MCGlobal
  Values <- MCValues
  Rules <- AllRules
  MaxVals = 2
  MaxCalls = 1
SPECIFICATION Spec
INVARIANTS StackTyped MemoryTyped ArgsAsDeclared MovesInside
CHECK_DEADLOCK FALSE
