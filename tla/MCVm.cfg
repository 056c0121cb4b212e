CONSTANTS
  v0 = v0
  v1 = v1
  Fns <- MCFns
  Locals <- MCLocals
  Vals <- MCVals
  RSCap = 5
  InfoCap = 2
  Width = 4
  Rules <- AllRules
  MaxAt = 2
  MaxLoops = 1
SPECIFICATION Spec
INVARIANTS TypeOK Lockstep LocalsInFrame
PROPERTIES RefinesCallStack
