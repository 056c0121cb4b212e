CONSTANTS
  B = 8
  SLIT_MAX = 3
  Lits <- MCLits
  Field <- MCField
  Size <- MCSize
  Global <- MCGlobal
  RefVar <- MCRefVar
  Function <- MCFunction
  Inline <- MCInline
  Values <- MCValues
  Rules <- AllRules
  MaxToks = 3
  MaxDepth = 2
  MaxIfs = 2
SPECIFICATION Spec
INVARIANTS CompiledAsMeant ImmAsMeant
CHECK_DEADLOCK FALSE
