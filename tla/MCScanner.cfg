CONSTANTS
  Longest = 3
  Char <- MCChar
  Texts <- MCTexts
  Retyped <- MCRetyped
  RingCap = 4
  TokCap = 3
  Host = "simpleRepl"
  Rules <- AllRules
  MaxInputs = 2
SPECIFICATION Spec
INVARIANTS TakenForItsMeaning TokenInRing LineOfHead
PROPERTIES EveryInputEnds
CHECK_DEADLOCK FALSE
