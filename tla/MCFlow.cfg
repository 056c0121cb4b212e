CONSTANTS
  U1 = U1
  S = S
  Types <- MCTypes
  Accepts <- MCAccepts
  Sigs <- MCSigs
  FnSigs <- MCFnSigs
  Rules <- AllRules
  Unty = FALSE
  MaxCode = 6
  MaxNest = 3
  MaxBlks = 2
  Depth = 8
  ArenaCap = 16
SPECIFICATION Spec
INVARIANTS NeverFallsOff OperandsMatch ReturnsOut SnapshotsOfHandlers JumpsHaveTargets
CHECK_DEADLOCK FALSE
