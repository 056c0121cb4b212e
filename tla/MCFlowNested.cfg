CONSTANTS
  U1 = U1
  S = S
  Types <- MCTypes
  Accepts <- MCAccepts
  Sigs <- MCSigs
  FnSigs <- MCFnSigs
  Rules = {"stkOrder", "ifFall", "blkEnd", "semiNoInputs"}
  Unty = FALSE
  MaxCode = 4
  MaxNest = 3
  MaxBlks = 2
  Depth = 8
  ArenaCap = 16
SPECIFICATION Spec
INVARIANTS NestingTied
CHECK_DEADLOCK FALSE
