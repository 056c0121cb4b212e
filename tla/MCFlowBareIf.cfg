CONSTANTS
  U1 = U1
  S = S
  Types <- MCTypes
  Accepts <- MCAccepts
  Sigs <- MCSigs
  FnSigs <- MCFnSigs
  Rules = {"stkOrder", "blkEnd", "blkBound", "semiNoInputs"}
  Unty = FALSE
  MaxCode = 4
  MaxNest = 3
  MaxBlks = 0
  Depth = 8
  ArenaCap = 16
SPECIFICATION Spec
PROPERTIES BranchesIdentical
CHECK_DEADLOCK FALSE
