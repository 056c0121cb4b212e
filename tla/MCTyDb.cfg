CONSTANTS
  U1 = U1
  S = S
  Types <- MCTypes
  Accepts <- MCAccepts
  Streams <- MCStreams
  Depth = 3
  ArenaCap = 4
SPECIFICATION ClientSpec
INVARIANTS TypeOK ArenaPacked FreesInOrder
PROPERTIES CoveredFrozen DoneFrozen
