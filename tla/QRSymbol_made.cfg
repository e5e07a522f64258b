SPECIFICATION Spec
CONSTANTS
  SymSize = 8
  GfPoly <- MCGfPoly
  Fcr = 0
  Prim = 1
  Kinds <- MCKinds
  Payloads <- MCPayloads
INVARIANTS
  BlocksAreCodewords
  EveryBitLaid
  Readable
  BestMask
  NeverFails
PROPERTIES
  LaidInReadingOrder
CHECK_DEADLOCK FALSE
