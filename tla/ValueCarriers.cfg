CONSTANTS
  Slots = {s1}
  Types <- MCTypes
  Size <- MCSize
  Factor <- MCSize
  Alignments = {1, 2, 4, 8}
  MaxN = 5
  MaxElements = 4
SPECIFICATION Spec
INVARIANTS
  TypeOK
  CarrierFacts
  Exact
  Decimated
