CONSTANTS
  Slots = {s1}
  Bases = {1, 2}
  Capacity = 4
  MaxN = 3
  Dynamic = Dynamic
SPECIFICATION Spec
INVARIANTS
  TypeOK
  CarrierFacts
  Provenance
  NotTruncated
  AccessSafe
  Partition
