CONSTANTS
  Objects = {o1, o2, o3}
  Values = {v1, v2, v3}
  Absent = Absent
  Unset = Unset
  MovedFrom = MovedFrom
  MaxDepth = 3
  Reentrant = FALSE
SPECIFICATION Spec
INVARIANTS
  TypeOK
  SetAtMostOnce
PROPERTIES
  FailureLeavesUnset
  MovedByConstruction
  RefinesOneWaySlot
