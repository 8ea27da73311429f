CONSTANTS
  Objects = {o1}
  Values = {v1, v2}
  Absent = Absent
  Unset = Unset
  MovedFrom = MovedFrom
  MaxDepth = 2
  Reentrant = TRUE
SPECIFICATION Spec
INVARIANT SetAtMostOnce
