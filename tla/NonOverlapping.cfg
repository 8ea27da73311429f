CONSTANTS
  Bases = {1, 2, 3, 4}
  MaxSize = 3
SPECIFICATION Spec
INVARIANTS
  TypeOK
  DecisionExact
PROPERTIES
  Returns
