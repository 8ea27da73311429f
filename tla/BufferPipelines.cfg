CONSTANTS
  Top = 6
  MaxSize = 3
SPECIFICATION Spec
INVARIANTS
  TypeOK
  AsIfAtomic
  RejectedRightly
