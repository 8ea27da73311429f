CONSTANTS
  Lengths = {3, 4}
  MaxLines = 8
  None = None
SPECIFICATION FencesSpec
INVARIANTS
  FencesTypeOK
  ReadingsAgree
  ReadersAgree
CHECK_DEADLOCK FALSE
