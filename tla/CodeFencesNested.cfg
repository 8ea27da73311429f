CONSTANTS
  Lengths = {3, 4}
  MaxLines = 6
  None = None
SPECIFICATION FencesSpec
INVARIANT ExamplesDropped
CHECK_DEADLOCK FALSE
