CONSTANTS
  Objects = {o1, o2}
  Lowest <- MCLowest
  Modulus = 4
  FirstCount <- MCFirstCount
  MaxCount = 2
  MaxReports = 3
  None = None
SPECIFICATION Spec
INVARIANTS
  ValueIsGreatest
  
  AnswerStaysTrue
PROPERTIES
  RefinesHighWater
