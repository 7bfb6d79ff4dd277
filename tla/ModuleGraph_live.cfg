SPECIFICATION FairSpec
CONSTANTS
  Module = {1, 2, 3, 4}
  Graph <- Diamonds
  MaxImports = 2
  MaxRequires = 0
  Nil = 0
PROPERTIES
  EvaluationSettles
CHECK_DEADLOCK FALSE
