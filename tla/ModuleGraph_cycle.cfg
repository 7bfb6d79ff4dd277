SPECIFICATION Spec
SYMMETRY Symmetry
CONSTANTS
  Module = {a, b, c}
  Graph <- ChainGraphs
  MaxImports = 2
  MaxRequires = 1
  Nil = Nil
INVARIANTS
  EvaluatedIsSettled
CHECK_DEADLOCK FALSE
