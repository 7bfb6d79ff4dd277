SPECIFICATION Spec
SYMMETRY Symmetry
CONSTANTS
  Module = {a, b, c}
  Graph <- MixedGraphs
  MaxImports = 2
  MaxRequires = 2
  Nil = Nil
INVARIANTS
  BodyRunsOnce
  FailureFromDependency
  CyclesFound
  CompletionCoversGraph
  PendingExact
  ImportsAreSettled
PROPERTIES
  DependenciesFirst
CHECK_DEADLOCK FALSE
