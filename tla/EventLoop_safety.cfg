SPECIFICATION Spec
CONSTANTS
  Cb = {c1, c2, c3}
  Kind = {"tick", "micro", "imm", "timeout", "interval", "task"}
  TimeoutDelay = {0, 1}
  IntervalDelay = {0}
  MaxLag = 1
  Nil = Nil
SYMMETRY CbSymmetry
INVARIANTS WorkConserved OutstandingExact TaskRooted ExitIsQuiescent SleepIsSafe
PROPERTIES CancelledStaysSilent JobsFirst TimersInOrder
CHECK_DEADLOCK FALSE
