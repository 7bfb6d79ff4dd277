SPECIFICATION FairSpec
CONSTANTS
  Cb = {c1, c2}
  Kind = {"tick", "micro", "imm", "timeout", "interval", "task"}
  TimeoutDelay = {0, 1}
  IntervalDelay = {0, 1}
  MaxLag = 1
  Nil = Nil
PROPERTIES TaskCompletes TimersRun
CHECK_DEADLOCK FALSE
