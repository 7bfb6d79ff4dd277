SPECIFICATION FairSpec
CONSTANTS
  Agent = {m, x}
  Main = m
  CanBlock = {x}
  Loc = {l1}
  Value = {0, 1}
  Waiter = {w1}
  MaxCount = 1
  Nil = Nil
PROPERTIES
  CompletionDelivered
  DeadlineExpires
  WaitReturns
CHECK_DEADLOCK FALSE
