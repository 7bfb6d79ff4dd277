SPECIFICATION Spec
SYMMETRY IdSymmetry
CONSTANTS
  Agent = {m, x}
  Main = m
  CanBlock = {x}
  Loc = {l1, l2}
  Value = {0, 1}
  Waiter = {w1, w2}
  MaxCount = 1
  Nil = Nil
INVARIANTS
  TypeOK
  WaitListExact
  CompletionConserved
  NoLostWakeup
  NoMissedStore
PROPERTIES
  NotifyIsFIFO
  ImplementsWaiterList
CHECK_DEADLOCK FALSE
