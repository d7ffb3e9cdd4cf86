SPECIFICATION Spec
CONSTANTS
  x = x
  y = y
  t1 = t1
  t2 = t2
  Nil = Nil
  States = {x, y}
  TargetLists <- TwoStates
  Values = {Nil, 1}
  Threads = {t1}
  MaxDepth = 2
  MaxWatchers = 2
  RhsRunsCode = FALSE
CHECK_DEADLOCK FALSE
INVARIANTS
  ChangesAreNotified
