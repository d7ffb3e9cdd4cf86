SPECIFICATION Spec
CONSTANTS
  x = x
  y = y
  t1 = t1
  t2 = t2
  Nil = Nil
  States = {x}
  TargetLists <- OneState
  Values = {Nil, 1, 2}
  Threads = {t1, t2}
  MaxDepth = 2
  MaxWatchers = 2
  RhsRunsCode = TRUE
CHECK_DEADLOCK FALSE
INVARIANTS
  ToldOrDue
  WatchersCaughtUp
