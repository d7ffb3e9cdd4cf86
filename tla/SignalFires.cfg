SPECIFICATION Spec
CONSTANTS
  c1 = c1
  c2 = c2
  c3 = c3
  t1 = t1
  t2 = t2
  Conns = {c1, c2, c3}
  OnceConns = {c1}
  Closure <- Shared
  Threads = {t1, t2}
  MaxDepth = 2
CHECK_DEADLOCK FALSE
INVARIANTS
  OnceAtMostOnce
  OwnClosureStaysConnected
  NoneCalledTwice
  FireMissesAtMostCuts
