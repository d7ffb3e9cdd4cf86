SPECIFICATION FairSpec
CONSTANTS
  a = a
  b = b
  c = c
  Sources = {a, b, c}
  Watched = {a, b}
  WatchedOutput = TRUE
  EarlySaves = FALSE
  MaxSaves = 2
CHECK_DEADLOCK FALSE
INVARIANTS
  NoSaveIsLost
PROPERTIES
  CatchesUp
  CheckSettles
