SPECIFICATION WalkSpec
CONSTANTS
  Locals <- MCLocals
  LoopNames <- MCLoopNames
  Expressions <- MCExpressions
  Targets <- MCTargets
  Pairs <- MCPairs
  Patterns <- MCPatterns
  CapturedScopes <- MCCaptures
  Arguments <- MCArguments
  Wide <- MCWide
  Control <- MCControl
  MaxSteps = 3
  MaxBlocks = 2
  eval_expr <- Eval
  set_path_value <- SetPathValue
  bind_pattern <- BindPattern
  luau_expr <- LuauValue
  luau_store <- Stored
  luau_pattern <- LuauBound
INVARIANTS
  WalkTypeOK
  LikeLuau
  CapturedStays
  
CHECK_DEADLOCK FALSE
