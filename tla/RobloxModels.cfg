SPECIFICATION Spec
CONSTANTS
  Files <- MCFiles
  Order <- MCOrder
  Extensions <- MCExtensions
  ScriptSuffixes <- MCScriptSuffixes
  LongestFirst <- MCLongestFirst
  Stripped <- MCStripped
  IndexFiles <- MCIndexFiles
  IndexLike = {"init", "Init"}
  Unsafe <- MCUnsafe
  Aliases <- MCAliases
  Longer <- MCLonger
  Specifiers <- MCSpecifiers
INVARIANTS
  TypeOK
  EachFileOnce
  RequiresFind
  RefusedForAReason
CHECK_DEADLOCK FALSE
