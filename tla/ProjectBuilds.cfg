SPECIFICATION BuildSpec
CONSTANTS
  a = a
  b = b
  c = c
  Unusable = Unusable
  Earlier = Earlier
  Torn = Torn
  Paths = {a, b, c}
  DepLists <- UpToTwo
  EntryLists <- OneOrAll
  Outputs <- CodeAndMap
  MaxSaves = 1
CHECK_DEADLOCK FALSE
INVARIANTS
  AcceptedIsAcyclic
  ReportedIsCycle
  FailsClean
  WritesInOrder
  ModelMatches
  CompiledAcyclic
PROPERTIES
  Completes
