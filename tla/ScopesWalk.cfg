SPECIFICATION Spec
CONSTANTS
  Names = {x, y}
  MaxDecls = 3
  MaxDepth = 3
SYMMETRY Symmetry
INVARIANTS
  ConstsAreRefused
  StatesAreFound
  ComptimeIsNearest
  CallsSeeDefinition
  RuntimeLocalsAreKnown
