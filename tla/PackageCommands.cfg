SPECIFICATION FairSpec
CONSTANTS
  None = None
  Partial = Partial
  Latest = Latest
  Packages = {1, 2}
  Versions = {1, 2}
  Deps <- Circular
  MaxCommands = 3
CHECK_DEADLOCK FALSE
INVARIANTS
  PinsAreStored
  SuccessCanBuild
PROPERTY
  CommandsEnd
