SPECIFICATION FairSpec
CONSTANTS
  file1 = file1
  file2 = file2
  alias = alias
  typo = typo
  Broken = Broken
  Closed = Closed
  NoFile = NoFile
  Unknown = Unknown
  Uris = {file1, file2}
  Canonical = {file1}
  Specifiers = {alias, typo}
  Relative = {}
  Target <- AliasAndTypo
  MaxEvents = 3
CHECK_DEADLOCK FALSE
INVARIANTS
  AnswersFromEditor
  EachAnsweredOnce
  DiagnosticsCurrent
PROPERTY
  Answered
