CONSTANT MaxRounds = 2
CONSTANT Programs <- FaithfulPrograms
SPECIFICATION Spec
INVARIANT TypeOK
INVARIANT TemporariesInScope
PROPERTY ImplementsSource
CHECK_DEADLOCK FALSE
