CONSTANT MaxRounds = 2
CONSTANT Programs <- ElseifPrograms
SPECIFICATION Spec
PROPERTY ImplementsSource
CHECK_DEADLOCK FALSE
