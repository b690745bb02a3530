CONSTANT MaxLines = 2
SPECIFICATION Spec
INVARIANT DropNeverPanics
CHECK_DEADLOCK FALSE
