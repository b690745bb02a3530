\* Teardown: nothing is queued behind the poison pill, and drop returns.
CONSTANT MaxLines = 2
SPECIFICATION Spec
INVARIANT TypeOK NothingBehindPoison
PROPERTY DropCompletes
\* A client that sent its lines and is never dropped idles in read.
CHECK_DEADLOCK FALSE
