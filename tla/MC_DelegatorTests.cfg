\* The delegator tests' harness: both channel maps, up to three commands.
CONSTANTS
    Names <- MCNames
    MaxCmds = 3

SPECIFICATION Spec

INVARIANT TestAssertionsHold
PROPERTY TestCompletes

\* A test that has joined both threads has finished.
CHECK_DEADLOCK FALSE
