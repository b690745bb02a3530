\* Dead stays Dead: a publish between the inline review of an unsubscribe
\* and its runnable.
CONSTANTS
    c1 = c1
    c2 = c2
    Clients <- MCClients
    Commands <- MCCommands
    MaxCmds = 2

SPECIFICATION Spec
SYMMETRY MCSymmetry

PROPERTY DeadIsTerminal

CHECK_DEADLOCK FALSE
