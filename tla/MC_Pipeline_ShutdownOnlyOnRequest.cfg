\* Expected violation: see the finding on ShutdownOnlyOnRequest.
CONSTANTS
    c1 = c1
    c2 = c2
    Clients <- MCClients
    Commands <- MCCommands
    MaxCmds = 2

SPECIFICATION Spec
SYMMETRY MCSymmetry

INVARIANT ShutdownOnlyOnRequest

CHECK_DEADLOCK FALSE
