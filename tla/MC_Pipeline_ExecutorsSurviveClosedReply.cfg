\* Expected violation: see the finding on ExecutorsSurviveClosedReply.
CONSTANTS
    c1 = c1
    c2 = c2
    Clients <- MCClients
    Commands <- MCCommands
    MaxCmds = 2

SPECIFICATION Spec
SYMMETRY MCSymmetry

INVARIANT ExecutorsSurviveClosedReply

CHECK_DEADLOCK FALSE
