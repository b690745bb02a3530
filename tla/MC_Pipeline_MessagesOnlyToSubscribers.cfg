\* Expected violation: see the finding on MessagesOnlyToSubscribers.
CONSTANTS
    c1 = c1
    c2 = c2
    Clients <- MCClients
    Commands <- MCCommands
    MaxCmds = 2

SPECIFICATION Spec
SYMMETRY MCSymmetry

PROPERTY MessagesOnlyToSubscribers

CHECK_DEADLOCK FALSE
