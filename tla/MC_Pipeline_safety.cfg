\* Safety of the pipeline under every interleaving of two clients.
CONSTANTS
    c1 = c1
    c2 = c2
    Clients <- MCClients
    Commands <- MCCommands
    MaxCmds = 2

SPECIFICATION Spec
SYMMETRY MCSymmetry

INVARIANT TypeOK
INVARIANT OneReplyPerCommand
INVARIANT StatusSettledBeforeReply

\* The server idles once the bounded clients have sent their lines.
CHECK_DEADLOCK FALSE
