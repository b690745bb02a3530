\* Thread robustness: the database executor never dies, and every blocked
\* reader is released, under fair scheduling of the threads.
CONSTANTS
    c1 = c1
    c2 = c2
    Clients <- MCClients
    Commands <- MCLiveCommands
    MaxCmds = 1

SPECIFICATION Spec

INVARIANT NoDatabasePanic
PROPERTY ReplyEventually

\* The server idles once the bounded clients have sent their lines.
CHECK_DEADLOCK FALSE
