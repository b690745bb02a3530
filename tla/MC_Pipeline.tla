---------------------------- MODULE MC_Pipeline ----------------------------
(* Instance of Pipeline for TLC: two clients and, between the runs, a     *)
(* command of each route kind (database, server, inline, inline+server,   *)
(* shutdown, unknown).                                                    *)
EXTENDS Pipeline, TLC

CONSTANTS c1, c2

MCClients == {c1, c2}
\* Commands for the safety runs: the publish fan-out and both two-slot
\* commands, which share the server executor and the client status.
MCCommands == {"publish", "subscribe", "unsubscribe"}
\* Commands whose route or review can leave a reader waiting: a panic, a
\* shutdown with queued commands, a review yielding Ok(None), an unknown
\* name answered by the dispatcher itself, a server command without effect
\* on the modelled state.
MCLiveCommands == {"set", "config set", "subscribe", "monitor", "shutdown",
                   "foo"}
MCSymmetry == Permutations(MCClients)
=============================================================================
