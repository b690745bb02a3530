------------------------ MODULE MC_ClientLifecycle ------------------------
(* One connection whose peer sends two lines: enough for a reply to be   *)
(* in flight, or queued at the writer, when the owner drops the handler   *)
(* or the peer closes.                                                    *)
EXTENDS ClientLifecycle
=============================================================================
