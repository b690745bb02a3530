--------------------------- MODULE ClientLifecycle ---------------------------
(***************************************************************************)
(* One client connection from accept to teardown (client_handler.rs):     *)
(* the reader thread (read_socket), the writer thread (write_socket), the *)
(* outbound queue between them, and ClientHandler::drop run by the thread *)
(* that owns the handler (the shutdown coordinator or clear_client).      *)
(*                                                                         *)
(* The dispatcher is the environment here: a submitted command is         *)
(* answered or its channel closed (Pipeline checks that this always       *)
(* happens, ReplyEventually).  Responses are abstracted to "resp" and the *)
(* poison pill to "none".                                                  *)
(***************************************************************************)
EXTENDS Naturals, Sequences

CONSTANTS MaxLines   \* lines the peer sends

ASSUME MaxLines \in Nat

VARIABLES
    peerOpen,  \* the peer has not closed (or reset) its end
    reset,     \* the connection was reset (RST): the socket is in TCP_CLOSE
    shut,      \* stream.shutdown(Shutdown::Both) was called by drop
    reader,    \* state of the read_socket thread
    lines,     \* lines read so far
    gone,      \* notifiers.off_client was called for this client
    outq,      \* Seq({"resp","none"}): response_snd -> response_recv queue
    writer,    \* state of the write_socket thread
    written,   \* responses written to the socket
    drop       \* progress of ClientHandler::drop

vars == <<peerOpen, reset, shut, reader, lines, gone, outq, writer, written, drop>>

ReaderStates == {"idle", "waiting", "done", "failed", "panicked"}
WriterStates == {"running", "ok", "err"}
DropStates == {"owned", "shut", "joinedReader", "sentNone", "dropped", "panicked",
               "shutFailed"}

(* The socket yields data only while both ends are open; after either    *)
(* end closed, read returns EOF or an error.                               *)
Readable == peerOpen /\ ~shut

(* send_response: Some(response) is queued while response_recv is alive; *)
(* otherwise the reader returns Err(closed_sender) through `?`.           *)
SendResponse(next) ==
    IF writer = "running"
    THEN /\ outq' = Append(outq, "resp")
         /\ reader' = next
    ELSE /\ reader' = "failed"
         /\ UNCHANGED outq

-----------------------------------------------------------------------------
(* Reader thread                                                          *)

(* A line is read and processed: a framing error or a denied command is *)
(* answered at once, an allowed one is submitted and the reader blocks   *)
(* on its reply channel (process_command_general, delegate_command).      *)
ReadLine ==
    /\ reader = "idle"
    /\ Readable
    /\ lines < MaxLines
    /\ lines' = lines + 1
    /\ \/ SendResponse("idle")
       \/ reader' = "waiting" /\ UNCHANGED outq
    /\ UNCHANGED <<peerOpen, reset, shut, gone, writer, written, drop>>

(* Mutant: the reply is forwarded to the writer twice.                   *)
ReceiveTwice ==
    /\ reader = "waiting"
    /\ IF writer = "running"
       THEN outq' = outq \o <<"resp", "resp">> /\ reader' = "idle"
       ELSE reader' = "failed" /\ UNCHANGED outq
    /\ UNCHANGED <<peerOpen, reset, shut, lines, gone, writer, written, drop>>

(* receiver.recv() returns a reply or the closed-channel error; either is *)
(* sent to the writer.                                                    *)
Receive ==
    /\ reader = "waiting"
    /\ SendResponse("idle")
    /\ UNCHANGED <<peerOpen, reset, shut, lines, gone, writer, written, drop>>

(* The socket is in TCP_CLOSE, no longer connected: it was reset, or both *)
(* ends sent their FIN.  getpeername and shutdown then fail (ENOTCONN).   *)
Disconnected == reset \/ (~peerOpen /\ shut)

(* lines.next() is None (a FIN, or our own shutdown): the loop ends and   *)
(* off_client is notified with stream.peer_addr().unwrap(), which panics  *)
(* the reader once the socket is disconnected.                            *)
ReadEOF ==
    /\ reader = "idle"
    /\ ~Readable
    /\ ~reset
    /\ \/ /\ reader' = "done"
          /\ gone' = TRUE
       \/ /\ Disconnected
          /\ reader' = "panicked"
          /\ UNCHANGED gone
    /\ UNCHANGED <<peerOpen, reset, shut, lines, outq, writer, written, drop>>

(* An idle timeout (WouldBlock) breaks the loop: off_client, clean exit.  *)
ReadTimeout ==
    /\ reader = "idle"
    /\ Readable
    /\ reader' = "done"
    /\ gone' = TRUE
    /\ UNCHANGED <<peerOpen, reset, shut, lines, outq, writer, written, drop>>

(* Any other read error (ECONNRESET on a reset connection): the error is *)
(* sent to the writer and the reader returns Err, skipping off_client.    *)
ReadError ==
    /\ reader = "idle"
    /\ reset
    /\ SendResponse("failed")
    /\ UNCHANGED <<peerOpen, reset, shut, lines, gone, writer, written, drop>>

-----------------------------------------------------------------------------
(* Writer thread                                                          *)

(* Some(response) is written with write_all: the write fails on a socket *)
(* shut by drop or reset by the peer (a peer that only closed still      *)
(* accepts it, and answers with a reset); a failure returns               *)
(* Err(closed_socket) and drops response_recv with what is queued.  None *)
(* ends the loop.                                                         *)
WriteSocket ==
    /\ writer = "running"
    /\ outq # <<>>
    /\ \/ /\ Head(outq) = "resp"
          /\ ~shut /\ ~reset
          /\ written' = written + 1
          /\ outq' = Tail(outq)
          /\ UNCHANGED writer
       \/ /\ Head(outq) = "resp"
          /\ shut \/ reset
          /\ writer' = "err"
          /\ outq' = <<>>
          /\ UNCHANGED written
       \/ /\ Head(outq) = "none"
          /\ writer' = "ok"
          /\ outq' = <<>>
          /\ UNCHANGED written
    /\ UNCHANGED <<peerOpen, reset, shut, reader, lines, gone, drop>>

-----------------------------------------------------------------------------
(* ClientHandler::drop, one statement a step                              *)

(* Mutant: the drop leaves the socket open.                              *)
DropShutdownNoShut ==
    /\ drop = "owned"
    /\ drop' = "shut"
    /\ UNCHANGED <<peerOpen, reset, shut, reader, lines, gone, outq, writer, written>>

(* The owner starts the drop: shutdown(Shutdown::Both).expect(..), which *)
(* panics the owner on a disconnected socket; the unwinding drops the     *)
(* join handles (the threads are detached) and response_snd.             *)
DropShutdown ==
    /\ drop = "owned"
    /\ IF Disconnected
       THEN drop' = "shutFailed" /\ UNCHANGED shut
       ELSE drop' = "shut" /\ shut' = TRUE
    /\ UNCHANGED <<peerOpen, reset, reader, lines, gone, outq, writer, written>>

(* Mutant: the join does not wait for read_socket to return.             *)
DropJoinReaderNoWait ==
    /\ drop = "shut"
    /\ drop' = "joinedReader"
    /\ UNCHANGED <<peerOpen, reset, shut, reader, lines, gone, outq, writer, written>>

(* in_thread.join(): waits for read_socket to return; its result, a      *)
(* panic included, is ignored.                                            *)
DropJoinReader ==
    /\ drop = "shut"
    /\ reader \in {"done", "failed", "panicked"}
    /\ drop' = "joinedReader"
    /\ UNCHANGED <<peerOpen, reset, shut, reader, lines, gone, outq, writer, written>>

(* response_snd.send(None).unwrap(): panics once response_recv is gone.   *)
DropSendNone ==
    /\ drop = "joinedReader"
    /\ IF writer = "running"
       THEN /\ outq' = Append(outq, "none")
            /\ drop' = "sentNone"
       ELSE /\ drop' = "panicked"
            /\ UNCHANGED outq
    /\ UNCHANGED <<peerOpen, reset, shut, reader, lines, gone, writer, written>>

(* out_thread.join(): waits for write_socket to return.                   *)
DropJoinWriter ==
    /\ drop = "sentNone"
    /\ writer # "running"
    /\ drop' = "dropped"
    /\ UNCHANGED <<peerOpen, reset, shut, reader, lines, gone, outq, writer, written>>

(* The peer closes its end (FIN) at any time.                            *)
PeerClose ==
    /\ peerOpen
    /\ peerOpen' = FALSE
    /\ UNCHANGED <<reset, shut, reader, lines, gone, outq, writer, written, drop>>

(* The connection is reset at any time before it is fully closed: the    *)
(* peer aborts, or it had closed and answers data we wrote with an RST.  *)
PeerReset ==
    /\ ~Disconnected
    /\ reset' = TRUE
    /\ peerOpen' = FALSE
    /\ UNCHANGED <<shut, reader, lines, gone, outq, writer, written, drop>>

-----------------------------------------------------------------------------
(* ClientHandler::new: both threads spawned on a connected socket.        *)
Init ==
    /\ peerOpen = TRUE
    /\ reset = FALSE
    /\ shut = FALSE
    /\ reader = "idle"
    /\ lines = 0
    /\ gone = FALSE
    /\ outq = <<>>
    /\ writer = "running"
    /\ written = 0
    /\ drop = "owned"

ReaderStep == ReadLine \/ Receive \/ ReadEOF \/ ReadTimeout \/ ReadError
DropStep == DropShutdown \/ DropJoinReader \/ DropSendNone \/ DropJoinWriter

Next == ReaderStep \/ WriteSocket \/ DropStep \/ PeerClose \/ PeerReset

(* Threads blocked on a channel or on a closed socket are scheduled; the *)
(* reply to a submitted command arrives (the dispatcher's guarantee).     *)
(* The peer, the idle timeout and the owner's decision to drop are not    *)
(* fair.                                                                  *)
Fairness ==
    /\ WF_vars(Receive)
    /\ WF_vars(~Readable /\ ReaderStep)
    /\ WF_vars(WriteSocket)
    /\ WF_vars(DropJoinReader \/ DropSendNone \/ DropJoinWriter)

Spec == Init /\ [][Next]_vars /\ Fairness

-----------------------------------------------------------------------------
TypeOK ==
    /\ peerOpen \in BOOLEAN
    /\ reset \in BOOLEAN
    /\ shut \in BOOLEAN
    /\ reader \in ReaderStates
    /\ lines \in 0..MaxLines
    /\ gone \in BOOLEAN
    /\ outq \in Seq({"resp", "none"})
    /\ writer \in WriterStates
    /\ written \in 0..MaxLines + 1
    /\ drop \in DropStates

(* Drop protocol (spec 4.1): the reader is joined before the poison pill  *)
(* is pushed, so no response is ever queued behind None, where the writer *)
(* would drop it unsent.                                                  *)
NothingBehindPoison ==
    \A i \in 1..Len(outq) : outq[i] = "none" => i = Len(outq)

(* ClientHandler::drop returns (or panics): the socket shutdown wakes a   *)
(* reader blocked in read, and the pill wakes the writer, so neither join *)
(* waits for ever, whatever the peer does.                                *)
DropCompletes ==
    (drop # "owned") ~> (drop \in {"dropped", "panicked", "shutFailed"})

(* Spec 4.1 and 4.6: drop is an orderly shutdown of both threads, and a  *)
(* connection the client broke is a CloseClient error after which the     *)
(* server continues; so the owner never panics in drop, neither at the   *)
(* expect of stream.shutdown nor at response_snd.send(None).unwrap().    *)
DropNeverPanics == drop \notin {"panicked", "shutFailed"}


=============================================================================
