------------------------------ MODULE Pipeline ------------------------------
(***************************************************************************)
(* The concurrent command pipeline of the Redis server.                    *)
(*                                                                         *)
(*  - one reader thread per client (client_handler.rs, read_socket and     *)
(*    delegate_command): reads a line, checks the session status, submits *)
(*    (argv, reply sender, fields) to the dispatcher and blocks on a fresh *)
(*    reply channel until one reply or a disconnection of every sender;    *)
(*  - one writer thread per client (write_socket) draining the outbound    *)
(*    queue to the socket;                                                 *)
(*  - the dispatcher (command_delegator.rs, CommandDelegator::init and     *)
(*    delegate_jobs) routing each command to its ordered list of slots:    *)
(*    an executor inbox, or "inline" on the client fields;                 *)
(*  - the sub-executors (command_subdelegator.rs) for the database and the *)
(*    server attributes, each running its inbox in FIFO order and sending  *)
(*    the reply with send(..).unwrap().                                    *)
(*                                                                         *)
(* Data is abstracted away: a command is its name, a reply is the slot     *)
(* that produced it and the number of the command it answers.  Rust mpsc   *)
(* semantics are kept: a send fails once the receiver is dropped, a recv   *)
(* fails once the queue is empty and every sender is dropped, and dropping *)
(* a receiver drops the senders held by the messages queued on it.         *)
(***************************************************************************)
EXTENDS Naturals, Sequences, SequencesExt

CONSTANTS Clients,    \* connected clients (model values)
          Commands,   \* command names a client may type
          MaxCmds     \* lines each client reads before it only waits

ASSUME MaxCmds \in Nat \ {0}

VARIABLES
    reader,      \* [Clients -> ReaderStates], state of each read_socket thread
    sent,        \* [Clients -> Nat], lines read so far by each reader
    status,      \* [Clients -> Status], ClientFields status (shared by Arc<Mutex>)
    peerOpen,    \* [Clients -> BOOLEAN], the peer has not closed its socket
    outq,        \* [Clients -> Seq(Reply)], response_snd -> write_socket queue
    writerAlive, \* [Clients -> BOOLEAN], write_socket still holds response_recv
    written,     \* [Clients -> Seq(Reply)], bytes written to the socket
    gone,        \* clients reported with notifiers.off_client
    chan,        \* [ChanIds -> [q: Seq(Reply), rcv: BOOLEAN]], reply channels
    dinbox,      \* Seq(Msg), the dispatcher's command inbox
    dAlive,      \* the dispatcher thread is still iterating its inbox
    dCur,        \* command being routed, next slot, inline review taken; or NoJob
    einbox,      \* [Executors -> Seq(Msg)], sub-executor inboxes
    eState,      \* [Executors -> {"running","panicked","exited"}]
    shutdownReq, \* a shutdown was requested by the shutdown command
    registry     \* clients in the pub/sub registry of the server executor

vars == <<reader, sent, status, peerOpen, outq, writerAlive, written, gone,
          chan, dinbox, dAlive, dCur, einbox, eState, shutdownReq, registry>>

Executors == {"database", "server"}
Inline == "client"                       \* the None slot of a route list
Status == {"Executor", "Subscriber", "Monitor", "Dead"}
ReaderStates == {"idle", "waiting", "done", "failed"}
ChanIds == Clients \X (1..MaxCmds)
Reply == [k: 0..MaxCmds,
          src: Executors \cup {Inline, "unknown", "denied", "recvErr", "readErr",
                                "message"}]
CmdMsg == [kind: {"cmd"}, cmd: Commands, ch: ChanIds]
PoisonMsg == [kind: {"none"}]            \* Option::None on the inbox
NoJob == [kind |-> "idle"]

(* Mutant: subscribe and unsubscribe reach the server executor before    *)
(* the client fields.                                                     *)
RoutesServerFirst ==
    [n \in {"set", "get", "clean", "strlen"} |-> <<"database">>]
    @@ [n \in {"config get", "config set", "clear_client", "notify_monitors",
               "shutdown", "publish"} |-> <<"server">>]
    @@ [n \in {"monitor"} |-> <<Inline>>]
    @@ [n \in {"subscribe", "unsubscribe"} |-> <<"server", Inline>>]

(* CommandsMap::default: command name -> ordered list of slots.           *)
Routes ==
    [n \in {"set", "get", "clean", "strlen"} |-> <<"database">>]
    @@ [n \in {"config get", "config set", "clear_client", "notify_monitors",
               "shutdown", "publish"} |-> <<"server">>]
    @@ [n \in {"monitor"} |-> <<Inline>>]
    @@ [n \in {"subscribe", "unsubscribe"} |-> <<Inline, "server">>]

(* Commands a session may issue in each status (ClientFields::is_allowed_to). *)
AllowedIn(s) ==
    CASE s = "Executor"   -> Commands
      [] s = "Subscriber" -> {"subscribe", "unsubscribe", "ping", "quit"}
      [] s = "Monitor"    -> {"quit"}
      [] s = "Dead"       -> {}

(* Outcome of ClientFields::review_command on the inline slot: the status  *)
(* selects a runnables map (Status::update_map); Monitor and Dead have     *)
(* none, so the review yields Ok(None).                                    *)
Review(s, cmd) ==
    IF s \in {"Monitor", "Dead"} THEN "none"
    ELSE IF s = "Subscriber" /\ cmd \notin {"subscribe", "unsubscribe"}
         THEN "err"
         ELSE "run"

(* Status after the inline runnable of cmd ran.                           *)
InlineEffect(s, cmd) ==
    CASE cmd = "subscribe"   -> "Subscriber"
      [] cmd = "unsubscribe" -> "Executor"
      [] cmd = "monitor"     -> "Monitor"
      [] OTHER               -> s

-----------------------------------------------------------------------------
(* Rust channel bookkeeping                                               *)

(* A reply sender is alive while a message carrying a clone of it exists. *)
HasSender(ch) ==
    \/ \E m \in ToSet(dinbox) : m.kind = "cmd" /\ m.ch = ch
    \/ \E e \in Executors : \E m \in ToSet(einbox[e]) : m.ch = ch
    \/ dCur # NoJob /\ dCur.msg.ch = ch

(* Sender::send on a reply channel: queued iff the receiver is alive.     *)
SendReply(ch, r) ==
    chan' = IF chan[ch].rcv
            THEN [chan EXCEPT ![ch].q = Append(@, r)]
            ELSE chan

(* client_handler send_response: push on the writer queue, or the reader  *)
(* returns Err(closed_sender) when write_socket has exited.               *)
Emit(c, r, next) ==
    IF writerAlive[c]
    THEN /\ outq' = [outq EXCEPT ![c] = Append(@, r)]
         /\ reader' = [reader EXCEPT ![c] = next]
    ELSE /\ reader' = [reader EXCEPT ![c] = "failed"]
         /\ UNCHANGED outq

-----------------------------------------------------------------------------
(* Client reader thread (read_socket)                                     *)

(* Mutant: fire-and-forget submission, the reply receiver is dropped at  *)
(* once and the reader goes on reading.                                   *)
ReadCommandNoWait(c, cmd) ==
    LET k == sent[c] + 1
        ch == <<c, k>>
    IN /\ reader[c] = "idle"
       /\ sent[c] < MaxCmds
       /\ sent' = [sent EXCEPT ![c] = k]
       /\ IF cmd \in AllowedIn(status[c])
          THEN /\ dinbox' = IF dAlive
                            THEN Append(dinbox, [kind |-> "cmd", cmd |-> cmd, ch |-> ch])
                            ELSE dinbox
               /\ UNCHANGED <<reader, chan, outq>>
          ELSE /\ Emit(c, [k |-> k, src |-> "denied"], "idle")
               /\ UNCHANGED <<chan, dinbox>>
       /\ UNCHANGED <<status, peerOpen, writerAlive, written, gone, dAlive,
                      dCur, einbox, eState, shutdownReq,
                   registry>>

(* A line is framed and status-checked (lines the peer sent before it    *)
(* closed are still read); a denied command is answered with *)
(* the error; an allowed one is submitted and the reader blocks on recv.  *)
(* The submission result is ignored (let _a = ...): a closed dispatcher   *)
(* inbox drops the message, and with it the only reply sender.            *)
ReadCommand(c, cmd) ==
    LET k == sent[c] + 1
        ch == <<c, k>>
    IN /\ reader[c] = "idle"
       /\ sent[c] < MaxCmds
       /\ sent' = [sent EXCEPT ![c] = k]
       /\ IF cmd \in AllowedIn(status[c])
          THEN /\ reader' = [reader EXCEPT ![c] = "waiting"]
               /\ chan' = [chan EXCEPT ![ch].rcv = TRUE]
               /\ dinbox' = IF dAlive
                            THEN Append(dinbox, [kind |-> "cmd", cmd |-> cmd, ch |-> ch])
                            ELSE dinbox
               /\ UNCHANGED outq
          ELSE /\ Emit(c, [k |-> k, src |-> "denied"], "idle")
               /\ UNCHANGED <<chan, dinbox>>
       /\ UNCHANGED <<status, peerOpen, writerAlive, written, gone, dAlive,
                      dCur, einbox, eState, shutdownReq,
                   registry>>

(* Mutant: every reply on the channel is forwarded (receiver.iter()), the *)
(* reader leaving only once the channel is closed.                        *)
ReceiveAll(c) ==
    LET ch == <<c, sent[c]>>
    IN /\ reader[c] = "waiting"
       /\ \/ /\ chan[ch].q # <<>>
             /\ Emit(c, Head(chan[ch].q), "waiting")
             /\ chan' = [chan EXCEPT ![ch].q = Tail(@)]
          \/ /\ chan[ch].q = <<>>
             /\ ~HasSender(ch)
             /\ Emit(c, [k |-> sent[c], src |-> "recvErr"], "idle")
             /\ chan' = [chan EXCEPT ![ch].rcv = FALSE]
       /\ UNCHANGED <<sent, status, peerOpen, writerAlive, written, gone,
                      dinbox, dAlive, dCur, einbox, eState, shutdownReq,
                   registry>>

(* receiver.recv() returns: the first reply is forwarded to the writer,   *)
(* or, every sender being gone, the "failed to receive" error.  The       *)
(* receiver is dropped when delegate_command returns.                     *)
Receive(c) ==
    LET ch == <<c, sent[c]>>
    IN /\ reader[c] = "waiting"
       /\ \/ /\ chan[ch].q # <<>>
             /\ Emit(c, Head(chan[ch].q), "idle")
          \/ /\ chan[ch].q = <<>>
             /\ ~HasSender(ch)
             /\ Emit(c, [k |-> sent[c], src |-> "recvErr"], "idle")
       /\ chan' = [chan EXCEPT ![ch].rcv = FALSE]
       /\ UNCHANGED <<sent, status, peerOpen, writerAlive, written, gone,
                      dinbox, dAlive, dCur, einbox, eState, shutdownReq,
                   registry>>

(* lines.next() yields None on a closed peer: off_client, clean exit.     *)
ReadEOF(c) ==
    /\ reader[c] = "idle"
    /\ ~peerOpen[c]
    /\ reader' = [reader EXCEPT ![c] = "done"]
    /\ gone' = gone \cup {c}
    /\ UNCHANGED <<sent, status, peerOpen, outq, writerAlive, written, chan,
                   dinbox, dAlive, dCur, einbox, eState, shutdownReq,
                   registry>>

(* lines.next() yields an I/O error (e.g. reset): the error is sent to    *)
(* the writer and the reader returns Err, without off_client.             *)
ReadError(c) ==
    /\ reader[c] = "idle"
    /\ ~peerOpen[c]
    /\ Emit(c, [k |-> sent[c], src |-> "readErr"], "failed")
    /\ UNCHANGED <<sent, status, peerOpen, writerAlive, written, gone, chan,
                   dinbox, dAlive, dCur, einbox, eState, shutdownReq,
                   registry>>

(* The peer closes its connection at any time.                            *)
Disconnect(c) ==
    /\ peerOpen[c]
    /\ peerOpen' = [peerOpen EXCEPT ![c] = FALSE]
    /\ UNCHANGED <<reader, sent, status, outq, writerAlive, written, gone, chan,
                   dinbox, dAlive, dCur, einbox, eState, shutdownReq,
                   registry>>

(* write_socket: write_all of the next response; a failed write returns   *)
(* Err(closed_socket), dropping response_recv and the queued responses.   *)
WriteSocket(c) ==
    /\ writerAlive[c]
    /\ outq[c] # <<>>
    /\ IF peerOpen[c]
       THEN /\ written' = [written EXCEPT ![c] = Append(@, Head(outq[c]))]
            /\ outq' = [outq EXCEPT ![c] = Tail(@)]
            /\ UNCHANGED writerAlive
       ELSE /\ writerAlive' = [writerAlive EXCEPT ![c] = FALSE]
            /\ outq' = [outq EXCEPT ![c] = <<>>]
            /\ UNCHANGED written
    /\ UNCHANGED <<reader, sent, status, peerOpen, gone, chan, dinbox, dAlive,
                   dCur, einbox, eState, shutdownReq,
                   registry>>

-----------------------------------------------------------------------------
(* Dispatcher thread (CommandDelegator::init)                             *)

(* Mutant: the loop ends but its receiver, and the commands queued on it, *)
(* stay alive.                                                            *)
DispatchPoisonKeepInbox ==
    /\ dAlive
    /\ dCur = NoJob
    /\ dinbox # <<>>
    /\ Head(dinbox).kind = "none"
    /\ dAlive' = FALSE
    /\ dinbox' = Tail(dinbox)
    /\ UNCHANGED <<reader, sent, status, peerOpen, outq, writerAlive, written,
                   gone, chan, dCur, einbox, eState, shutdownReq,
                   registry>>

(* None on the inbox ends the loop: kill_senders closes the executor      *)
(* inboxes and the receiver, with every queued command, is dropped.       *)
DispatchPoison ==
    /\ dAlive
    /\ dCur = NoJob
    /\ dinbox # <<>>
    /\ Head(dinbox).kind = "none"
    /\ dAlive' = FALSE
    /\ dinbox' = <<>>
    /\ UNCHANGED <<reader, sent, status, peerOpen, outq, writerAlive, written,
                   gone, chan, dCur, einbox, eState, shutdownReq,
                   registry>>

(* A name missing from the commands map is answered with command_not_found; *)
(* a failed send is Comunicate severity and is ignored.                   *)
DispatchUnknown ==
    /\ dAlive
    /\ dCur = NoJob
    /\ dinbox # <<>>
    /\ LET m == Head(dinbox)
       IN /\ m.kind = "cmd"
          /\ m.cmd \notin DOMAIN Routes
          /\ SendReply(m.ch, [k |-> m.ch[2], src |-> "unknown"])
    /\ dinbox' = Tail(dinbox)
    /\ UNCHANGED <<reader, sent, status, peerOpen, outq, writerAlive, written,
                   gone, dAlive, dCur, einbox, eState, shutdownReq,
                   registry>>

(* A routed command: delegate_jobs walks its slot list, one slot a step.  *)
DispatchRoute ==
    /\ dAlive
    /\ dCur = NoJob
    /\ dinbox # <<>>
    /\ LET m == Head(dinbox)
       IN /\ m.kind = "cmd"
          /\ m.cmd \in DOMAIN Routes
          /\ dCur' = [msg |-> m, slot |-> 1, reviewed |-> FALSE]
    /\ dinbox' = Tail(dinbox)
    /\ UNCHANGED <<reader, sent, status, peerOpen, outq, writerAlive, written,
                   gone, chan, dAlive, einbox, eState, shutdownReq,
                   registry>>

(* Mutant: off-by-one end of the slot loop.                               *)
AfterSlotPastEnd(job) ==
    IF job.slot > Len(Routes[job.msg.cmd]) THEN NoJob
    ELSE [job EXCEPT !.slot = @ + 1, !.reviewed = FALSE]

SlotOf(job) == Routes[job.msg.cmd][job.slot]
AfterSlot(job) ==
    IF job.slot = Len(Routes[job.msg.cmd]) THEN NoJob
    ELSE [job EXCEPT !.slot = @ + 1, !.reviewed = FALSE]

(* Some(sender) slot: a clone of the raw command goes to the executor.    *)
ForwardToExecutor ==
    /\ dCur # NoJob
    /\ SlotOf(dCur) \in Executors
    /\ eState[SlotOf(dCur)] = "running"
    /\ einbox' = [einbox EXCEPT ![SlotOf(dCur)] = Append(@, dCur.msg)]
    /\ dCur' = AfterSlot(dCur)
    /\ UNCHANGED <<reader, sent, status, peerOpen, outq, writerAlive, written,
                   gone, chan, dinbox, dAlive, eState, shutdownReq,
                   registry>>

(* The executor's receiver is gone: closed_sender(ShutdownServer) is      *)
(* critical, force_shutdown_server, break, kill_senders; the inbox and    *)
(* the raw command being routed are dropped.                              *)
ForwardFailed ==
    /\ dCur # NoJob
    /\ SlotOf(dCur) \in Executors
    /\ eState[SlotOf(dCur)] # "running"
    /\ dAlive' = FALSE
    /\ dinbox' = <<>>
    /\ dCur' = NoJob
    /\ UNCHANGED <<reader, sent, status, peerOpen, outq, writerAlive, written,
                   gone, chan, einbox, eState, shutdownReq,
                   registry>>

(* None slot, first step: case_client_status locks the client fields,   *)
(* takes review_command's verdict and releases the lock at the end of the *)
(* statement.  A review error is sent and aborts the remaining slots     *)
(* (normal error); Ok(None) aborts without a reply (run_command's else);  *)
(* Ok(Some(runnable)) goes on to run_command with the lock released.      *)
ReviewInline ==
    /\ dCur # NoJob
    /\ SlotOf(dCur) = Inline
    /\ ~dCur.reviewed
    /\ LET m == dCur.msg
           r == Review(status[m.ch[1]], m.cmd)
       IN \/ /\ r = "err"
             /\ SendReply(m.ch, [k |-> m.ch[2], src |-> "denied"])
             /\ dCur' = NoJob
          \/ /\ r = "none"
             /\ dCur' = NoJob
             /\ UNCHANGED chan
          \/ /\ r = "run"
             /\ dCur' = [dCur EXCEPT !.reviewed = TRUE]
             /\ UNCHANGED chan
    /\ UNCHANGED <<reader, sent, status, peerOpen, outq, writerAlive, written,
                   gone, dinbox, dAlive, einbox, eState, shutdownReq,
                   registry>>

(* None slot, second step: runnable.run locks the fields again and acts  *)
(* on the status it finds then; its result is sent.  An error result, or *)
(* a closed reply channel (CloseClient), aborts the remaining slots       *)
(* (run_command, result.map).                                             *)
RunInline ==
    /\ dCur # NoJob
    /\ SlotOf(dCur) = Inline
    /\ dCur.reviewed
    /\ LET m == dCur.msg
           c == m.ch[1]
       IN \/ /\ SendReply(m.ch, [k |-> m.ch[2], src |-> "denied"]) \* e.g. its arguments
             /\ dCur' = NoJob
             /\ UNCHANGED status
          \/ /\ status' = [status EXCEPT ![c] = InlineEffect(@, m.cmd)]
             /\ SendReply(m.ch, [k |-> m.ch[2], src |-> Inline])
             /\ dCur' = IF chan[m.ch].rcv THEN AfterSlot(dCur) ELSE NoJob
    /\ UNCHANGED <<reader, sent, peerOpen, outq, writerAlive, written, gone,
                   dinbox, dAlive, einbox, eState, shutdownReq,
                   registry>>

-----------------------------------------------------------------------------
(* Sub-executor threads (CommandSubDelegator::start)                      *)

(* CommandDelegator::join: send_command_delegator(None), its result      *)
(* ignored; a dispatcher already gone drops the None with its receiver.   *)
JoinDelegator ==
    dinbox' = IF dAlive THEN Append(dinbox, [kind |-> "none"]) ELSE dinbox

(* Runnables of the server executor that change state.  shutdown asks   *)
(* the coordinator to stop, which joins the dispatcher (JoinDelegator).   *)
(* subscribe and unsubscribe update the registry of the (single, model)   *)
(* channel.  publish writes the message to every registered client; a     *)
(* client whose writer is gone is marked Dead and dropped from the        *)
(* registry.                                                              *)
ServerEffect(m) ==
    LET c == m.ch[1]
        live == {r \in registry : writerAlive[r]}
    IN CASE m.cmd = "shutdown" ->
              /\ shutdownReq' = TRUE
              /\ JoinDelegator
              /\ UNCHANGED <<registry, status, outq>>
         [] m.cmd = "subscribe" ->
              /\ registry' = registry \cup {c}
              /\ UNCHANGED <<shutdownReq, dinbox, status, outq>>
         [] m.cmd = "unsubscribe" ->
              /\ registry' = registry \ {c}
              /\ UNCHANGED <<shutdownReq, dinbox, status, outq>>
         [] m.cmd = "publish" ->
              /\ outq' = [r \in Clients |->
                            IF r \in live
                            THEN Append(outq[r], [k |-> 0, src |-> "message"])
                            ELSE outq[r]]
              /\ status' = [r \in Clients |->
                              IF r \in registry \ live THEN "Dead" ELSE status[r]]
              /\ registry' = live
              /\ UNCHANGED <<shutdownReq, dinbox>>
         [] OTHER -> UNCHANGED <<shutdownReq, dinbox, registry, status, outq>>

(* Run the head command and send its reply with send(..).unwrap(): a      *)
(* dropped reply receiver panics the thread, which drops its inbox.       *)
ExecutorRun(e) ==
    /\ eState[e] = "running"
    /\ einbox[e] # <<>>
    /\ LET m == Head(einbox[e])
       IN /\ IF e = "server" THEN ServerEffect(m)
                             ELSE UNCHANGED <<shutdownReq, dinbox, registry,
                                              status, outq>>
          /\ IF chan[m.ch].rcv
             THEN /\ SendReply(m.ch, [k |-> m.ch[2], src |-> e])
                  /\ einbox' = [einbox EXCEPT ![e] = Tail(@)]
                  /\ UNCHANGED eState
             ELSE /\ eState' = [eState EXCEPT ![e] = "panicked"]
                  /\ einbox' = [einbox EXCEPT ![e] = <<>>]
                  /\ UNCHANGED chan
    /\ UNCHANGED <<reader, sent, peerOpen, writerAlive, written, gone, dAlive,
                   dCur>>

(* rcv.iter() ends once the inbox is drained and kill_senders dropped the *)
(* senders, which happens when the dispatcher loop ends.                  *)
ExecutorExit(e) ==
    /\ eState[e] = "running"
    /\ einbox[e] = <<>>
    /\ ~dAlive
    /\ eState' = [eState EXCEPT ![e] = "exited"]
    /\ UNCHANGED <<reader, sent, status, peerOpen, outq, writerAlive, written,
                   gone, chan, dinbox, dAlive, dCur, einbox, shutdownReq,
                   registry>>

-----------------------------------------------------------------------------
Init ==
    /\ reader = [c \in Clients |-> "idle"]
    /\ sent = [c \in Clients |-> 0]
    /\ status = [c \in Clients |-> "Executor"]
    /\ peerOpen = [c \in Clients |-> TRUE]
    /\ outq = [c \in Clients |-> <<>>]
    /\ writerAlive = [c \in Clients |-> TRUE]
    /\ written = [c \in Clients |-> <<>>]
    /\ gone = {}
    /\ chan = [ch \in ChanIds |-> [q |-> <<>>, rcv |-> FALSE]]
    /\ dinbox = <<>>
    /\ dAlive = TRUE
    /\ dCur = NoJob
    /\ einbox = [e \in Executors |-> <<>>]
    /\ eState = [e \in Executors |-> "running"]
    /\ shutdownReq = FALSE
    /\ registry = {}

ClientStep(c) ==
    \/ \E cmd \in Commands : ReadCommand(c, cmd)
    \/ Receive(c)
    \/ ReadEOF(c)
    \/ ReadError(c)
    \/ Disconnect(c)
    \/ WriteSocket(c)

DispatcherStep ==
    \/ DispatchPoison
    \/ DispatchUnknown
    \/ DispatchRoute
    \/ ForwardToExecutor
    \/ ForwardFailed
    \/ ReviewInline
    \/ RunInline

Next ==
    \/ \E c \in Clients : ClientStep(c)
    \/ DispatcherStep
    \/ \E e \in Executors : ExecutorRun(e) \/ ExecutorExit(e)

(* Every thread that is blocked only on a channel it will be woken from  *)
(* is eventually scheduled; the peers (reads, disconnects) are not fair.  *)
Fairness ==
    /\ WF_vars(DispatcherStep)
    /\ \A e \in Executors : WF_vars(ExecutorRun(e)) /\ WF_vars(ExecutorExit(e))
    /\ \A c \in Clients : WF_vars(Receive(c)) /\ WF_vars(WriteSocket(c))

Spec == Init /\ [][Next]_vars /\ Fairness

-----------------------------------------------------------------------------
TypeOK ==
    /\ reader \in [Clients -> ReaderStates]
    /\ sent \in [Clients -> 0..MaxCmds]
    /\ status \in [Clients -> Status]
    /\ peerOpen \in [Clients -> BOOLEAN]
    /\ outq \in [Clients -> Seq(Reply)]
    /\ writerAlive \in [Clients -> BOOLEAN]
    /\ written \in [Clients -> Seq(Reply)]
    /\ gone \subseteq Clients
    /\ chan \in [ChanIds -> [q: Seq(Reply), rcv: BOOLEAN]]
    /\ dinbox \in Seq(CmdMsg \cup PoisonMsg)
    /\ dAlive \in BOOLEAN
    /\ dCur \in {NoJob} \cup [msg: CmdMsg, slot: Nat \ {0}, reviewed: BOOLEAN]
    /\ dCur # NoJob => dCur.slot \in 1..Len(Routes[dCur.msg.cmd])
    /\ einbox \in [Executors -> Seq(CmdMsg)]
    /\ eState \in [Executors -> {"running", "panicked", "exited"}]
    /\ shutdownReq \in BOOLEAN
    /\ registry \subseteq Clients

(* The database executor never panics: every reply it sends to a single- *)
(* slot command finds its receiver, because read_socket blocks in         *)
(* delegate_command on that receiver until the reply arrives.             *)
NoDatabasePanic == eState["database"] # "panicked"

(* Spec 4.3: a reply send to a client that is gone is non-fatal, so no    *)
(* executor thread dies of it (command_subdelegator.rs send(..).unwrap()). *)
ExecutorsSurviveClosedReply == \A e \in Executors : eState[e] # "panicked"

(* Spec 7: the dispatcher stops routing (ShutdownServer) only once a      *)
(* shutdown was requested, never because of one client's traffic.         *)
ShutdownOnlyOnRequest == ~dAlive => shutdownReq

(* Each command line is answered on the socket at most once and in the    *)
(* order the lines were read (publish messages aside), although subscribe and unsubscribe produce  *)
(* two replies (inline slot and server executor) on the same channel.     *)
OneReplyPerCommand ==
    \A c \in Clients :
        LET s == SelectSeq(written[c] \o outq[c], LAMBDA r : r.src \notin {"readErr", "message"})
        IN \A i, j \in DOMAIN s : i < j => s[i].k < s[j].k

(* When a reader has its reply and may read the next line, the inline    *)
(* (client-fields) slot of that command has already run: the status it   *)
(* checks with is_allowed_to is the one the command left behind.          *)
StatusSettledBeforeReply ==
    \A c \in Clients :
        (reader[c] # "waiting" /\ dCur # NoJob /\ dCur.msg.ch = <<c, sent[c]>>)
            => Inline \notin ToSet(SubSeq(Routes[dCur.msg.cmd], dCur.slot,
                                          Len(Routes[dCur.msg.cmd])))

(* A reader blocked in delegate_command is always released, by a reply or *)
(* by every sender of its channel being dropped (after a shutdown, an     *)
(* executor panic, or a review that yields no runnable).                  *)
ReplyEventually ==
    \A c \in Clients : (reader[c] = "waiting") ~> (reader[c] # "waiting")

(* Spec 4.5: the registry and the client's subscriptions agree, so a      *)
(* publish writes its message only to a client whose session status is    *)
(* Subscriber, never to one already told that its unsubscribe succeeded.  *)
MessagesOnlyToSubscribers ==
    [][\A r \in Clients :
          Len(outq'[r]) > Len(outq[r]) /\ Last(outq'[r]).src = "message"
              => status[r] = "Subscriber"]_vars

(* Spec 4.4 (and its invariant list): Dead is terminal.  A publish marks *)
(* a subscriber whose writer is gone Dead; an unsubscribe of that client *)
(* already reviewed in Subscriber status (case_client_status releases    *)
(* the fields lock before runnable.run takes it again) must not bring    *)
(* the session back to Executor.                                          *)
DeadIsTerminal ==
    [][\A c \in Clients : status[c] = "Dead" => status'[c] = "Dead"]_vars

=============================================================================
