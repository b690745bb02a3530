---------------------------- MODULE DelegatorTests ----------------------------
(***************************************************************************)
(* The harness of the tests in command_delegator.rs (test01, test02): a    *)
(* test thread, the dispatcher (CommandDelegator::init) and one database   *)
(* sub-executor started on a channel map of its own.  The test submits     *)
(* commands one at a time, blocking on each reply, and then joins the      *)
(* dispatcher (CommandDelegator::join) and the sub-executor                *)
(* (CommandSubDelegator::join).  The tests' fixed command lists are         *)
(* generalised to any list of up to MaxCmds names.  Replies are "ok" (an   *)
(* executor ran the command) or "err" (command_not_found).                 *)
(***************************************************************************)
EXTENDS Naturals, Sequences, SequencesExt

CONSTANTS Names,     \* command names the test thread may submit
          MaxCmds    \* commands submitted before the joins

ASSUME MaxCmds \in Nat

VARIABLES
    routes,   \* names the test's channel map sends to the executor
    drv,      \* the test thread: "ready", "waiting", "joinDel", "joinSub", "done", "panicked"
    n,        \* commands submitted
    last,     \* [name, reply] of the last reply asserted, or NoLast
    chan,     \* [1..MaxCmds -> Seq({"ok","err"})], rcv_dat_test of each command
    dinbox,   \* Seq(Msg): rcv_test_cmd, the dispatcher's inbox
    dAlive,   \* the dispatcher thread has not returned
    mapAlive, \* the senders in the channel map (until kill_senders)
    einbox,   \* Seq(Msg): rcv_cmd_dat, the sub-executor's inbox
    eAlive    \* the sub-executor thread has not returned

vars == <<routes, drv, n, last, chan, dinbox, dAlive, mapAlive, einbox, eAlive>>

NoLast == [name |-> "none", reply |-> "none"]
Msg == [kind: {"cmd"}, name: Names, k: 1..MaxCmds] \cup [kind: {"none"}]

(* test01: lpush, lpop and lset are sent to the database sub-executor.     *)
Test01Routes == {"lpush", "lpop", "lset"}

(* test02: only lpop and lset are; lpush is an unknown command.            *)
Test02Routes == {"lpop", "lset"}

(* Mutant: the test keeps its own clone of snd_cmd_dat, as the caller of   *)
(* CommandsMap::default does.                                              *)
HeldSendersDefault == 1

(* Inbox senders that outlive kill_senders: none, because the last insert *)
(* moves snd_cmd_dat into the channel map.                                 *)
HeldSenders == 0

(* A reply sender is alive while a message carrying it exists.            *)
HasSender(k) ==
    \E m \in ToSet(dinbox) \cup ToSet(einbox) : m.kind = "cmd" /\ m.k = k

-----------------------------------------------------------------------------
(* Test thread                                                            *)

(* snd_test_cmd.send(Some((buffer, snd_dat_test, fields))).unwrap(): a    *)
(* fresh reply channel; the send panics once the dispatcher's receiver is *)
(* gone.                                                                   *)
Submit(name) ==
    /\ drv = "ready"
    /\ n < MaxCmds
    /\ n' = n + 1
    /\ last' = [name |-> name, reply |-> "pending"]
    /\ IF dAlive
       THEN /\ dinbox' = Append(dinbox, [kind |-> "cmd", name |-> name, k |-> n + 1])
            /\ drv' = "waiting"
       ELSE /\ drv' = "panicked"
            /\ UNCHANGED dinbox
    /\ UNCHANGED <<routes, chan, dAlive, mapAlive, einbox, eAlive>>

(* rcv_dat_test.recv().unwrap(): the reply, whose kind the assertions     *)
(* then check; a channel whose senders are all gone panics the test.      *)
Await ==
    /\ drv = "waiting"
    /\ chan[n] # <<>> \/ ~HasSender(n)
    /\ IF chan[n] # <<>>
       THEN /\ last' = [last EXCEPT !.reply = Head(chan[n])]
            /\ drv' = "ready"
       ELSE /\ drv' = "panicked"
            /\ UNCHANGED last
    /\ UNCHANGED <<routes, n, chan, dinbox, dAlive, mapAlive, einbox, eAlive>>

(* drop(notifiers); command_delegator.join(): send_command_delegator(None),*)
(* its result ignored, then close_thread waits for the dispatcher.         *)
StartJoin ==
    /\ drv = "ready"
    /\ dinbox' = IF dAlive THEN Append(dinbox, [kind |-> "none"]) ELSE dinbox
    /\ drv' = "joinDel"
    /\ UNCHANGED <<routes, n, last, chan, dAlive, mapAlive, einbox, eAlive>>

DelegatorJoined ==
    /\ drv = "joinDel"
    /\ ~dAlive
    /\ drv' = "joinSub"
    /\ UNCHANGED <<routes, n, last, chan, dinbox, dAlive, mapAlive, einbox, eAlive>>

(* database_command_delegator.join(): waits for the sub-executor thread.  *)
SubJoined ==
    /\ drv = "joinSub"
    /\ ~eAlive
    /\ drv' = "done"
    /\ UNCHANGED <<routes, n, last, chan, dinbox, dAlive, mapAlive, einbox, eAlive>>

-----------------------------------------------------------------------------
(* Dispatcher thread (CommandDelegator::init)                             *)

(* Mutant: an unknown command is dropped without a reply.                 *)
DispatchUnknownSilent ==
    /\ dAlive
    /\ dinbox # <<>>
    /\ Head(dinbox).kind = "cmd"
    /\ Head(dinbox).name \notin routes
    /\ dinbox' = Tail(dinbox)
    /\ UNCHANGED <<routes, drv, n, last, chan, dAlive, mapAlive, einbox, eAlive>>

(* A name missing from the map is answered Err(command_not_found).        *)
DispatchUnknown ==
    /\ dAlive
    /\ dinbox # <<>>
    /\ LET m == Head(dinbox)
       IN /\ m.kind = "cmd"
          /\ m.name \notin routes
          /\ chan' = [chan EXCEPT ![m.k] = Append(@, "err")]
    /\ dinbox' = Tail(dinbox)
    /\ UNCHANGED <<routes, drv, n, last, dAlive, mapAlive, einbox, eAlive>>

(* delegate_jobs: the single Some(sender) slot forwards a clone.  The      *)
(* executor's receiver lives until its loop ends, which needs the map's   *)
(* senders gone, so this send cannot fail while the dispatcher runs.       *)
DispatchRoute ==
    /\ dAlive
    /\ dinbox # <<>>
    /\ LET m == Head(dinbox)
       IN /\ m.kind = "cmd"
          /\ m.name \in routes
          /\ einbox' = Append(einbox, m)
    /\ dinbox' = Tail(dinbox)
    /\ UNCHANGED <<routes, drv, n, last, chan, dAlive, mapAlive, eAlive>>

(* None breaks the loop; kill_senders drops the map's senders and the     *)
(* thread returns, dropping its inbox.                                     *)
DispatchPoison ==
    /\ dAlive
    /\ dinbox # <<>>
    /\ Head(dinbox).kind = "none"
    /\ dAlive' = FALSE
    /\ mapAlive' = FALSE
    /\ dinbox' = <<>>
    /\ UNCHANGED <<routes, drv, n, last, chan, einbox, eAlive>>

-----------------------------------------------------------------------------
(* Sub-executor thread (CommandSubDelegator::start)                       *)

(* The runnable runs and sender_to_client.send(..).unwrap() replies; the  *)
(* test's receivers live to the end of the test, so the send succeeds.    *)
ExecutorRun ==
    /\ eAlive
    /\ einbox # <<>>
    /\ chan' = [chan EXCEPT ![Head(einbox).k] = Append(@, "ok")]
    /\ einbox' = Tail(einbox)
    /\ UNCHANGED <<routes, drv, n, last, dinbox, dAlive, mapAlive, eAlive>>

(* rcv_cmd_dat.iter() ends once the inbox is empty and every sender of it *)
(* is dropped.                                                             *)
ExecutorExit ==
    /\ eAlive
    /\ einbox = <<>>
    /\ ~mapAlive
    /\ HeldSenders = 0
    /\ eAlive' = FALSE
    /\ UNCHANGED <<routes, drv, n, last, chan, dinbox, dAlive, mapAlive, einbox>>

-----------------------------------------------------------------------------
(* ARRANGE: the channel map of test01 or test02, both threads started.    *)
Init ==
    /\ routes \in {Test01Routes, Test02Routes}
    /\ drv = "ready"
    /\ n = 0
    /\ last = NoLast
    /\ chan = [k \in 1..MaxCmds |-> <<>>]
    /\ dinbox = <<>>
    /\ dAlive = TRUE
    /\ mapAlive = TRUE
    /\ einbox = <<>>
    /\ eAlive = TRUE

TestStep == (\E name \in Names : Submit(name)) \/ Await \/ StartJoin
            \/ DelegatorJoined \/ SubJoined
DispatcherStep == DispatchUnknown \/ DispatchRoute \/ DispatchPoison
ExecutorStep == ExecutorRun \/ ExecutorExit

Next == TestStep \/ DispatcherStep \/ ExecutorStep

(* Every thread blocked in recv or join is scheduled once it can go on;   *)
(* when the test stops submitting and starts its joins is its own choice. *)
Fairness ==
    /\ WF_vars(DispatcherStep)
    /\ WF_vars(ExecutorStep)
    /\ WF_vars(Await \/ DelegatorJoined \/ SubJoined)

Spec == Init /\ [][Next]_vars /\ Fairness

-----------------------------------------------------------------------------
(* The tests' assertions hold for every list of commands: no unwrap in    *)
(* the test thread panics, and the reply the test reads for a command is  *)
(* Ok exactly when the channel map routes its name (test01's unwrap of    *)
(* each response, test02's unwrap_err of command_not_found), although the *)
(* reply of a routed command comes from another thread than the error.   *)
TestAssertionsHold ==
    /\ drv # "panicked"
    /\ last.reply \in {"ok", "err"} => (last.reply = "ok" <=> last.name \in routes)

(* The joins at the end of each test return: the None makes the           *)
(* dispatcher leave its loop and kill_senders, which closes the           *)
(* sub-executor's inbox, so rcv_cmd_dat.iter() ends and that join returns  *)
(* too, whatever was still queued.                                        *)
TestCompletes == (drv = "joinDel") ~> (drv = "done")

=============================================================================
