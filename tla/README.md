# TLA+ models of the Rust-eze Redis server

This directory holds TLA+ models of the concurrent command pipeline in `src/`.
It also holds the TLC configurations that check them. Every module is
translated from the Rust source. The few definitions taken from `spec.md`
instead, because their code is not under `src/`, are marked `spec_modelled`
in `PROJECT.json`.

## 1. Inventory

### Components and their state

| Component | Source | State it keeps | Operations |
|---|---|---|---|
| Client handler | `tcp_protocol/client_handler.rs` | socket, shared `ClientFields`, reader and writer threads, outbound queue `response_snd` | `read_socket` (read line, frame, `is_allowed_to`, `delegate_command`: submit and block on a fresh reply channel), `write_socket`, `drop` |
| Command dispatcher | `tcp_protocol/command_delegator.rs` | `CommandsMap` (name to ordered list of slots), its inbox | `init` loop: `None` stops it, an unknown name gets `command_not_found`, a known name goes to `delegate_jobs` (one slot after the other), severity check, `kill_senders` |
| Command sub-executor | `tcp_protocol/command_subdelegator.rs` | the owned resource (Database or server attributes), its inbox | runs each command in FIFO order, sends the reply with `send(..).unwrap()` |
| Session status | `tcp_protocol/client_atributes/status.rs` | `Status` ∈ {Executor, Subscriber, Monitor, Dead} | `update_map` selects the runnables map (none for Monitor and Dead) |
| Pub/sub registry, `ClientFields`, shutdown coordinator, notifiers | not under `src/` | registry, subscriptions, shutdown flag | from spec 4.4 to 4.6 |
| Set commands | `commands/sets/srem.rs`, `scard.rs` | a keyspace of typed values | `Srem::run`, `Scard::run` |
| Server commands | `commands/server/flushdb.rs`, `config_set_log_fle.rs` | the keyspace; the log file name | `FlushDb::run`, `ConfigSetLogFile::run` |
| HTTP error | `server_html/error/http_error.rs` | a status code | `take` splits "404 Not Found" into code and text |

### How they interact

A client's reader thread sends `(argv, reply sender, Arc<Mutex<ClientFields>>)`
to the dispatcher's inbox. It then blocks on the reply receiver. The dispatcher
routes the command slot by slot:

- an executor slot gets a clone of the message, with a clone of the reply
  sender;
- an inline slot runs `review_command` and the runnable on the client's fields,
  in the dispatcher thread.

An executor runs the command and sends the reply. The reader forwards the
*first* reply to its writer thread, then drops the receiver. Every
communication is an unbounded `mpsc` channel:

- a send fails once the receiver is dropped;
- a `recv` fails once the queue is empty and every sender clone is dropped;
- dropping a receiver drops the queued messages, and the senders they carry.

The client fields are shared under a mutex by the reader (`is_allowed_to`), the
dispatcher (inline slots) and, per spec, the server executor (publish demotes
a subscriber whose writer is gone to Dead).

### What is hard

- **Two-slot commands.** `subscribe` and `unsubscribe` go to `[None, server]`.
  This gives two replies on one channel, read once, and two updates of related
  state (client status, registry) in two different threads.
- **Thread death.** An executor panics on a reply to a dropped receiver. The
  dispatcher escalates a send to a dead inbox to `ShutdownServer`.
- **Time of check and time of use.** The reader checks the status. The
  dispatcher reviews the command later, after other threads may have changed
  the status.
- **Shutdown by poison pill.** Commands queued behind the `None` are dropped
  with their reply senders. Their readers must still wake up.
- **Peers closing at any time.** This causes write failures, EOF and read errors.

### What makes each component correct

- Client handler: each line is answered exactly once and in order; a blocked
  reader is always released.
- Dispatcher: slots run in route order; only a requested shutdown or a real
  fatal error stops it; one client's traffic never stops it.
- Sub-executor: it never dies because a client left (spec 4.3).
- Session and registry: the registry and the subscriptions agree (spec 4.5).
  A status change takes effect before the client's next line is checked.

## 2. Plan

1. **`Pipeline`** (done): readers, writers, dispatcher, both executors, the
   registry and the shutdown request, in one module. The threads communicate
   only through the channels, so they form one state machine.
2. **`Keyspace`** (done): the Database executor's resource: `srem`,
   `scard`, `flushdb` and the `WRONGTYPE` rule, checked against a reference
   set semantics.
3. **`ClientLifecycle`** (done): one connection from `ClientHandler::new` to
   `ClientHandler::drop`, with the idle timeout, read errors and the
   `peer_addr` unwrap at `off_client`.
4. **`HttpError`** (done): `take` as a pure operator on sequences, checked
   against a split at the first space.
5. **`DelegatorTests`** (done): the harness of the dispatcher's unit tests,
   with the join sequence at shutdown and the sender that must not outlive
   `kill_senders`.
6. Next: let `Pipeline`'s database executor run `Keyspace`'s actions in
   place of its opaque reply. Compose `ClientLifecycle`'s drop with the
   server executor that calls it (`clear_client`). Both need the
   client registry, which is not under `src/`, and a smaller `Pipeline`
   instance to stay within TLC's reach.

## 3. Module `Pipeline`

State (one variable per thing the code keeps):

| Variable | Code |
|---|---|
| `reader`, `sent` | the `read_socket` thread: idle, `waiting` in `receiver.recv()`, `done` (EOF, `off_client`), `failed` (returned `Err`); lines read |
| `status` | `ClientFields` status |
| `outq`, `writerAlive`, `written` | `response_snd` queue, the `write_socket` thread, bytes on the socket |
| `peerOpen` | the peer has not closed its end (environment) |
| `gone` | clients reported with `notifiers.off_client` |
| `chan` | each reply channel: queued replies, receiver alive |
| `dinbox`, `dAlive`, `dCur` | the dispatcher inbox, its thread, the command being routed and its next slot |
| `einbox`, `eState` | executor inboxes; running, panicked or exited |
| `shutdownReq`, `registry` | spec-modelled shutdown request and pub/sub registry of one channel |

Senders are not counted. A reply sender is alive exactly while some message
carrying a clone of it exists (`HasSender`). So dropping an inbox (thread
death, `None`) releases the readers of the commands on it, as in Rust.

No refinement is checked. An abstract `ServerLifecycle` (the dispatcher
halts once, and the executors drain and exit) was dropped. Its safety half
only restated `ExecutorExit`'s guard, and its liveness half only restated
the model's own fairness. The one way the code could break it is the
database sender that `CommandsMap::default` returns to its caller (line 90).
That caller is not under `src/`. `DelegatorTests` checks the same question
on the tests' harness, where the sender is moved into the map.

Actions: `ReadCommand`, `Receive`, `ReadEOF`, `ReadError`, `Disconnect`,
`WriteSocket` (client side); `DispatchPoison`, `DispatchUnknown`,
`DispatchRoute`, `ForwardToExecutor`, `ForwardFailed`, `ReviewInline`,
`RunInline` (dispatcher);
`ExecutorRun`, `ExecutorExit` (executors). The `map` in `PROJECT.json` gives
the lines each one translates.

Abstractions:

- A command is its name and a reply is `[k, src]`: the number of the line it
  answers and the slot that produced it.
- RESP framing, argument values and the database contents are left out.
- A runnable's argument error is a nondeterministic outcome of the inline slot.
- One pub/sub channel.
- The inline (client-fields) slot takes two steps, as in the code:
  - `ReviewInline` is `case_client_status`, which takes the verdict of
    `review_command` under the fields lock. The lock is released at the end
    of that statement (line 240).
  - `RunInline` is `run_command`. The runnable locks the fields again
    (line 267) and acts on the status it finds then.

  The server executor's steps may fall between the two.
- `Disconnect` is any close of the peer. A write after it fails, which
  holds for a reset, but not always for a FIN (a half-closed peer may still
  accept bytes). No `Pipeline` property depends on the difference.
  `ClientLifecycle` models FIN and RST apart.

### Runs

| Run | Checks | Result |
|---|---|---|
| `pipeline_safety` | `TypeOK`, `OneReplyPerCommand`, `StatusSettledBeforeReply` | pass |
| `pipeline_threads` | `NoDatabasePanic`, `ReplyEventually` (liveness) | pass |
| `executor_panic` | `ExecutorsSurviveClosedReply` | violation |
| `unrequested_shutdown` | `ShutdownOnlyOnRequest` | violation |
| `message_after_unsubscribe` | `MessagesOnlyToSubscribers` | violation |
| `dead_revived` | `DeadIsTerminal` | violation |

What the violations show:

1. `command_subdelegator.rs:34`: a client sends `subscribe`. The inline slot
   replies, the reader forwards that reply and drops its receiver. The server
   executor's reply then hits `unwrap` on a closed channel, and the thread
   panics.
2. `command_delegator.rs:211`: the next command routed to the dead server
   executor (another client's `shutdown`, `publish`, `subscribe`, …) fails
   with `ShutdownServer`. The dispatcher stops for everyone.
3. `command_delegator.rs:82`: `unsubscribe` sets the client back to Executor
   in the dispatcher. A publish already queued at the server executor still
   finds the client in the registry and writes the message to it, possibly
   after the client's unsubscribe reply.

4. `command_delegator.rs:240`: `DeadIsTerminal` is spec 4.4's "status ==
   Dead is terminal", as an action property. The trace runs as follows:
   - Client c1 subscribes, and its peer closes. The writer fails on the
     subscribe reply and exits.
   - c1's second `subscribe` is reviewed while c1 is still a Subscriber, and
     the fields lock is released.
   - c2's `publish` runs on the server executor. It finds c1's writer gone
     and marks c1 Dead.
   - The `subscribe` runnable then sets c1 back to Subscriber.

   An `unsubscribe` in the same window would set Executor. The runnables are
   not under `src/`, so they are modelled from spec 4.4's transitions, which
   do not check the status again. The window itself is in `src/`: the review
   is stale when the runnable uses it.

What the passing runs do not reach: `ReplyEventually`'s run has one line per
client and no publish. So it never reaches a review that yields `Ok(None)`
because a publish marked the client Dead (hazard at `client_handler.rs:178`).
An instance that does reach it (subscribe and publish, two lines per
client) takes more than five minutes under liveness checking.

### Bounds

- Two clients (symmetric model values).
- Safety: two lines each, over `{publish, subscribe, unsubscribe}` (the
  two-slot commands and the server command that races them; a wider set
  takes TLC past five minutes).
- Threads: one line each, over `{set, config set, subscribe, monitor,
  shutdown, foo}`.

Two lines per client are enough for every sequence above:

- subscribe, then a second command;
- subscribe, then unsubscribe, against the other client's publish;
- a shutdown, with the other client's command queued behind the `None`
  (in the threads run, which has `shutdown`).

The safety run takes about a minute and a half, the threads run about ten
seconds. A threads run with two lines per client takes over five minutes
even with only `{subscribe, publish}`. So liveness is checked with one line
per client.

The passing runs say `CHECK_DEADLOCK FALSE`. Once the bounded clients have
sent their lines, every thread legitimately blocks in `recv` or on its socket,
which is the server idling.

### Fairness

There is weak fairness on the dispatcher, on each executor, and on each
reader's `Receive` and each writer's `WriteSocket`. These are OS threads
blocked only on a channel: once it is ready they are scheduled. The peers
(reading lines, closing sockets) get no fairness.

## 4. Module `Keyspace`

State: `db` maps each key to a typed value (`none` for a missing key; a set
keeps its members, strings and lists are opaque), `last` is the command the
executor ran with its arguments after the name, `reply` what it answered
(a kind and a count). `Init` is any database the other commands can build.

Actions, one per `run`: `Srem(args)`, `Scard(args)`, `FlushDb(args)`. Each
CASE arm is one branch of the function, in the order the code takes them:
`check_error_cases` first, then the `match` on the key's value. The loop
`.map(|m| item.remove(m)).filter(|x| *x).count()` is the RECURSIVE
operator `RemoveEach`, which removes the members one after the other and
counts the removals that found the member. `check_empty_and_name_command`
is not under `src/`; its effect (a bare `srem` or `scard` is "invalid
arguments") is taken from the tests.

| Run | Checks | Result |
|---|---|---|
| `keyspace` | `TypeOK`, `SremSetSemantics` (the recursive loop equals set difference and the size of the intersection), `TypeSafety` (spec 8: `WRONGTYPE` exactly on a string or list key, and then nothing changes) | pass |
| `scard_arity` | `ScardArityAsTested` | violation |

`scard_arity` shows `scard.rs:36` answering "wrong number of arguments" to
`scard key1 key2 key3`, where the file's own test07 expects "invalid
arguments".

Bounds: two keys, two members, `srem` with up to three members, so a
member is named twice or an absent one is named in the same call. Every
database of those keys is an initial state, so one step from `Init` covers
every (database, command) pair; no symmetry is used.

The two set commands disagree on the set variant: `srem` matches
`TypeSaved::Set`, `scard` matches `TypeSaved::Sets`. The database type is
not under `src/`; the model gives both commands one set tag (a hazard in
`PROJECT.json`).

## 5. Module `ClientLifecycle`

One connection of `client_handler.rs`. The dispatcher is the environment:
a submitted command is answered, which `Pipeline`'s `ReplyEventually`
guarantees. Responses are `"resp"` and the poison pill is `"none"`.

| Variable | Code |
|---|---|
| `peerOpen`, `reset`, `shut` | the peer's end closed (FIN); the connection reset (RST, the socket in TCP_CLOSE); `stream.shutdown(Both)` by drop |
| `reader`, `lines`, `gone` | `read_socket` thread (idle, waiting in `recv`, done, failed, panicked); lines read; `off_client` called |
| `outq`, `writer`, `written` | `response_snd` queue; `write_socket` thread; responses on the wire |
| `drop` | the statement of `ClientHandler::drop` reached |

Actions:

- reader: `ReadLine`, `Receive`, `ReadEOF`, `ReadTimeout` (WouldBlock),
  `ReadError`;
- writer: `WriteSocket`;
- `drop`: `DropShutdown`, `DropJoinReader`, `DropSendNone`, `DropJoinWriter`,
  one statement each;
- environment: `PeerClose` (FIN) and `PeerReset` (RST: the peer aborts, or
  it closed and answers a response written after that with a reset).

A closed peer gives EOF and still accepts writes. A reset gives a read error
(ECONNRESET) and failing writes. `Disconnected` is the socket in TCP_CLOSE,
after a reset or once both ends sent their FIN. In that state `peer_addr()`
and `shutdown()` fail with ENOTCONN. So `ReadEOF` may panic the reader at
the `unwrap` of line 141, and `DropShutdown` panics the owner at the
`expect` of line 234.

| Run | Checks | Result |
|---|---|---|
| `client_teardown` | `TypeOK`, `NothingBehindPoison`, `DropCompletes` (liveness) | pass |
| `drop_panic` | `DropNeverPanics` | violation |

- `drop_panic`: the owner panics inside `drop`, on either of two paths.
  - The peer resets and the owner drops the handler. The
    `shutdown(Shutdown::Both).expect(..)` at line 234 panics (`shutFailed`).
  - A response is still queued when `drop` shuts the socket. The writer's
    `write_all` fails, `write_socket` returns and drops the receiver, and
    `send(None).unwrap()` at line 242 panics (`panicked`).

  Either way the panic is in the thread that owns the handler, which is the
  clear_client or shutdown path, and the reader and writer threads are
  detached instead of joined. The spec says otherwise. Spec 4.1 calls drop
  an orderly shutdown. Its error table makes a broken client connection
  `CloseClient`: the handler is torn down and the server continues. TLC
  prints the shorter trace, which is the reset path. Both states are
  reachable (`DropCompletes` names both as ends of a drop).

Fairness: weak fairness on `Receive` (the dispatcher's reply), on the reader
once the socket is not readable (EOF or error), on the writer, and on the
three later statements of `drop`. None on the peer, the idle timeout or the
owner's decision to drop. Bound: two lines, so that a reply can be in
flight or queued when the drop or the close comes.

## 6. Module `HttpError`

`err` is the wrapped status text (a sequence of characters) and `result`
the pair `take` returned. `New` models `HttpError::new` and `From`. `Take`
consumes the error through `SplitOff`, which keeps characters 1-3
(`split_off(3)`) and drops the first character of the tail (`remove(0)`).
`TakeMatchesReference` compares it with `SplitAtFirstSpace` for every
status line whose code is three of two digits and whose reason has up to three characters over a letter
and a space (`http_error_take`, pass). `StatusCode::to_string` is not under
`src/`; its "code space reason" form is assumed (`spec_modelled`).

## 7. Module `DelegatorTests`

This module models the harness of `test01` and `test02` in
`command_delegator.rs`. Three threads run on the test's own channel map:

- the test thread;
- the dispatcher (`CommandDelegator::init`);
- one database sub-executor (`CommandSubDelegator::start`).

It is the only place under `src/` where the shutdown join sequence is
written out:

1. `CommandDelegator::join` sends `None` and waits for the dispatcher.
2. `CommandSubDelegator::join` waits for the sub-executor.

**State.**

- `routes` is the set of names the test's map sends to the executor:
  - `Test01Routes` holds lpush, lpop and lset;
  - `Test02Routes` holds lpop and lset.
- `drv` is where the test thread is.
- `chan[k]` is the reply channel of the k-th command.
- `dinbox` and `einbox` are the two inboxes.
- `dAlive`, `mapAlive` and `eAlive` record whether the dispatcher thread, the
  map's senders and the executor thread are still alive.
- Reply senders are tracked by `HasSender`, as in `Pipeline`.

**Generalisation.** The tests' fixed command lists become any list of up to
`MaxCmds` = 3 names. Each name is one of lpush, lpop or lset.

**Actions.**

- `Submit` is the `send(..).unwrap()`. It panics if the dispatcher is gone.
- `Await` is the `recv().unwrap()` and the assertions that follow it.
- `StartJoin` is `drop(notifiers)` and the `None` that the join sends.
- `DelegatorJoined` and `SubJoined` are the two joins returning.
- The dispatcher steps are `DispatchUnknown`, `DispatchRoute` and
  `DispatchPoison` (the last includes `kill_senders`).
- The executor steps are `ExecutorRun` and `ExecutorExit`. `ExecutorExit` is
  `rcv_cmd_dat.iter()` ending.

**The run `delegator_tests` (pass) checks two properties:**

- `TestAssertionsHold`: no unwrap in the test panics, and a reply is Ok
  exactly for a routed name.
- `TestCompletes`: both joins return.

**Mutants.**

- `HeldSendersDefault` keeps one clone of the executor's inbox sender past
  `kill_senders`, as the caller of `CommandsMap::default` does
  (`command_delegator.rs:90`). With it, `rcv_cmd_dat.iter()` never ends and
  the second join hangs.
- `DispatchUnknownSilent` drops an unknown command without a reply, and the
  test's `recv` panics.

**Fairness.** Weak fairness is assumed for three groups of steps:

- the dispatcher's steps;
- the executor's steps;
- the test thread's blocking steps (`Await` and the joins).

Each of these threads is blocked in `recv`, `iter` or `join`, and can go on
as soon as its channel or thread allows. When the test stops submitting is
its own choice, so `Submit` and `StartJoin` get no fairness.

**Deadlock.** The cfg sets `CHECK_DEADLOCK FALSE`. Once a test has joined
both threads it has finished, and that is the only state in which the model
stops.

## 8. Not modelled, and why

- RESP decoding and encoding: this is the codec, out of scope in spec 1.
  A malformed line is answered like a denied one and never reaches the
  dispatcher.
- `notify_successful_shipment` and monitor echo, logging, the acceptor, the
  HTTP surface: their code is not under `src/`, or it is pure I/O.
- The poisoned-lock error of `FlushDb::run` (no thread in the model panics
  holding the database lock) and `ConfigSetLogFile` (a log file name).
- The client registry that owns the handlers, `clear_client`, and the
  caller of `CommandsMap::default` that holds the extra database sender:
  not under `src/`.
- `ConfigSetLogFile::run`: it checks for an empty buffer and renames the log
  file through `change_logfilename`, which is not under `src/`. No
  property tells log file names apart.
- `CommandDelegator::start` and `CommandSubDelegator::start`: thread
  spawning. Spawn failure is not modelled; a thread exists from `Init`.
- `ClientHandler::new`'s `get_peer(..).unwrap()`: its caller, the
  acceptor, is not under `src/`. `ClientLifecycle` starts from a handler on
  a connected IPv4 socket (a hazard in `PROJECT.json`).
- The tests inside `srem.rs`, `scard.rs` and `command_subdelegator.rs`.
  Their expectations are checked only where they disagree with the code
  (`scard_arity`).
- The tests in `command_delegator.rs` are modelled by `DelegatorTests`.
- Lock poisoning: no thread in the model panics while it holds a
  `ClientFields` lock.
- The extra database inbox sender that `CommandsMap::default` returns:
  its holder is not under `src/`. `Pipeline` assumes the holder drops it at
  shutdown. The mutant `HeldSendersDefault` of `DelegatorTests` shows
  what happens if the holder keeps it: the executor's join hangs.
