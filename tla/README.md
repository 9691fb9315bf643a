# pymod: a TLA+ model

`pymod` is a Modbus client and server library on asyncio. This directory models
the parts of it that keep state and interleave (the three transports, the batch
planner, the server, the synchronous client, the one-shot commands and their
simulator) and the pure parts they rest on (framing, PDU and register codecs,
the command line and the wizard that writes one). TLC checks them on small
instances; TLAPS proves their safety properties for every size, except those of
the bytes on the wire.

Paths below are relative to the package, `src/src/pymod/`, unless they say
otherwise. `PROJECT.json` maps every definition to the lines it models.

## 1. Inventory

| Component | State | Operations | What is hard |
|---|---|---|---|
| Transport contract (`transport/base.py`) | closed or not | `connect`, `close`, `send_and_receive` | a promise three implementations keep differently |
| TCP transport (`transport/tcp.py`) | `_connected`, `_closed`, `_reader`/`_writer`, `_read_task`, `_next_tid`, `_pending`, two locks | the above, `_read_loop`, `_teardown`, `_allocate_tid` | pipelined calls demultiplexed by TID, late answers, TID wrap-around, overlapping teardowns, cancellation |
| RTU over TCP (`transport/rtu_over_tcp.py`, `_rtu_response.py`) | `_closed`, stream, `_lock` | the same three | frames without ids: what an abandoned transaction leaves in the stream |
| Serial (`transport/serial.py`) | `_serial`, `_closed`, `_lock`, `_last_op_monotonic` | the same three, `_exchange_blocking` in an executor thread | the thread outlives a cancelled task; inter-frame gap |
| Server (`server.py`) | `_server`, `_connections`, `_client_tasks` | `start`, `stop`, `_on_client`, `_dispatch` | start/stop races, the connection limit, hanging callbacks |
| Planner (`planner.py`, `_types.py`) | a plan of chunks, their results | `plan_and_execute_reads`, `plan_and_execute_writes` | merge and split boundaries, concurrent chunks, partial failure |
| Client (`client.py`, `retry.py`) | transport, background loop and its thread | `execute`, `read`, `write`, `connect`, `close` | retries; several threads on one loop; stopping the loop under them |
| Framing (`protocol/adu_tcp.py`, `adu_rtu.py`) | none | encode, decode, frame length | lengths inferred from unchecked bytes, CRC |
| PDU codec (`protocol/pdu.py`) | custom codecs | encode and decode per function code, for client and server; `register_codec` | two sides that must agree on limits, byte counts and bit order |
| Register codec (`codec/`) | none | typed values to and from registers, bits of blocks | word and byte order, signs and ranges, bit numbers |
| Errors, logging (`errors.py`, `logging.py`) | none | | |
| Command line (`cli.py`) | one process per command: namespace, client, exit code | `read`, `write`, `scan` | a typed value spread over several requests; retries over lost connections; what an exit code tells a script |
| Guide (`_guide.py`) | the answers so far | `build_namespace` | three copies of every default: parser, prompts, printed command |
| Simulator (`cli.py`) | the four maps of `_SimState` | `serve`, callbacks `read` and `write` | one memory under the handlers of all connections |

How they interact: `Client` runs `AsyncClient` coroutines on a loop of its own;
`AsyncClient.execute` retries `Transport.send_and_receive`; the planner runs
several `execute` calls concurrently through `asyncio.gather`, and it is what
makes a pipelined transport see concurrent calls. The server is the other end of
a TCP connection and shares only the framing with the client side. A command
makes one client for one batch; the simulator is a `Server` whose callbacks work
on one dictionary per area; the guide hands a command its namespace without going
through the parser.

What makes each part correct:

* transports: a response goes to the call it answers; a call returns or raises
  once, in the end; nothing is left registered, connected or locked behind it;
  `close()` is final;
* planner: the requests cover exactly what was asked for, and each item's result
  depends on its own requests only;
* server: the limit counts live connections, responses keep the order of the
  requests, `stop()` returns and leaves nothing it could have stopped;
* client: no request is repeated beyond the policy, no thread waits for good;
* codecs and framing: both sides agree on every request and response, a reader
  takes exactly one frame from the stream, damage does not go unnoticed, and
  registers mean what the documentation of their layout says;
* commands: the printed command does what the wizard does, an exit code tells the
  truth about the device, a value is torn only where it must be, and every
  command ends.

`PROJECT.json` lists the hazards at their lines, each with its properties.

## 2. How the models correspond to the code

asyncio code runs without interruption between two suspensions. An action of
`TcpTransport`, `RtuOverTcp`, `Server` and of the event-loop part of
`SerialTransport` is exactly such a stretch: from the `await` where a task is
suspended (its `pc`) to the next `await` that really suspends. An `await` that
does not suspend (an uncontended lock, `drain()` on an empty buffer,
`wait_closed()` of a connection already lost) does not end an action. Helpers are
named for the method or the part of a method they stand for (`Send`, `Locked`,
`Teardown`, `Finish`), and actions combine them the way the code calls them.
Executor threads (`SerialTransport`) and user threads (`Client`) interleave with
the loop at every step others can see.

The models follow asyncio as of Python 3.11: `asyncio.Lock` is fair, and a
newcomer queues behind waiters even when the lock is free; the timer of
`wait_for` cancels the inner future and the call resumes in a later step;
`Server.wait_closed()` returns without suspending once the server is closed; a
task cancelled before its first step never runs its body. From 3.12.1 on
`Server.wait_closed()` waits for the connections too, and a client accepted late in
`stop()` could hold it; `OnlyClientsHoldStop` is about 3.11.

| Module | Models | Notes on the abstraction |
|---|---|---|
| `Transport` | the contract of `base.py` | idle/active/done calls, requests on the wire, answers |
| `TcpTransport` | `tcp.py` | one task per call, connector, `close()` and read loop; a connection and its read loop share a number |
| `RtuOverTcp` | `rtu_over_tcp.py`, `_rtu_response.py` | a connection holds a queue of frames; a frame is the request it answers and what the parser makes of it |
| `SerialTransport` | `serial.py`, `_rtu_response.py` | tasks and executor threads apart; time is "less than a frame gap ago" |
| `Server` | `server.py` | a handler per client; a request is its kind, a response its code and the request it answers |
| `Plan` | merging and cutting in `planner.py` | pure operators, shared by `Planner` and `Cli` |
| `Codec` | `codec/` | pure operators; the width of a byte is a parameter, a float is its bit pattern. The last section states the layouts a second time, by the weight of each byte |
| `Planner` | `planner.py`, item types | typed items; a unit read is (address, version of the memory, content) |
| `Pdu`, `Adu` | `protocol/` and the reader of `_rtu_response.py` | real byte sequences; pure operators |
| `Exchange` | one transaction through `Pdu` and `Adu` | client, server or RTU slave, and noise on the line |
| `Client` | `client.py`, `retry.py` | user threads, coroutines, and the loop's life from `run_forever` to the thread's end |
| `CommandLine` | the parser, the wizard, the printed command | pure operators; a namespace is a function on option names, a free text its shape to the shell and to argparse |
| `Cli` | `read`, `write`, `scan` and `serve` | a process per command, its requests and attempts, a pipe per connection; a register's content is who wrote it |
| `MC...` | | instances for TLC |
| `TcpTransportProofs`, `RtuOverTcpProofs`, `SerialTransportProofs`, `ServerProofs`, `ClientProofs`, `CliProofs`, `PlanProofs`, `PlannerProofs` | | theorems and proofs; no definition of theirs models code |

Variables marked *history* (`wraps`, `gen`, `rivals`, `asked`, `late`, `landed`) are read by
no guard that models code (`asked` also plays the socket's receive buffer); they
only let a property speak of the past.

Operators whose comment begins with *Fault* are not part of a specification.
Each is a plausible slip in the definition that follows it (a dropped guard, a
missing reset, an off-by-one), kept to show that the properties would notice;
`PROJECT.json` pairs each property with one.

### Environment assumptions

* A slave echoes the TID of the request it answers, and may answer late, twice,
  out of order or never. A frame with a TID nobody waits for is a no-op in the
  code and therefore no step in the model.
* The user may cancel the calls in `Cancellable` wherever they are suspended.
  Tasks running `close()`, `start()` and `stop()` are not cancelled.
* `TcpTransport`: the read loop of an old connection has taken its first step
  before a later dial succeeds, because it was scheduled before the dial's I/O.
* `SlowClose` is FALSE where a closing socket is assumed to be gone before the
  next dial succeeds, and TRUE where a dial may overtake it. Two theorems
  (`ReaderAlive`, `LossIsReal`) have `~SlowClose` as their hypothesis; the others
  hold either way.
* `Planner` uses its executor by contract: an accepted request ends in a response
  or a `ModbusError`, possibly after the device has acted on it.
* `Cli` composes the retry loop, the plan and the server's dispatch over one
  abstract connection; that responses are matched to attempts is `TcpTransport`'s
  matter. What a client has sent may be served after the client has lost the
  connection, exited or been interrupted, up to the point where the server sees
  the end of the connection (`Hangup`). The few bytes a command sends fit the
  socket's buffers. Serial and RTU-over-TCP commands reach no simulator, and their
  `connect` fails.
* `Shell`: an unquoted word without characters special to the shell is taken as it
  is, and so is a double-quoted one with spaces.

## 3. Runs

Bounds are named in the modules. They are chosen so that the smallest
interesting conflict occurs with one actor to spare.

| Run | Instance | Shows |
|---|---|---|
| `tcp_pipelined` | 3 calls (one cancellable), 1 `close()`, 2 connections, TID space 2, slow closes | the TID space wraps with three calls on two TIDs. `CrossTalkOnlyAfterWrap`: a response reaches another call only a full turn later. `RegisteredWhileWaiting`, `NoLeakedRegistration`: the pending map matches the waiting calls. `StreamConsistent`, `AwaitsYounger`: overlapping teardowns. `FuturesResolveOnce` |
| `tcp_prompt_close` | 3 calls (one malformed), a connector, a `close()`, TID space 3 | without wrap-around and slow closes `TcpTransport` implements `Transport` (`ImplementsTransport`), a connected transport has a live read loop, and "connection lost" is told only to calls of a lost connection |
| `tcp_live` | `pipeline=False`, 2 calls (one cancellable), a `close()`, TID space 1 | `SerialExclusive`; `OnlyPeerHoldsTasks`: every call and `close()` that starts ends, or some peer has stopped reading for good |
| `rtu_tcp` | 3 calls (one cancellable, one with a bad unit id), a connector, a `close()`, good frames and unknown function codes | a stale frame reaches a later call only after a cancellation or a protocol error; `close()` is final; `OnlyPeerHoldsTasks` |
| `serial` | 2 calls, a connector, a `close()`, 2 openings of the port | exchanges overlap, answers go stale, ports stay open and the gap is skipped only in the circumstances the properties name (the gap: only behind traffic of calls given up before their complete answer was read); `NoResponseAfterPortLoss`: nothing that starts after the adapter is gone ever succeeds; termination |
| `planner` | batches of up to three reads and two writes around the end of a small address space, PDU limits 2 and 3; every dtype, both orders twice over, all bit indices; defective items | `ReadPlanExact`: the plan is a minimal exact cover. `ReadsAreSlices`, `FailuresIsolated`, `WriteOkMeansApplied`: results, under every order of replies and failures and a change of memory in between. `ReadsDecodeAsDocumented`: typed values and bits against the documented layouts |
| `server` | 2 `start()`, 1 `stop()`, 2 clients at a limit of 1, up to 2 requests | the limit, what may survive `stop()`, what listener may be lost, the order of responses, and `OnlyClientsHoldStop`: `stop()` returns although callbacks may hang, unless a client never reads |
| `wire` | 229 requests of all function codes around 0, 1, 8, the limits and the ends of the address space; noise of one byte (all 255 changes) or two adjacent bytes on the frames of 7 requests and their responses | client and server understand each other (`ExchangeUnderstood`), with the table-driven CRC against the standard's bitwise one; readers take one frame (`FramesSelfDelimiting`); `DamageDetected` |
| `client` | 2 calling threads (policies with 0 and 2 attempts), 2 closing threads | `RetryDiscipline`: attempts follow the policy, and none starts once `close()` has begun, not even out of a backoff; `ThreadsReturn`: `close()` returns even if the transport's close hangs or two threads close at once, and calls return unless `close()` ended the loop under them |
| `cli` | 5 pairs of commands that race on the same registers, 18 odd commands, 3 kinds of simulator, the wizard with every answer at and off its default; PDU limit 3, one lost connection per command | `GuideTeachesTheCommand`, `ExitStatusTruthful`, `TornOnlyAcrossRequests`, `CommandsEnd` |

Why this is enough: each conflict involves at most two calls and a third party
(a `close()`, a reader, an older call). Two connections are the least with which
a teardown can overlap a reconnect. With planner limits of 2 and 3 and items of
up to three units every relation of two ranges (apart, adjacent, overlapping, nested,
equal) and every cut (none, aligned, inside an item) occurs. `ByteBits = 2` gives
registers of 4 bits and 64-bit types of 16. The typed batches are decoded in every
layout from all contents of two registers and, for 64 bits, from the contents made
of four corner values (zero, both sides of the sign bit, the largest but one). In
`cli` a PDU of 3 registers cuts the second of two 32-bit values, and a 64-bit one.

### Divergences found

Two runs are expected to fail; each trace is a disagreement between the code
and what the repository says of it.

* `tcp_reconnect` violates `ConnErrorMeansConnLost`. A teardown suspended in
  `wait_closed()` resumes after another call has reconnected; it then cancels the
  new connection's read task and fails its calls. Condition: the socket takes
  longer to close than the next dial takes (`SlowClose`).
* `tcp_close` violates `ClosedStaysDisconnected`. `close()` during a dial finds
  nothing to tear down; the dial then completes and leaves a connected transport
  with a read task after `close()` has returned. `RtuOverTcp` holds its lock over
  the dial and does not have this (`rtu_tcp` checks the same property).

Noted without a run of their own:

* `close()` of a `Client` stops the loop under other threads' coroutines; their
  `result()` has no timeout and they block for good, although `client.py` (298)
  says that a call "blocks the caller until it completes" and the quickstart that
  a client is safe to share across threads. `ThreadsReturn` excepts exactly this
  (`loop = "dead"`), and fails without the exception;
* `serial.py` says that the bus sees strictly
one transaction at a time, but cancelling a call releases the lock while its
thread is still on the bus (`OverlapOnlyAfterCancel` names exactly this
exception, and fails without it);
* `serial.py` (13) says that "the 3.5-character-time inter-frame gap is enforced
  before each transmission", but `_last_op_monotonic` is stamped only when a complete
  frame has been read (271). After a timeout, an unknown function code or a
  cancellation the next request goes out at once, although the bus may have been
  busy a moment ago: with an incomplete or late answer, or with the frame that was
  not understood. Requiring `busy = {}` in every `Transmit` fails.
  `GapSkippedOnlyAfterFailure` says what the code keeps: the traffic without a gap
  behind it is only of calls that were given up before their complete answer was read;
* `docs/cli.md` (165-170) gives exit code 1 the meaning "Modbus exception response
  (slave NAK)", 2 "connection error or argument error", so that a script "can
  distinguish "device replied with an exception" from "couldn't reach it"". The code
  exits with 1 also for a timeout, for a connection lost after the first connect
  (`cli.py` 516, 523, 626, 635), and for missing or malformed arguments that
  argparse lets pass (440, 485, 581, 601): a script can not tell these apart. What
  it can rely on is in `ExitStatusTruthful`: after 0 every request of a write has
  been applied; after 1 of a write not all were confirmed, and if there never was a
  connection, only the arguments were at fault; after 2 the device is untouched and
  has answered nothing;
* `planner.py` speaks of sequential reads for a run longer than one PDU, but the
  chunks run concurrently (`ReadsAreSlices` allows a mix across chunks only);
* an item beyond address 0xFFFF aborts its whole batch with `ValueError` while
  other requests are on the wire (`FailuresIsolated` says no legal item does);
* `RetryPolicy(max_attempts=0)` reaches the assertion in `execute` that is marked
  unreachable (caller `t0` in `client`);
* the help of `write` says that floats accept decimal notation (`cli.py:190`), but
  `--dtype float64 --values 3.14` is refused: only `float32` is parsed as a float
  (a command of `cli`);
* the wizard's "equivalent command" is not one when an answer begins with a dash
  and is not a single number (`--values -1,2`: argparse takes it for an option) or
  holds characters other than spaces that the shell interprets
  (`GuideTeachesTheCommand` excepts these two shapes, and fails without);
* a `ValueError` (a count of 0, a value out of range, a unit id above 255) leaves a
  command with a traceback and exit code 1, in JSON mode too;
* a client accepted while `stop()` awaits the handler tasks is served on after
  `stop()` has returned, and counted, although `milestones.md` (84) expects
  `active_connections == 0` after teardown (`SurvivorStartedLate` allows such a
  handler and no other);
* a write may be applied once more after its command has exited with 0, when a
  connection was lost and the retry was answered first (`ExitStatusTruthful`
  allows it after a loss only).

### Fairness

Only what the scheduler or a timer in the code guarantees:

* a ready task runs, a woken future is delivered (`Wake`, `RLStart`, `RLEnd`,
  `WaitClosedDone`, ...): weak fairness, the asyncio loop is round-robin;
* a dial ends (`connect_timeout_s`), a wait for a response ends (`timeout_s`),
  pyserial calls have timeouts: weak fairness on the disjunction of the ways out;
* `asyncio.Lock` is FIFO: modelled as a set of waiters with strong fairness on
  each acquisition, which promises no more than the queue does;
* a lost connection wakes whoever is suspended in `drain()` or `wait_closed()`;
* a command's own loop runs (`Step` of `Cli`): its dial, its timers and its
  backoff end. Its process as a whole is weakly fair, which lets any one way out
  be taken forever, but attempts and losses are finite.

Nothing is assumed of users, answers, server callbacks, the simulator, the wizard's
user (who may leave a prompt unanswered), or the coroutine of `close()` in
`Client`, which may hang. In particular no peer is assumed to read: `drain()` and
`wait_closed()` are awaited outside every timeout, so a full write buffer holds
them. The termination properties of the socket transports and the server
therefore have two branches, and say that this is the *only* thing that can hold
a task. In `rtu_tcp` such a peer holds `close()` too, because `close()` needs the
lock. "Ends" is `<>[]` "idle or done": each task starts at most once in a
behaviour, so this means that every started one ends.

## 4. Proofs

Each theorem holds for every value of the constants: all sets of calls, tasks,
clients, threads and commands, any number of connections and ports, any limits,
both values of each option. The proofs use the named assumptions of the modules
and nothing else. Those say that the sets of tasks are disjoint, that bounds are
numbers and flags Booleans, that a TID space or a PDU limit is not empty; in
`Cli`, that argparse and the prompts convert numbers (`JobAssumption`,
`AnswerAssumption`) and that the simulator's registers are nobody's at first
(`ScenarioAssumption`); in `Planner`, that items have the types of `_types.py`,
that an item of a bit area has no dtype and that the pattern of a float fits its
type (`BatchAssumption`). Where a theorem needs more, the hypothesis is in its
statement.

| Module | Theorem | Property | Inductive invariant |
|---|---|---|---|
| `TcpTransportProofs` | `TypeCorrect` | `TypeOK` | itself |
| | `Demultiplexing`, `WaitersStayRegistered`, `RegistrationsEnd` | `CrossTalkOnlyAfterWrap`, `RegisteredWhileWaiting`, `NoLeakedRegistration` | `DemuxInv` |
| | `SerialMutex` | `SerialExclusive` | `SerialInv` |
| | `StreamIsConsistent`, `NoAwaitCycle` | `StreamConsistent`, `AwaitsYounger` | `LifecycleInv` |
| | `ResolveOnce` | `FuturesResolveOnce` | `TypeOK`, `DemuxInv` |
| | `ReaderAlive`, `LossIsReal` (if `~SlowClose`) | `ConnectedHasReader`, `ConnErrorMeansConnLost` | `DialInv`, `PromptInv` |
| | `Refinement` (if `FewCalls`) | `ImplementsTransport` | `TurnInv`, `ReturnInv`, `DemuxInv` |
| `RtuOverTcpProofs` | `NoStaleResponse`, `ClosedForGood` | `StaleOnlyAfterAbandon`, `ClosedStaysDisconnected` | `StaleInv`, `CloseInv` |
| `SerialTransportProofs` | `NoOverlap`, `PortsClosed`, `NoStaleResponse`, `GapWaited` | `OverlapOnlyAfterCancel`, `NoPortLeftOpen`, `StaleOnlyAfterLoss`, `GapSkippedOnlyAfterFailure` | `IInv` |
| | `LossIsFinal` | `NoResponseAfterPortLoss` | `IInv`, then `NoHope(c)` from the loss on |
| `ServerProofs` | `LimitKept`, `SurvivorsAreLate`, `ListenersOwned`, `OneResponseEach` | `ConnectionsTracked`, `SurvivorStartedLate`, `ListenerLostOnlyByRace`, `ResponsesInOrder` | `IInv` |
| `ClientProofs` | `RetriesAsAllowed` | `RetryDiscipline` | `IInv` |
| `CliProofs` | `TeachesTheCommand` | `GuideTeachesTheCommand` | `GuideInv` |
| | `ExitCodesTrue` | `ExitStatusTruthful` | `IInv`, `ExitInv` |
| | `ValuesUntorn` | `TornOnlyAcrossRequests` | `TornInv` |
| `PlannerProofs` | `ReadPlansExact`, `ReadsSliced`, `ReadsMeanWhatIsDocumented`, `WritesApplied`, `FailuresStayIsolated` | `ReadPlanExact`, `ReadsAreSlices`, `ReadsDecodeAsDocumented`, `WriteOkMeansApplied`, `FailuresIsolated` | `IInv` |

`PlanProofs` holds the facts about merging, cutting and ordering ranges that both
the commands and the planner need.

The modules of the other transports, the server and the client also prove their
type invariants.

**TCP.** The demultiplexing properties are not inductive by themselves. That a
frame finds only its own call, or one a turn younger, needs to know that a
registered call is the youngest that ever had its TID (`YoungestRegistered`). That
survives an allocation because TIDs are handed out in the order of (turn, TID) and
every pair handed out is below the counter (`TidsInOrder`; lemma
`AllocationOrder`). Calls that have not sent yet must own nothing
(`NothingBeforeSend`), and whatever is on the wire has a TID (`SentHaveTids`).

`AwaitsYounger` needs that `_read_task` is the youngest read loop whenever it is
set, and that connections are used in order; then a read loop in `_teardown` that
finds a `_read_task` other than itself finds a younger one. Hence no circle of
teardowns that await each other, for any number of reconnects; that they *end* is
liveness and is checked by TLC.

`ReaderAlive` and `LossIsReal` are what `tcp_reconnect` refutes with slow closes.
Without them a dial succeeds only when no socket is still closing, so while the
transport is connected no task is inside `_teardown` (`ReaderInv`); and since a
connection that can still bring data is the transport's stream (`OneOpen`), a
teardown leaves none of those whose calls it fails.

`Refinement` needs the hypothesis that there are no more calls than TIDs
(`FewCalls`); a wrapped TID is the one way in which the code leaves the contract.
Its proof counts: the TIDs below `_next_tid` belong to as many different calls
(`TurnInv`), so an allocation for a further call cannot have gone around (lemma
`TidsLast`). Then `CrossTalkOnlyAfterWrap` leaves no call but the right one, and
each step maps to a step of `Transport` or a stutter under `Status`, `Sent` and
`Answer`.

**RTU over TCP.** The lock's holder is the only task past it (`LockInv`), and a
request is on the connection it was written to, once (`WireInv`). A request still
on the stream in use whose call is over is proof of an abandoned transaction
(`LeftoverInv`): every other way to end without the response drops the stream.
`close()` sets `_closed` before it takes the lock, so when it has the lock nobody
dials, and nobody will (`CloseInv`).

**Serial.** The thread outlives a cancelled task, so the lock says nothing of the
bus; `TaskInv` relates where a task is suspended to what its thread may be doing,
and a thread at work for a task that is over belongs to a cancelled one. Every open
port has an owner: the transport, a `close()` about to close it, or the task that
had it opened (`OwnerInv`). A transport gets a port once in its life (`OnePortInv`);
therefore all exchanges share one input buffer, and a buffered answer that its
call did not get tells of a call that ended without its own (`BusInv`). A call whose
complete answer was read has nothing left on the bus, and a stamp or a gap lies
between its traffic and the next request (`GapInv`). That a lost
adapter stays lost follows from what a call then cannot do any more (`NoHope`), from
any state in which the loss is seen.

**Server.** A handler no `stop()` has missed is in `_client_tasks`, and in the list
of every `stop()` that is waiting (`LateInv`). While an unrivalled `start()` owns
`_server` no other is under way (`ListenerInv`). The number of responses is that of
the well-formed requests read, less the one in the callback, as long as the
connection carries bytes (`ProgressInv`).

**Client.** A coroutine starts once (`StartInv`), and where the retry loop stands is
determined by the attempts made (`RetryInv`), however the threads interleave. Only
`Attempt` starts an attempt, and it reads the transport's `_closed` in the same
step. An attempt under way when `close()` begins is the transport's matter (`tcp_close`).

**Commands.** `TeachesTheCommand` goes through the three copies of the defaults:
what the parser fills in (`ParserDefaults`), what the answers give
(`AnsweredOptions`) and what the printer leaves out (`PrintedOptions`) make the
same namespace for all answers (`PrintedCommand`). In `ExitCodesTrue` exit code 0
rests on `WriteInv`, a response on its way or received comes from a request
applied. That nothing is applied after the exit, if no connection was lost, rests
on the order of the first connection (`FirstInv`): a response is older than all
attempts of the same request that are still to be served, so when the last
attempt's response has come none is. What 1 and 2 say rests on `ExitInv`: a command
exits when its requests are resolved, and the code is read off them.

`ValuesUntorn` needs a stronger claim than the property: *any* units of the memory are
of one writer, unless some connected command cuts them, that is, does not write
exactly these units as one value in one request (`MemInv`). A served read is a
snapshot of the memory, so the claim holds of every response on its way and of every
received one (`ReadInv`). Requests on the way are pieces of their command's range
(`PlanInv`), and pieces are disjoint, ordered and cover it (`PiecesDiffer`,
`PiecesInOrder`): the registers of a value within one piece come from one snapshot.

**Planner.** The invariant says little: the plan is that of the validated batch, a
chunk that succeeded has units of one moment (or is in the device), and the
returned list is what the assembly makes of the chunks as they are. The five
properties are facts about what is planned and assembled:

* `Merged`: the merged ranges are apart, by at least one unit, and cover what was
  asked for. A merged range is cut into pieces of the same quotient by the limit
  (`PieceUnits`), hence the exact cover. Two chunks less than one PDU apart lie in
  different ranges (`TwoRanges`), so a gap is between them: no plan has fewer.
* The chunks an item needs follow one another without a gap (`Chain`,
  `ItemChain`); sorted and laid end to end they are a stretch of units
  (`ChunksLaid`), and the item's part of it begins at its offset in the first
  (`Slice`). Two chunks of one item mean that its stretch is longer than a PDU
  (`TwoChunks`).
* `BlockMeaning`: the bytes of a block read as one number are the sum of its
  registers by their documented weights. With the most significant register first,
  what has been read, times the weight of what is left, is the sum so far
  (`BigBlock`); with the least significant first, the sum of the first registers is
  what their weight leaves to be read (`LittleBlock`). A signed type has an even
  number of patterns (`Halves`), so the code's comparison with half of them is the
  documented one. `EncodedRegister` is the same for writes.

Induction over data. The installed provers cannot instantiate a theorem with an
operator as parameter, so `PlanProofs` states induction and recursion over sets and
functions: a set that holds 0 and with each number the next holds all numbers
(`Induction`, from the least element of a set, `LeastNumber`), and a function given
by a base and a step exists (`Recursion`). Sorting, `MergeRanges`, `Power`,
`FromBytes` and `BlockValue` are handled by these two.

### Only model-checked

* All liveness (`OnlyPeerHoldsTasks`, `AllTerminate`, `OnlyClientsHoldStop`,
  `ThreadsReturn`, `CommandsEnd`): fairness and ENABLED are outside this prover.
* `ExchangeUnderstood`, `FramesSelfDelimiting`, `DamageDetected`: `Adu` computes the
  CRC with bitwise operators that are defined recursively, which tlapm does not
  support. What the last says of the CRC is a fact about a polynomial, and it is
  claimed of the frames of the run only, since the length of a damaged frame is
  taken from bytes that no CRC has vouched for yet.

## 5. Not modelled

* The registry of custom PDU codecs (`register_codec`): a dictionary that no other
  part of the package reads.
* The length of backoff delays (`RetryPolicy.delay_for`). A Modbus exception is
  a response to the retry loop: `send_and_receive` returns its PDU, and it is
  decoded only after `execute` has returned.
* The client's factories and context managers, which only construct objects and
  call `connect` and `close`.
* Texts: how numbers, `addr=value` maps and the config file are parsed character by
  character. A text parses as some types or does not (`SystemExit`), and the maps
  of the simulator are what parsing gives.
* What commands print, logging, the error classes, the examples.
* Rounding of `float32`: a float stands for its bit pattern, and the codec's part in
  it (order of bytes and registers) is all that is modelled.

## 6. Plan

1. Done: `TcpTransport` with its contract and proofs, the other two transports,
   server, planner with the register codec, client, PDU codecs and framing,
   commands, guide and simulator.
2. Done: the safety properties of transports, server, client, commands and planner,
   and the refinement of `Transport` by `TcpTransport`, proved.
3. Left: a proof of `ExchangeUnderstood` and `FramesSelfDelimiting`. It needs an
   exclusive or that is not recursive, its linearity (the table-driven CRC is then
   the bitwise one), and the round trips of `Pdu`.
4. Left: `RtuOverTcp` and `SerialTransport` against `Transport`, where they keep it.
