---------------------------- MODULE TcpTransport ----------------------------
(***************************************************************************)
(* pymod.transport.tcp.TcpTransport: one auto-reconnecting asyncio         *)
(* connection whose pipelined requests are demultiplexed by MBAP           *)
(* transaction id (TID).                                                   *)
(*                                                                         *)
(* The code is single-threaded asyncio, so an action is the run of one     *)
(* task from one suspension to the next.  The tasks are                    *)
(*   - Calls:      one send_and_receive() each,                            *)
(*   - Connectors: one connect() each,                                     *)
(*   - Closers:    one close() each,                                       *)
(*   - Conns:      connection k and the read loop task created with it     *)
(*                 share the name k.                                       *)
(* The peer and the network (PeerEof, Reset, CloseDone, the answers in     *)
(* RLFrame) take steps of their own.                                       *)
(***************************************************************************)
EXTENDS Integers, FiniteSets

CONSTANTS Calls, Connectors, Closers,
          MaxConns,     \* bound: connections dialled in one behaviour
          TidSpace,     \* 0x10000 in the code
          Pipeline,     \* the constructor's pipeline flag
          Malformed,    \* calls whose frame cannot be encoded (unit id, empty PDU)
          Cancellable,  \* calls whose task the user may cancel
          SlowClose,    \* may a dial finish while a teardown is suspended?
          NoTask        \* "no call / no task"

Conns == 1..MaxConns
NoConn == 0
Tids == 0..(TidSpace - 1)
NoTid == -1
Tasks == Calls \cup Connectors
Actors == Conns \cup Closers      \* the tasks that run _teardown

ASSUME TidSpaceAssumption == TidSpace \in Nat \ {0}
ASSUME MaxConnsAssumption == MaxConns \in Nat
ASSUME TaskAssumption == /\ Calls \cap Connectors = {}
                         /\ Closers \cap Conns = {}
                         /\ NoTask \notin Tasks
ASSUME FlagAssumption == /\ Pipeline \in BOOLEAN /\ SlowClose \in BOOLEAN
                         /\ Malformed \subseteq Calls /\ Cancellable \subseteq Calls

VARIABLES
  connected,   \* _connected
  closed,      \* _closed
  stream,      \* the connection behind _reader and _writer, always set together
  readTask,    \* _read_task
  nextTid,     \* _next_tid
  wraps,       \* history: times _next_tid wrapped
  pending,     \* _pending: TID -> call whose future is registered
  connLock,    \* holder of _connection_lock
  serialLock,  \* holder of _serial_lock
  pc,          \* where each call / connector is suspended
  tid,         \* TID allocated to a call
  gen,         \* history: value of wraps when the TID was allocated
  via,         \* the connection a call's request was written to
  fut,         \* state of a call's future
  reply,       \* whose request the PDU in the future answers
  outcome,     \* what the call returned or raised
  conn,        \* state of each connection
  tpc,         \* where each read loop / close() is suspended
  waitOn       \* what a suspended teardown waits for: a connection or its read task

sharedVars == <<connected, closed, stream, readTask>>
tidVars == <<nextTid, wraps, tid, gen>>
futVars == <<fut, reply>>
lockVars == <<connLock, serialLock>>
vars == <<sharedVars, tidVars, pending, lockVars, pc, via, futVars, outcome,
          conn, tpc, waitOn>>

Init ==
  /\ connected = FALSE /\ closed = FALSE
  /\ stream = NoConn /\ readTask = NoConn
  /\ nextTid = 0 /\ wraps = 0
  /\ pending = [t \in Tids |-> NoTask]
  /\ connLock = NoTask /\ serialLock = NoTask
  /\ pc = [t \in Tasks |-> "idle"]
  /\ tid = [c \in Calls |-> NoTid]
  /\ gen = [c \in Calls |-> 0]
  /\ via = [c \in Calls |-> NoConn]
  /\ fut = [c \in Calls |-> "none"]
  /\ reply = [c \in Calls |-> NoTask]
  /\ outcome = [t \in Tasks |-> "none"]
  /\ conn = [k \in Conns |-> "unused"]
  /\ tpc = [a \in Actors |-> "idle"]
  /\ waitOn = [a \in Actors |-> NoConn]

-----------------------------------------------------------------------------
(* send_and_receive and connect: helpers *)

Wrap(n) == IF n >= TidSpace THEN n - TidSpace ELSE n
Laps(n) == IF n >= TidSpace THEN 1 ELSE 0

\* Fault: take _next_tid without probing _pending.
FirstFree_NoProbe(n) == n = 0

\* Probe n of _allocate_tid finds a free TID, and the probes before it do not.
FirstFree(n) == /\ n \in Tids
                /\ pending[Wrap(nextTid + n)] = NoTask
                /\ \A m \in 0..(n - 1) : pending[Wrap(nextTid + m)] # NoTask

\* The task ends with outcome o.
Exit(t, o) == /\ pc' = [pc EXCEPT ![t] = "done"]
              /\ outcome' = [outcome EXCEPT ![t] = o]

\* Faults: the serial lock is never held; it is not released.
HoldSerial_Never(t) == UNCHANGED serialLock
HoldSerial_Forever(t) == serialLock' = IF Pipeline \/ t \notin Calls THEN serialLock ELSE t

\* Leaving `async with self._serial_lock` frees it; suspending inside keeps it.
HoldSerial(t) ==
  serialLock' = IF Pipeline \/ t \notin Calls THEN serialLock
                ELSE IF pc'[t] = "done" THEN NoTask ELSE t

\* Faults: _next_tid is not advanced; it is not reduced modulo the TID space.
AllocateTid_Stuck(c, n) ==
  /\ tid' = [tid EXCEPT ![c] = Wrap(nextTid + n)]
  /\ UNCHANGED <<gen, nextTid, wraps>>
AllocateTid_NoWrap(c, n) ==
  /\ tid' = [tid EXCEPT ![c] = Wrap(nextTid + n)]
  /\ gen' = [gen EXCEPT ![c] = wraps + Laps(nextTid + n)]
  /\ nextTid' = nextTid + n + 1
  /\ UNCHANGED wraps

\* _allocate_tid takes the first free TID at or after _next_tid.
AllocateTid(c, n) ==
  /\ tid' = [tid EXCEPT ![c] = Wrap(nextTid + n)]
  /\ gen' = [gen EXCEPT ![c] = wraps + Laps(nextTid + n)]
  /\ nextTid' = Wrap(nextTid + n + 1)
  /\ wraps' = wraps + Laps(nextTid + n + 1)

\* From _ensure_connected returning to the next suspension: allocate, register,
\* encode, write.  Nothing suspends in between, so the writer is still there.
\* drain() suspends only when the write buffer is full.
Send(c, k, alive) ==
  \/ /\ \A t \in Tids : pending[t] # NoTask
     /\ Exit(c, "exhausted")
     /\ UNCHANGED <<tidVars, pending, via, futVars>>
  \/ \E n \in Tids :
       /\ FirstFree(n)
       /\ AllocateTid(c, n)
       /\ \/ /\ c \in Malformed
             /\ Exit(c, "valueError")
             /\ UNCHANGED <<pending, via, futVars>>
          \/ /\ c \notin Malformed /\ ~alive
             /\ Exit(c, "connError")
             /\ UNCHANGED <<pending, via, futVars>>
          \/ /\ c \notin Malformed /\ alive
             /\ pending' = [pending EXCEPT ![Wrap(nextTid + n)] = c]
             /\ fut' = [fut EXCEPT ![c] = "pending"]
             /\ via' = [via EXCEPT ![c] = k]
             /\ \E s \in {"draining", "waiting"} : pc' = [pc EXCEPT ![c] = s]
             /\ UNCHANGED <<reply, outcome>>

\* What a task does once a connection is up: connect() returns, a call sends.
Proceed(t, k, alive) ==
  IF t \in Calls
  THEN Send(t, k, alive)
  ELSE /\ Exit(t, "connected")
       /\ UNCHANGED <<tidVars, pending, via, futVars>>

\* The body of `async with self._connection_lock`, up to the dial.
Locked(t) ==
  \/ /\ connected
     /\ Proceed(t, stream, conn[stream] # "lost")
     /\ UNCHANGED connLock
  \/ /\ ~connected /\ closed
     /\ Exit(t, "closed")
     /\ UNCHANGED <<tidVars, pending, via, futVars, connLock>>
  \/ /\ ~connected /\ ~closed
     /\ connLock' = t
     /\ pc' = [pc EXCEPT ![t] = "dialing"]
     /\ UNCHANGED <<tidVars, pending, via, futVars, outcome>>

\* asyncio.Lock is fair: a newcomer queues behind the tasks already waiting.
ConnLockFree == connLock = NoTask /\ \A t \in Tasks : pc[t] # "lockWait"

EnsureConnected(t) ==
  \/ /\ connected \/ ConnLockFree
     /\ Locked(t)
  \/ /\ ~connected /\ ~ConnLockFree
     /\ pc' = [pc EXCEPT ![t] = "lockWait"]
     /\ UNCHANGED <<tidVars, pending, via, futVars, outcome, connLock>>

SerialFree == serialLock = NoTask /\ \A c \in Calls : pc[c] # "serialWait"

\* Fault: the finally clause forgets to pop.
PopTid_Forgotten(c) == UNCHANGED pending

\* The call's finally clause: pop whatever is registered under its TID.
PopTid(c) == pending' = [pending EXCEPT ![tid[c]] = NoTask]

-----------------------------------------------------------------------------
(* send_and_receive and connect: steps *)

\* The first check: a closed transport raises ModbusError.
Reject(t) ==
  /\ pc[t] = "idle" /\ closed
  /\ Exit(t, "closed")
  /\ UNCHANGED <<sharedVars, tidVars, pending, lockVars, via, futVars, conn, tpc, waitOn>>

\* pipeline=False and the serial lock is taken: wait for it.
QueueSerial(c) ==
  /\ pc[c] = "idle" /\ ~closed
  /\ ~Pipeline /\ ~SerialFree
  /\ pc' = [pc EXCEPT ![c] = "serialWait"]
  /\ UNCHANGED <<sharedVars, tidVars, pending, lockVars, via, futVars, outcome,
                 conn, tpc, waitOn>>

\* The call (or connect()) runs until it is sent, queued, dialling or refused.
Enter(t) ==
  /\ pc[t] = "idle" /\ ~closed
  /\ t \in Connectors \/ Pipeline \/ SerialFree
  /\ EnsureConnected(t)
  /\ HoldSerial(t)
  /\ UNCHANGED <<sharedVars, conn, tpc, waitOn>>

SerialAcquire(c) ==
  /\ pc[c] = "serialWait" /\ serialLock = NoTask
  /\ EnsureConnected(c)
  /\ HoldSerial(c)
  /\ UNCHANGED <<sharedVars, conn, tpc, waitOn>>

ConnAcquire(t) ==
  /\ pc[t] = "lockWait" /\ connLock = NoTask
  /\ Locked(t)
  /\ HoldSerial(t)
  /\ UNCHANGED <<sharedVars, conn, tpc, waitOn>>

\* The tasks the event loop had ready when the dial began have run before it
\* ends, so no read loop is still waiting for its first step.
DialOk(t, k) ==
  /\ pc[t] = "dialing"
  /\ conn[k] = "unused" /\ \A j \in Conns : j < k => conn[j] # "unused"
  /\ \A j \in Conns : tpc[j] \notin {"init", "doomedInit"}
  /\ SlowClose \/ \A a \in Actors : tpc[a] \notin {"waitClosed", "awaitTask"}
  /\ conn' = [conn EXCEPT ![k] = "open"]
  /\ stream' = k /\ connected' = TRUE
  /\ readTask' = k /\ tpc' = [tpc EXCEPT ![k] = "init"]
  /\ connLock' = NoTask
  /\ Proceed(t, k, TRUE)
  /\ HoldSerial(t)
  /\ UNCHANGED <<closed, waitOn>>

\* Refused, unreachable, or connect_timeout_s elapsed.
DialFail(t) ==
  /\ pc[t] = "dialing"
  /\ connLock' = NoTask
  /\ Exit(t, "connError")
  /\ HoldSerial(t)
  /\ UNCHANGED <<sharedVars, tidVars, pending, via, futVars, conn, tpc, waitOn>>

\* The buffer drained, or the connection was closed without an error.
DrainOk(c) ==
  /\ pc[c] = "draining"
  /\ pc' = [pc EXCEPT ![c] = "waiting"]
  /\ UNCHANGED <<sharedVars, tidVars, pending, lockVars, via, futVars, outcome,
                 conn, tpc, waitOn>>

DrainFail(c) ==
  /\ pc[c] = "draining" /\ conn[via[c]] = "lost"
  /\ Exit(c, "connError")
  /\ PopTid(c)
  /\ HoldSerial(c)
  /\ UNCHANGED <<sharedVars, tidVars, connLock, via, futVars, conn, tpc, waitOn>>

\* Fault: a timeout is reported as a lost connection.
Timeout_AsLost(c) ==
  /\ pc[c] = "waiting" /\ fut[c] = "pending"
  /\ fut' = [fut EXCEPT ![c] = "lost"]
  /\ UNCHANGED <<sharedVars, tidVars, pending, lockVars, pc, via, reply, outcome,
                 conn, tpc, waitOn>>

\* wait_for's timer: the future is cancelled, the call resumes in a later step.
Timeout(c) ==
  /\ pc[c] = "waiting" /\ fut[c] = "pending"
  /\ fut' = [fut EXCEPT ![c] = "timeout"]
  /\ UNCHANGED <<sharedVars, tidVars, pending, lockVars, pc, via, reply, outcome,
                 conn, tpc, waitOn>>

OutcomeOf(f) == CASE f = "result" -> "response"
                  [] f = "lost" -> "connError"
                  [] OTHER -> f

\* The call resumes from wait_for and returns or raises.
Wake(c) ==
  /\ pc[c] = "waiting" /\ fut[c] # "pending"
  /\ Exit(c, OutcomeOf(fut[c]))
  /\ PopTid(c)
  /\ HoldSerial(c)
  /\ UNCHANGED <<sharedVars, tidVars, connLock, via, futVars, conn, tpc, waitOn>>

\* The user cancels the calling task, wherever it is suspended.
CallerCancel(c) ==
  /\ c \in Cancellable
  /\ \/ /\ pc[c] = "serialWait"
        /\ Exit(c, "cancelled")
        /\ UNCHANGED <<pending, lockVars, fut>>
     \/ /\ pc[c] \in {"lockWait", "dialing"}
        /\ Exit(c, "cancelled")
        /\ connLock' = IF pc[c] = "dialing" THEN NoTask ELSE connLock
        /\ HoldSerial(c)
        /\ UNCHANGED <<pending, fut>>
     \/ /\ pc[c] = "draining"
        /\ Exit(c, "cancelled")
        /\ PopTid(c)
        /\ HoldSerial(c)
        /\ UNCHANGED <<connLock, fut>>
     \/ /\ pc[c] = "waiting" /\ fut[c] = "pending"
        /\ fut' = [fut EXCEPT ![c] = "cancelled"]
        /\ UNCHANGED <<pc, outcome, pending, lockVars>>
  /\ UNCHANGED <<sharedVars, tidVars, via, reply, conn, tpc, waitOn>>

-----------------------------------------------------------------------------
(* _teardown, run by the read loop of a connection or by close() *)

Registered(c) == \E t \in Tids : pending[t] = c

\* Its last lines: forget the read task, fail and forget every pending future.
FailPending(a) ==
  /\ readTask' = NoConn
  /\ fut' = [c \in Calls |-> IF Registered(c) /\ fut[c] = "pending"
                             THEN "lost" ELSE fut[c]]
  /\ pending' = [t \in Tids |-> NoTask]
  /\ tpc' = [tpc EXCEPT ![a] = "done"]
  /\ UNCHANGED waitOn

\* task.cancel(): the CancelledError is thrown when the task next runs.  Before
\* its first step or inside its own wait_closed it just ends (doomed); while it
\* reads, its finally clause still runs (interrupted).
Cancelled(s) == CASE s = "reading" -> "interrupted"
                  [] s = "init" -> "doomedInit"
                  [] s = "waitClosed" -> "doomed"
                  [] OTHER -> s

\* Fault: the read loop does not except itself and awaits its own task.
ReapReader_Self(a) ==
  IF readTask # NoConn
  THEN /\ tpc' = [tpc EXCEPT ![a] = "awaitTask"]
       /\ waitOn' = [waitOn EXCEPT ![a] = readTask]
       /\ UNCHANGED <<readTask, fut, pending>>
  ELSE FailPending(a)

\* After wait_closed: cancel and await the read task, unless it is this task.
ReapReader(a) ==
  IF readTask \notin {NoConn, a} /\ tpc[readTask] # "done"
  THEN /\ tpc' = [tpc EXCEPT ![readTask] = Cancelled(@), ![a] = "awaitTask"]
       /\ waitOn' = [waitOn EXCEPT ![a] = readTask]
       /\ UNCHANGED <<readTask, fut, pending>>
  ELSE FailPending(a)

\* Faults: _writer and _reader are not cleared; nor is _connected.
Teardown_KeepStream(a) ==
  /\ connected' = FALSE
  /\ UNCHANGED <<stream, conn>>
  /\ ReapReader(a)
Teardown_KeepConnected(a) ==
  /\ UNCHANGED <<connected, stream, conn>>
  /\ ReapReader(a)

\* From the first line to the first suspension.  Waiting for a connection that
\* is already lost does not suspend.
Teardown(a) ==
  /\ connected' = FALSE
  /\ stream' = NoConn
  /\ IF stream # NoConn /\ conn[stream] # "lost"
     THEN /\ conn' = [conn EXCEPT ![stream] = "closing"]
          /\ tpc' = [tpc EXCEPT ![a] = "waitClosed"]
          /\ waitOn' = [waitOn EXCEPT ![a] = stream]
          /\ UNCHANGED <<readTask, fut, pending>>
     ELSE ReapReader(a) /\ UNCHANGED conn

callVars == <<tidVars, lockVars, pc, via, reply, outcome>>

Close(a) ==
  /\ a \in Closers /\ tpc[a] = "idle"
  /\ closed' = TRUE
  /\ Teardown(a)
  /\ UNCHANGED callVars

WaitClosedDone(a) ==
  /\ tpc[a] = "waitClosed" /\ conn[waitOn[a]] = "lost"
  /\ ReapReader(a)
  /\ UNCHANGED <<connected, closed, stream, conn, callVars>>

AwaitTaskDone(a) ==
  /\ tpc[a] = "awaitTask" /\ tpc[waitOn[a]] = "done"
  /\ FailPending(a)
  /\ UNCHANGED <<connected, closed, stream, conn, callVars>>

-----------------------------------------------------------------------------
(* _read_loop of connection k *)

\* Its first step; the assertion fails outside the try when a teardown came first.
RLStart(k) ==
  /\ tpc[k] = "init"
  /\ tpc' = [tpc EXCEPT ![k] = IF stream = NoConn THEN "done" ELSE "reading"]
  /\ UNCHANGED <<sharedVars, pending, fut, conn, waitOn, callVars>>

\* Fault: set_result without asking whether the future is done.
RLFrame_NotDoneUnchecked(k, r) ==
  /\ tpc[k] = "reading" /\ via[r] = k
  /\ LET d == pending[tid[r]] IN
       /\ d # NoTask
       /\ fut' = [fut EXCEPT ![d] = "result"]
       /\ reply' = [reply EXCEPT ![d] = r]
  /\ UNCHANGED <<sharedVars, tidVars, pending, lockVars, pc, via, outcome,
                 conn, tpc, waitOn>>

\* A response to request r: slaves answer in any order, late, twice or never.
\* An unmatched TID, a finished future and a malformed frame change nothing.
RLFrame(k, r) ==
  /\ tpc[k] = "reading" /\ via[r] = k
  /\ LET d == pending[tid[r]] IN
       /\ d # NoTask /\ fut[d] = "pending"
       /\ fut' = [fut EXCEPT ![d] = "result"]
       /\ reply' = [reply EXCEPT ![d] = r]
  /\ UNCHANGED <<sharedVars, tidVars, pending, lockVars, pc, via, outcome,
                 conn, tpc, waitOn>>

\* End of stream or a reset: the finally clause runs the teardown.
RLEnd(k) ==
  /\ tpc[k] = "reading" /\ conn[k] \in {"eof", "lost"}
  /\ Teardown(k)
  /\ UNCHANGED <<closed, callVars>>

RLCancelled(k) ==
  \/ /\ tpc[k] = "interrupted"
     /\ Teardown(k)
     /\ UNCHANGED <<closed, callVars>>
  \/ /\ tpc[k] \in {"doomed", "doomedInit"}
     /\ tpc' = [tpc EXCEPT ![k] = "done"]
     /\ UNCHANGED <<sharedVars, pending, fut, conn, waitOn, callVars>>

-----------------------------------------------------------------------------
(* The network *)

connOnly == <<sharedVars, pending, fut, tpc, waitOn, callVars>>

PeerEof(k) == /\ conn[k] = "open"
              /\ conn' = [conn EXCEPT ![k] = "eof"]
              /\ UNCHANGED connOnly

Reset(k) == /\ conn[k] \in {"open", "eof"}
            /\ conn' = [conn EXCEPT ![k] = "lost"]
            /\ UNCHANGED connOnly

CloseDone(k) == /\ conn[k] = "closing"
                /\ conn' = [conn EXCEPT ![k] = "lost"]
                /\ UNCHANGED connOnly

-----------------------------------------------------------------------------
CallStep(c) == \/ QueueSerial(c) \/ SerialAcquire(c) \/ DrainOk(c) \/ DrainFail(c)
               \/ Timeout(c) \/ Wake(c) \/ CallerCancel(c)

TaskStep(t) == \/ Reject(t) \/ Enter(t) \/ ConnAcquire(t) \/ DialFail(t)
               \/ \E k \in Conns : DialOk(t, k)

TeardownStep(a) == Close(a) \/ WaitClosedDone(a) \/ AwaitTaskDone(a)

ReadLoopStep(k) == \/ RLStart(k) \/ RLEnd(k) \/ RLCancelled(k)
                   \/ \E r \in Calls : RLFrame(k, r)

NetworkStep(k) == PeerEof(k) \/ Reset(k) \/ CloseDone(k)

\* Everything the user asked for has returned: the program may stop here.
Terminated == /\ \A t \in Tasks : pc[t] = "done"
              /\ \A a \in Closers : tpc[a] = "done"
              /\ UNCHANGED vars

Next == \/ \E c \in Calls : CallStep(c)
        \/ \E t \in Tasks : TaskStep(t)
        \/ \E a \in Actors : TeardownStep(a)
        \/ \E k \in Conns : ReadLoopStep(k) \/ NetworkStep(k)
        \/ Terminated

Spec == Init /\ [][Next]_vars
-----------------------------------------------------------------------------
(* Fairness.  The event loop runs every ready task, the dial and the wait for
   the response have timeouts, asyncio.Lock hands over in FIFO order and a lost
   connection wakes the tasks suspended in drain().  Users and peers owe
   nothing: a peer that stops reading keeps the write buffer full, and with it
   both drain() and wait_closed() waiting. *)

Fairness ==
  /\ \A t \in Tasks : /\ WF_vars(DialFail(t) \/ \E k \in Conns : DialOk(t, k))
                      /\ SF_vars(ConnAcquire(t))
  /\ \A c \in Calls : /\ WF_vars(DrainFail(c)) /\ WF_vars(Timeout(c)) /\ WF_vars(Wake(c))
                      /\ SF_vars(SerialAcquire(c))
  /\ \A a \in Actors : WF_vars(WaitClosedDone(a)) /\ WF_vars(AwaitTaskDone(a))
  /\ \A k \in Conns : WF_vars(RLStart(k)) /\ WF_vars(RLEnd(k)) /\ WF_vars(RLCancelled(k))

LiveSpec == Spec /\ Fairness

-----------------------------------------------------------------------------
(* Properties *)

PcStates == {"idle", "serialWait", "lockWait", "dialing", "draining", "waiting", "done"}
FutStates == {"none", "pending", "result", "lost", "timeout", "cancelled"}
Outcomes == {"none", "response", "connError", "timeout", "cancelled", "closed",
             "connected", "valueError", "exhausted"}
ConnStates == {"unused", "open", "eof", "closing", "lost"}
ActorStates == {"idle", "init", "reading", "waitClosed", "awaitTask", "interrupted",
                "doomed", "doomedInit", "done"}

\* The values each attribute of the transport and each suspended task can have.
TypeOK ==
  /\ connected \in BOOLEAN /\ closed \in BOOLEAN
  /\ stream \in Conns \cup {NoConn} /\ readTask \in Conns \cup {NoConn}
  /\ nextTid \in Tids /\ wraps \in Nat
  /\ pending \in [Tids -> Calls \cup {NoTask}]
  /\ connLock \in Tasks \cup {NoTask} /\ serialLock \in Calls \cup {NoTask}
  /\ pc \in [Tasks -> PcStates]
  /\ tid \in [Calls -> Tids \cup {NoTid}] /\ gen \in [Calls -> Nat]
  /\ via \in [Calls -> Conns \cup {NoConn}]
  /\ fut \in [Calls -> FutStates]
  /\ reply \in [Calls -> Calls \cup {NoTask}]
  /\ outcome \in [Tasks -> Outcomes]
  /\ conn \in [Conns -> ConnStates]
  /\ tpc \in [Actors -> ActorStates]
  /\ waitOn \in [Actors -> Conns \cup {NoConn}]

\* Demultiplexing: a future is only ever resolved with the response to another
\* call's request if that request used the same TID a full turn of the TID
\* space earlier.  A late answer to a timed-out or cancelled request, or one
\* from before a reconnect, never reaches a younger call of the same turn.
CrossTalkOnlyAfterWrap ==
  \A d \in Calls : fut[d] = "result" =>
    \/ reply[d] = d
    \/ tid[reply[d]] = tid[d] /\ gen[reply[d]] < gen[d]

\* A call that still waits for its response can still get it: its future is
\* registered, unless a call with its TID from an earlier turn took it away
\* (the finally clause pops the TID, whoever holds it).
RegisteredWhileWaiting ==
  \A c \in Calls : pc[c] \in {"draining", "waiting"} /\ fut[c] = "pending" =>
    \/ pending[tid[c]] = c
    \/ \E d \in Calls : tid[d] = tid[c] /\ gen[d] < gen[c]

\* pipeline=False: at most one call is between taking the serial lock and
\* returning, whatever cancellations and failures happened before.
Inside(c) == pc[c] \in {"lockWait", "dialing", "draining", "waiting"}
SerialExclusive ==
  ~Pipeline => \A c, d \in Calls : Inside(c) /\ Inside(d) => c = d

\* _connected tells the truth about _reader and _writer, and the stream it
\* names is one this transport has not closed: the "connection unavailable"
\* branch of the send path is dead, and a read loop never starts on the reader
\* of another connection.
StreamConsistent ==
  /\ connected <=> stream # NoConn
  /\ connected => conn[stream] \in {"open", "eof", "lost"}
  /\ \A k \in Conns : tpc[k] \in {"init", "doomedInit"} => stream \in {k, NoConn}

\* A read loop only ever awaits the read task of a younger connection, so the
\* tasks inside _teardown cannot wait for each other in a circle.
AwaitsYounger ==
  \A k \in Conns : tpc[k] = "awaitTask" => waitOn[k] > k

\* While the transport says it is connected, the read loop of that connection
\* is alive and not being cancelled, or will still notice that it is gone.
ConnectedHasReader ==
  connected => tpc[stream] \in {"init", "reading"}

\* The pending map holds no leftovers: every entry is the future of a call that
\* is still between registering and its finally clause, under that call's TID.
NoLeakedRegistration ==
  \A t \in Tids : pending[t] # NoTask =>
    tid[pending[t]] = t /\ pc[pending[t]] \in {"draining", "waiting"}

\* "connection lost" is only reported to calls whose own connection is going
\* or gone.
ConnErrorMeansConnLost ==
  \A c \in Calls : fut[c] = "lost" => conn[via[c]] # "open"

\* Once close() has returned, the transport is not connected.
ClosedStaysDisconnected ==
  (\E a \in Closers : tpc[a] = "done") => ~connected

\* A future is resolved once: its result, timeout, cancellation or connection
\* error is never overwritten (asyncio would raise InvalidStateError and end
\* the read loop).
FuturesResolveOnce ==
  [][\A c \in Calls : fut[c] \notin {"none", "pending"} =>
        fut'[c] = fut[c] /\ reply'[c] = reply[c]]_vars

\* The peer of k has stopped reading: a call is suspended in drain() on it, or
\* its socket cannot finish closing.
PeerStalls(k) ==
  \/ conn[k] = "closing"
  \/ \E c \in Calls : via[c] = k /\ pc[c] = "draining"

\* Everything that was started has ended: every call and connect() has returned
\* or raised, every close() has returned.
AllEnded ==
  /\ \A t \in Tasks : pc[t] \in {"idle", "done"}
  /\ \A a \in Closers : tpc[a] \in {"idle", "done"}

\* Calls, connects and closes end, with one way out: drain() and wait_closed()
\* are awaited outside wait_for, so a peer that never reads again may hold the
\* call that is sending to it, the calls behind its serial lock, and close().
\* Nothing else holds a task: no lock, no cancelled reader, no lost connection.
OnlyPeerHoldsTasks ==
  (\E k \in Conns : <>[]PeerStalls(k)) \/ <>[]AllEnded

-----------------------------------------------------------------------------
(* The inductive invariant behind the demultiplexing properties. *)

\* Nothing of a call exists before it sends.
NothingBeforeSend ==
  \A c \in Calls : pc[c] \in {"idle", "serialWait", "lockWait", "dialing"} =>
    tid[c] = NoTid /\ fut[c] = "none" /\ via[c] = NoConn

\* TIDs are handed out in the order of (turn, TID), below (wraps, _next_tid).
TidsInOrder ==
  \A c \in Calls : tid[c] # NoTid =>
    gen[c] < wraps \/ (gen[c] = wraps /\ tid[c] < nextTid)

\* A registered call is the youngest of those that ever had its TID.
YoungestRegistered ==
  \A t \in Tids : \A r \in Calls :
    pending[t] # NoTask /\ tid[r] = t /\ r # pending[t] => gen[r] < gen[pending[t]]

\* Requests on the wire, calls in progress and answers all have TIDs.
SentHaveTids ==
  \A c \in Calls :
    /\ via[c] # NoConn \/ pc[c] \in {"draining", "waiting"} => tid[c] # NoTid
    /\ fut[c] = "result" => /\ tid[c] # NoTid
                            /\ reply[c] \in Calls /\ tid[reply[c]] # NoTid

DemuxInv ==
  /\ NothingBeforeSend /\ TidsInOrder /\ YoungestRegistered /\ SentHaveTids
  /\ NoLeakedRegistration /\ CrossTalkOnlyAfterWrap /\ RegisteredWhileWaiting

\* Behind SerialExclusive: whoever is inside holds the lock.
SerialInv == ~Pipeline => \A c \in Calls : Inside(c) => serialLock = c

\* Behind AwaitsYounger and StreamConsistent: connections are used in order,
\* and _read_task is either gone or the youngest read loop.
LifecycleInv ==
  /\ StreamConsistent
  /\ AwaitsYounger
  /\ \A j, k \in Conns : j < k /\ conn[j] = "unused" => conn[k] = "unused"
  /\ \A k \in Conns : conn[k] = "unused" => tpc[k] = "idle"
  /\ readTask # NoConn => \A k \in Conns : tpc[k] # "idle" => k <= readTask

-----------------------------------------------------------------------------
(* The transport keeps the promise of the abstract Transport. *)

Status == [c \in Calls |-> CASE pc[c] = "idle" -> "idle"
                            [] pc[c] = "done" -> "done"
                            [] OTHER -> "active"]
Sent == {c \in Calls : via[c] # NoConn}
Answer == [c \in Calls |-> IF outcome[c] = "response" THEN reply[c] ELSE NoTask]

Contract == INSTANCE Transport WITH status <- Status, sent <- Sent, answer <- Answer

\* Refinement, when the TID space does not wrap: requests go out at most once,
\* responses match, nothing starts after close().
ImplementsTransport == Contract!TSpec
=============================================================================
