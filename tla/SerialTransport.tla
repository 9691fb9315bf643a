--------------------------- MODULE SerialTransport ---------------------------
(***************************************************************************)
(* pymod.transport.serial.SerialTransport: RTU over a serial port.  An     *)
(* asyncio.Lock lets one call at a time hand its blocking exchange to an   *)
(* executor thread.  The thread is not the task: when the user cancels the *)
(* task, the thread goes on with the port.                                 *)
(*                                                                         *)
(* Event-loop steps run from one suspension to the next; executor threads  *)
(* interleave with them at each call into pyserial that others can see.    *)
(* Time is only told apart by whether an inter-frame gap has passed.       *)
(***************************************************************************)
EXTENDS Integers, Sequences, FiniteSets

CONSTANTS Calls, Connectors, Closers,
          MaxPorts,     \* bound: times the port is opened in one behaviour
          EmptyPdu,     \* calls refused before the lock is taken
          BadUnit,      \* calls whose unit id cannot be encoded
          Cancellable,  \* users whose task may be cancelled
          FrameKinds,   \* what a response frame can look like, see ReadFrame
          NoTask

Ports == 1..MaxPorts
NoPort == 0
Users == Calls \cup Connectors
Tasks == Users \cup Closers

ASSUME MaxPortsAssumption == MaxPorts \in Nat
ASSUME TaskAssumption == /\ Calls \cap Connectors = {} /\ Users \cap Closers = {}
                         /\ NoTask \notin Tasks
ASSUME CallAssumption == /\ EmptyPdu \subseteq Calls /\ BadUnit \subseteq Calls
                         /\ Cancellable \subseteq Users
ASSUME KindAssumption == FrameKinds \subseteq {"ok", "badCrc", "otherUnit", "unknownFc"}

VARIABLES
  closed,       \* _closed
  serial,       \* _serial; _connected iff there is one
  lock,         \* holder of _lock
  pc,           \* where each task is suspended
  outcome,      \* what it returned or raised
  reply,        \* the request answered by the PDU a call returned
  job,          \* the executor thread working for a task
  result,       \* what that thread returned: a frame, a port, or an error
  ports,        \* state of each pyserial object
  uses,         \* the port a call's exchange, or a close(), works on
  owed,         \* requests the slave has heard and not answered
  rx,           \* frames in the input buffer
  stampRecent,  \* less than a frame gap since _last_op_monotonic
  busy          \* calls whose request or answer was on the bus less than a
                \* frame gap ago

loopVars == <<closed, serial, lock, pc, outcome, reply>>
threadVars == <<job, result, ports, uses>>
busVars == <<owed, rx, stampRecent, busy>>
vars == <<loopVars, threadVars, busVars>>

NoResult == [kind |-> "none", req |-> NoTask, port |-> NoPort]
ErrorResult(e) == [NoResult EXCEPT !.kind = e]

Init ==
  /\ closed = FALSE /\ serial = NoPort /\ lock = NoTask
  /\ pc = [t \in Tasks |-> "idle"]
  /\ outcome = [t \in Tasks |-> "none"]
  /\ reply = [c \in Calls |-> NoTask]
  /\ job = [t \in Users |-> "none"]
  /\ result = [t \in Users |-> NoResult]
  /\ ports = [p \in Ports |-> "unused"]
  /\ uses = [t \in Tasks |-> NoPort]
  /\ owed = {} /\ rx = <<>>
  /\ stampRecent = FALSE /\ busy = {}

-----------------------------------------------------------------------------
(* The event loop *)

LockFree == lock = NoTask /\ \A t \in Tasks : pc[t] # "lockWait"

\* Fault: the lock is not released.
Exit_KeepsLock(t, o) == /\ pc' = [pc EXCEPT ![t] = "done"]
                        /\ outcome' = [outcome EXCEPT ![t] = o]
                        /\ UNCHANGED lock

Exit(t, o) == /\ pc' = [pc EXCEPT ![t] = "done"]
              /\ outcome' = [outcome EXCEPT ![t] = o]
              /\ lock' = NoTask

\* Fault: the exchange is awaited outside `async with self._lock`.
Suspend_Unlocked(t, s) == /\ pc' = [pc EXCEPT ![t] = s]
                          /\ lock' = NoTask
                          /\ UNCHANGED outcome

Suspend(t, s) == /\ pc' = [pc EXCEPT ![t] = s]
                 /\ lock' = t
                 /\ UNCHANGED outcome

\* With port p open: connect() returns, a call hands its exchange to a thread.
Proceed(t, p) ==
  \/ /\ t \in Connectors \cup BadUnit
     /\ Exit(t, IF t \in BadUnit THEN "valueError" ELSE "connected")
     /\ UNCHANGED <<job, uses>>
  \/ /\ t \in Calls \ BadUnit
     /\ Suspend(t, "exchanging")
     /\ job' = [job EXCEPT ![t] = "queued"]
     /\ uses' = [uses EXCEPT ![t] = p]

\* Fault: _closed is not checked again once the lock is held.
Locked_NoRecheck(t) ==
  \/ /\ t \in Users /\ serial # NoPort
     /\ Proceed(t, serial)
     /\ UNCHANGED <<serial, result>>
  \/ /\ t \in Users /\ serial = NoPort
     /\ Suspend(t, "opening")
     /\ job' = [job EXCEPT ![t] = "opening"]
     /\ UNCHANGED <<serial, uses, result>>
  \/ /\ t \in Closers
     /\ IF serial = NoPort THEN Exit(t, "ended") ELSE Suspend(t, "closing")
     /\ serial' = NoPort
     /\ uses' = [uses EXCEPT ![t] = serial]
     /\ UNCHANGED <<job, result>>

\* With the lock: _open_locked and the rest, or the body of close().
Locked(t) ==
  \/ /\ t \in Users /\ serial # NoPort
     /\ Proceed(t, serial)
     /\ UNCHANGED <<serial, result>>
  \/ /\ t \in Users /\ serial = NoPort /\ closed
     /\ Exit(t, "closed")
     /\ UNCHANGED <<serial, job, uses, result>>
  \/ /\ t \in Users /\ serial = NoPort /\ ~closed
     /\ Suspend(t, "opening")
     /\ job' = [job EXCEPT ![t] = "opening"]
     /\ UNCHANGED <<serial, uses, result>>
  \/ /\ t \in Closers /\ serial = NoPort
     /\ Exit(t, "ended")
     /\ UNCHANGED <<serial, job, uses, result>>
  \/ /\ t \in Closers /\ serial # NoPort
     /\ Suspend(t, "closing")
     /\ serial' = NoPort
     /\ uses' = [uses EXCEPT ![t] = serial]
     /\ UNCHANGED <<job, result>>

Reject(t) ==
  /\ t \in Users /\ pc[t] = "idle"
  /\ closed \/ t \in EmptyPdu
  /\ pc' = [pc EXCEPT ![t] = "done"]
  /\ outcome' = [outcome EXCEPT ![t] = IF closed THEN "closed" ELSE "valueError"]
  /\ UNCHANGED <<closed, serial, lock, reply, threadVars, busVars>>

Enter(t) ==
  /\ pc[t] = "idle"
  /\ t \in Closers \/ (~closed /\ t \notin EmptyPdu)
  /\ closed' = (closed \/ t \in Closers)
  /\ IF LockFree
     THEN Locked(t)
     ELSE /\ pc' = [pc EXCEPT ![t] = "lockWait"]
          /\ UNCHANGED <<serial, lock, outcome, job, uses, result>>
  /\ UNCHANGED <<reply, ports, busVars>>

Acquire(t) ==
  /\ pc[t] = "lockWait" /\ lock = NoTask
  /\ Locked(t)
  /\ UNCHANGED <<closed, reply, ports, busVars>>

\* The factory returned (or raised) and the task that asked is still waiting.
OpenResume(t) ==
  /\ pc[t] = "opening" /\ job[t] = "ended"
  /\ IF result[t].kind = "port"
     THEN serial' = result[t].port /\ Proceed(t, result[t].port)
     ELSE Exit(t, "connError") /\ UNCHANGED <<serial, job, uses>>
  /\ UNCHANGED <<closed, reply, result, ports, busVars>>

\* The exchange returned a frame, which is decoded now, or raised.
ExchangeResume(c) ==
  /\ pc[c] = "exchanging" /\ job[c] = "ended"
  /\ Exit(c, CASE result[c].kind = "ok" -> "response"
               [] result[c].kind \in {"badCrc", "otherUnit"} -> "protocolError"
               [] OTHER -> result[c].kind)
  /\ reply' = [reply EXCEPT ![c] = IF result[c].kind = "ok" THEN result[c].req ELSE NoTask]
  /\ UNCHANGED <<closed, serial, threadVars, busVars>>

\* Cancelling a task withdraws a job no thread has picked up yet; a running
\* thread goes on.
CallerCancel(t) ==
  /\ t \in Cancellable
  /\ pc[t] \in {"lockWait", "opening", "exchanging"}
  /\ pc' = [pc EXCEPT ![t] = "done"]
  /\ outcome' = [outcome EXCEPT ![t] = "cancelled"]
  /\ lock' = IF pc[t] = "lockWait" THEN lock ELSE NoTask
  /\ \/ UNCHANGED job
     \/ job[t] \in {"opening", "queued"} /\ job' = [job EXCEPT ![t] = "ended"]
  /\ UNCHANGED <<closed, serial, reply, result, ports, uses, busVars>>

-----------------------------------------------------------------------------
(* Executor threads *)

Ends(t, r) == /\ job' = [job EXCEPT ![t] = "ended"]
              /\ result' = [result EXCEPT ![t] = r]

\* Opening a port discards what the line had buffered.
OpenRun(t, p) ==
  /\ job[t] = "opening"
  /\ ports[p] = "unused" /\ \A q \in Ports : q < p => ports[q] # "unused"
  /\ ports' = [ports EXCEPT ![p] = "open"]
  /\ Ends(t, [NoResult EXCEPT !.kind = "port", !.port = p])
  /\ rx' = <<>>
  /\ UNCHANGED <<loopVars, uses, owed, stampRecent, busy>>

OpenFail(t) ==
  /\ job[t] = "opening"
  /\ Ends(t, ErrorResult("connError"))
  /\ UNCHANGED <<loopVars, ports, uses, busVars>>

\* Sleep out the gap since the last good exchange, drop buffered input, write.
Transmit(c) ==
  /\ job[c] = "queued" /\ ports[uses[c]] = "open"
  /\ ~stampRecent
  /\ job' = [job EXCEPT ![c] = "reading"]
  /\ rx' = <<>>
  /\ owed' = owed \cup {c}
  /\ busy' = busy \cup {c}
  /\ UNCHANGED <<loopVars, result, ports, uses, stampRecent>>

WriteTimeout(c) ==
  /\ job[c] = "queued" /\ ports[uses[c]] = "open"
  /\ ~stampRecent
  /\ rx' = <<>>
  /\ Ends(c, ErrorResult("timeout"))
  /\ UNCHANGED <<loopVars, ports, uses, owed, stampRecent, busy>>

\* Fault: _last_op_monotonic is not updated.
ReadFrame_NoStamp(c) ==
  /\ job[c] = "reading" /\ ports[uses[c]] = "open" /\ rx # <<>>
  /\ Ends(c, [NoResult EXCEPT !.kind = Head(rx).kind, !.req = Head(rx).req])
  /\ rx' = Tail(rx)
  /\ UNCHANGED <<loopVars, ports, uses, owed, stampRecent, busy>>

\* read_rtu_response_sync.  Only a frame of a known function code updates
\* _last_op_monotonic; its CRC and unit id are checked later, in the task.  An
\* unknown code leaves the rest of the frame to the next reset_input_buffer.
ReadFrame(c) ==
  /\ job[c] = "reading" /\ ports[uses[c]] = "open" /\ rx # <<>>
  /\ LET f == Head(rx) IN
       IF f.kind = "unknownFc"
       THEN /\ Ends(c, ErrorResult("protocolError"))
            /\ UNCHANGED <<rx, stampRecent>>
       ELSE /\ Ends(c, [NoResult EXCEPT !.kind = f.kind, !.req = f.req])
            /\ rx' = Tail(rx)
            /\ stampRecent' = TRUE
  /\ UNCHANGED <<loopVars, ports, uses, owed, busy>>

ReadTimeout(c) ==
  /\ job[c] = "reading" /\ ports[uses[c]] = "open"
  /\ Ends(c, ErrorResult("timeout"))
  /\ UNCHANGED <<loopVars, ports, uses, busVars>>

\* The port was closed under the thread, or the adapter is gone.
IoError(c) ==
  /\ job[c] \in {"queued", "reading"} /\ ports[uses[c]] # "open"
  /\ Ends(c, ErrorResult("connError"))
  /\ UNCHANGED <<loopVars, ports, uses, busVars>>

\* Fault: close() forgets the port without closing it.
ClosePort_Forgotten(a) ==
  /\ pc[a] = "closing"
  /\ Exit(a, "ended")
  /\ UNCHANGED <<closed, serial, reply, threadVars, busVars>>

\* ser.close() on its thread, and close() returning after it.
ClosePort(a) ==
  /\ pc[a] = "closing"
  /\ ports' = [ports EXCEPT ![uses[a]] = "closed"]
  /\ Exit(a, "ended")
  /\ UNCHANGED <<closed, serial, reply, job, result, uses, busVars>>

-----------------------------------------------------------------------------
(* The bus *)

Answer ==
  /\ \E r \in owed, f \in FrameKinds :
       /\ owed' = owed \ {r}
       /\ rx' = Append(rx, [kind |-> f, req |-> r])
       /\ busy' = busy \cup {r}
  /\ UNCHANGED <<loopVars, threadVars, stampRecent>>

\* The adapter is unplugged.
Unplug(p) ==
  /\ ports[p] = "open"
  /\ ports' = [ports EXCEPT ![p] = "dead"]
  /\ UNCHANGED <<loopVars, job, result, uses, busVars>>

\* A frame gap passes.
Tick ==
  /\ stampRecent \/ busy # {}
  /\ stampRecent' = FALSE /\ busy' = {}
  /\ UNCHANGED <<loopVars, threadVars, owed, rx>>

-----------------------------------------------------------------------------
TaskStep(t) == Reject(t) \/ Enter(t) \/ Acquire(t)

UserStep(t) == \/ OpenResume(t) \/ CallerCancel(t) \/ OpenFail(t)
               \/ \E p \in Ports : OpenRun(t, p)

CallStep(c) == \/ ExchangeResume(c) \/ Transmit(c) \/ WriteTimeout(c)
               \/ ReadFrame(c) \/ ReadTimeout(c) \/ IoError(c)

Terminated == (\A t \in Tasks : pc[t] = "done") /\ UNCHANGED vars

Next == \/ \E t \in Tasks : TaskStep(t)
        \/ \E t \in Users : UserStep(t)
        \/ \E c \in Calls : CallStep(c)
        \/ \E a \in Closers : ClosePort(a)
        \/ \E p \in Ports : Unplug(p)
        \/ Answer \/ Tick
        \/ Terminated

Spec == Init /\ [][Next]_vars

\* pyserial calls have timeouts and the executor runs its jobs; the lock is FIFO.
Fairness ==
  /\ \A t \in Tasks : SF_vars(Acquire(t))
  /\ \A t \in Users : /\ WF_vars(OpenFail(t) \/ \E p \in Ports : OpenRun(t, p))
                      /\ WF_vars(OpenResume(t))
  /\ \A c \in Calls : /\ WF_vars(ExchangeResume(c)) /\ WF_vars(IoError(c))
                      /\ SF_vars(WriteTimeout(c) \/ Transmit(c))
                      /\ WF_vars(ReadTimeout(c) \/ ReadFrame(c))
  /\ \A a \in Closers : WF_vars(ClosePort(a))
  /\ WF_vars(Tick)

LiveSpec == Spec /\ Fairness

-----------------------------------------------------------------------------
(* Properties *)

Results == [kind : FrameKinds \cup {"none", "port", "connError", "timeout", "protocolError"},
            req : Calls \cup {NoTask}, port : Ports \cup {NoPort}]

\* The values the attributes, tasks, threads and the bus can have.
TypeOK ==
  /\ closed \in BOOLEAN /\ serial \in Ports \cup {NoPort}
  /\ lock \in Tasks \cup {NoTask}
  /\ pc \in [Tasks -> {"idle", "lockWait", "opening", "exchanging", "closing", "done"}]
  /\ outcome \in [Tasks -> {"none", "response", "protocolError", "timeout", "connError",
                            "cancelled", "closed", "valueError", "connected", "ended"}]
  /\ reply \in [Calls -> Calls \cup {NoTask}]
  /\ job \in [Users -> {"none", "opening", "queued", "reading", "ended"}]
  /\ result \in [Users -> Results]
  /\ ports \in [Ports -> {"unused", "open", "dead", "closed"}]
  /\ uses \in [Tasks -> Ports \cup {NoPort}]
  /\ owed \subseteq Calls
  /\ rx \in Seq([kind : FrameKinds, req : Calls])
  /\ stampRecent \in BOOLEAN /\ busy \subseteq Calls

OnBus(c) == job[c] = "reading"

\* Two exchanges overlap on the bus only if the user cancelled one of the calls:
\* every other way out of the lock, errors included, waits for the thread.
OverlapOnlyAfterCancel ==
  \A c, d \in Calls : OnBus(c) /\ OnBus(d) /\ c # d =>
    \E r \in {c, d} : outcome[r] = "cancelled"

Unfinished(r) == outcome[r] \in {"timeout", "cancelled", "protocolError"}

\* A call returns another call's response only if some call ended without its
\* own: a late answer that arrives after reset_input_buffer.
StaleOnlyAfterLoss ==
  \A c \in Calls : reply[c] \notin {c, NoTask} =>
    \E r \in Calls : r # c /\ Unfinished(r)

\* After close() the transport holds no port, and no port stays open, except
\* one whose opening was cancelled under the executor thread.
NoPortLeftOpen ==
  (\E a \in Closers : pc[a] = "done") =>
    /\ serial = NoPort
    /\ \A p \in Ports : ports[p] = "open" =>
         \E t \in Users : outcome[t] = "cancelled" /\ result[t].port = p

\* The thread of call r has read the complete frame that answers it.
OwnFrame(r) == result[r].kind \in {"ok", "badCrc", "otherUnit"} /\ result[r].req = r

\* The module promises a gap before each transmission.  What the code keeps of
\* this: a request that follows traffic of less than a gap ago follows only the
\* traffic of calls that were given up before their complete answer was read
\* (which alone updates _last_op_monotonic).  These calls are over, unless the
\* request is that of a cancelled call, whose thread has lost the lock.
GapSkippedOnlyAfterFailure ==
  [][\A c \in Calls : job[c] = "queued" /\ job'[c] = "reading" =>
        \A r \in busy : ~OwnFrame(r) /\ (pc[r] = "done" \/ outcome[c] = "cancelled")]_vars

\* The adapter behind the port the transport holds is gone.
PortLost == serial # NoPort /\ ports[serial] = "dead"

\* An I/O error leaves _serial and _connected as they are, so a lost adapter is
\* lost for good: no call that starts after that ever returns a response, not
\* even one that waits for the lock while close() drops the port, and no second
\* port is opened under the dead one.
NoResponseAfterPortLoss ==
  \A c \in Calls : [](PortLost /\ pc[c] = "idle" => [](outcome[c] # "response"))

\* Every call, connect() and close() that starts returns or raises.
AllTerminate == <>[](\A t \in Tasks : pc[t] \in {"idle", "done"})
=============================================================================
