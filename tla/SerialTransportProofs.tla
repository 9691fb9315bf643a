------------------------ MODULE SerialTransportProofs ------------------------
(***************************************************************************)
(* Proofs about SerialTransport for every set of calls, connectors and     *)
(* close() calls, every number of ports, every choice of the tasks that    *)
(* may be cancelled and every kind of response frame.                      *)
(***************************************************************************)
EXTENDS SerialTransport, TLAPS

USE DEF Users, Tasks

-----------------------------------------------------------------------------
(* The inductive invariant *)

\* A task past the lock holds it, so there is one at a time.
Holding == {"opening", "exchanging", "closing"}
LockInv == \A t \in Tasks : pc[t] \in Holding => lock = t

\* How an exchange can end on its thread.
ExchangeKinds == {"ok", "badCrc", "otherUnit", "timeout", "protocolError", "connError"}

\* What is known of a task and of its thread where the task is suspended.
Waiting(t) == /\ outcome[t] = "none" /\ uses[t] = NoPort
              /\ t \in Users => job[t] = "none" /\ result[t].port = NoPort
Opening(t) == /\ t \in Users /\ outcome[t] = "none" /\ uses[t] = NoPort /\ serial = NoPort
              /\ job[t] = "opening" => result[t].port = NoPort
              /\ job[t] \in {"opening", "ended"}
              /\ job[t] = "ended" => \/ result[t].kind = "port" /\ result[t].port \in Ports
                                     \/ result[t].kind = "connError" /\ result[t].port = NoPort
Exchanging(t) == /\ t \in Calls /\ outcome[t] = "none"
                 /\ uses[t] \in Ports /\ serial = uses[t]
                 /\ job[t] \in {"queued", "reading", "ended"}
                 /\ job[t] = "ended" => result[t].kind \in ExchangeKinds
Closing(t) == /\ t \in Closers /\ outcome[t] = "none"
              /\ uses[t] \in Ports /\ serial = NoPort

TaskInv ==
  /\ \A t \in Tasks : /\ pc[t] \in {"idle", "lockWait"} => Waiting(t)
                      /\ pc[t] = "opening" => Opening(t)
                      /\ pc[t] = "exchanging" => Exchanging(t)
                      /\ pc[t] = "closing" => Closing(t)
  /\ \A t \in Users : pc[t] = "done" /\ job[t] \in {"opening", "queued", "reading"} =>
       outcome[t] = "cancelled"
  /\ \A c \in Calls : job[c] \in {"queued", "reading"} => uses[c] \in Ports
  /\ \A c \in Calls : reply[c] # NoTask => pc[c] = "done" /\ outcome[c] = "response"

\* close() has got as far as dropping the port.
Dropped == \E a \in Closers : pc[a] \in {"closing", "done"}

\* A port the transport or a thread has was opened before.
PortUsed ==
  /\ serial # NoPort => ports[serial] # "unused"
  /\ \A t \in Users : result[t].port # NoPort => ports[result[t].port] # "unused"
  /\ \A t \in Users : pc[t] = "done" /\ job[t] = "opening" => result[t].port = NoPort

\* Every open port is the transport's, or about to be closed, or was opened for
\* a task that waits for it or was cancelled.
Waits(t) == outcome[t] = "cancelled" \/ pc[t] = "opening"
Owned(p) == \/ p = serial
            \/ \E a \in Closers : pc[a] = "closing" /\ uses[a] = p
            \/ \E t \in Users : result[t].port = p /\ Waits(t)
OwnerInv == \A p \in Ports : ports[p] = "open" => Owned(p)

\* Dropping the port is final.
DropInv ==
  /\ \A a \in Closers : pc[a] # "idle" => closed
  /\ Dropped => serial = NoPort /\ \A t \in Tasks : pc[t] # "opening"
  /\ (\E a \in Closers : pc[a] = "done") => \A b \in Closers : pc[b] # "closing"

PortInv == PortUsed /\ OwnerInv /\ DropInv

\* Every exchange ever made used the same port: the transport gets one once.
OnePortInv ==
  \A c \in Calls : uses[c] # NoPort =>
    /\ serial = uses[c] \/ Dropped
    /\ \A d \in Calls : uses[d] # NoPort => uses[d] = uses[c]

\* While its port is open, an exchange's port is the transport's or about to be
\* closed, and it is the port its own task had opened, if it did.
UseInv ==
  /\ \A c \in Calls : uses[c] # NoPort => ports[uses[c]] # "unused"
  /\ \A c \in Calls : uses[c] # NoPort /\ ports[uses[c]] = "open" =>
       serial = uses[c] \/ \E a \in Closers : pc[a] = "closing" /\ uses[a] = uses[c]
  /\ \A c \in Calls : job[c] \in {"queued", "reading"} /\ result[c].port # NoPort =>
       result[c].port = uses[c]

\* Request r is unanswered, or its answer is still in the input buffer.
OnWire(r) == r \in owed \/ \E i \in 1..Len(rx) : rx[i].req = r

\* Every request is on the bus at most once.
WireOnce ==
  /\ \A i \in 1..Len(rx) : rx[i].req \notin owed
  /\ \A i, j \in 1..Len(rx) : rx[i].req = rx[j].req => i = j

\* The request of call r is on the bus only once it was transmitted.
Sent(r) == OnWire(r) => /\ uses[r] # NoPort /\ job[r] \in {"reading", "ended"}
                        /\ pc[r] \in {"exchanging", "done"}

\* If it still is when the call is over, the call did not get its own answer,
\* or the port is gone.
Leftover(r) == OnWire(r) /\ pc[r] = "done" =>
  \/ Unfinished(r)
  \/ outcome[r] = "connError" /\ ports[uses[r]] # "open"
  \/ outcome[r] = "response" /\ reply[r] # r

\* Some other call ended without its own response.
Loss(r) == \E a \in Calls : a # r /\ Unfinished(a)

\* What the thread of an exchange may hand to the call that waits for it.
Handed(r) == pc[r] = "exchanging" /\ job[r] = "ended" =>
  /\ result[r].kind = "ok" => result[r].req \in Calls
  /\ result[r].kind = "ok" /\ OnWire(r) => result[r].req # r
  /\ result[r].kind = "ok" /\ result[r].req # r => Loss(r)
  /\ result[r].kind = "connError" => ports[uses[r]] # "open"

Replied(r) == /\ outcome[r] = "response" => reply[r] # NoTask
              /\ reply[r] \notin {r, NoTask} => Loss(r)

CallInv(r) == Sent(r) /\ Leftover(r) /\ Handed(r) /\ Replied(r)
BusInv == WireOnce /\ \A r \in Calls : CallInv(r)

\* The complete answer to r has been read: it is off the bus, and a stamp or a
\* gap is between it and the next request.
GapCall(r) ==
  /\ OwnFrame(r) => job[r] = "ended" /\ ~OnWire(r)
  /\ r \in busy => uses[r] # NoPort /\ job[r] \in {"reading", "ended"}
  /\ r \in busy /\ ~stampRecent => ~OwnFrame(r)
GapInv == \A r \in Calls : GapCall(r)

IInv == TypeOK /\ LockInv /\ TaskInv /\ PortInv /\ OnePortInv /\ UseInv /\ BusInv /\ GapInv

\* Call c starts after the adapter was lost: it cannot get a response any more.
NoHope(c) ==
  /\ PortLost \/ Dropped
  /\ outcome[c] # "response" /\ pc[c] # "opening"
  /\ pc[c] = "exchanging" =>
       /\ ports[uses[c]] # "open"
       /\ job[c] = "queued" \/ (job[c] = "ended" /\ result[c].kind = "connError")

-----------------------------------------------------------------------------
(* Types *)

\* The first element of a queue, and what is left of the queue without it.
LEMMA QueueHead ==
  ASSUME NEW S, NEW s \in Seq(S), s # <<>>
  PROVE  /\ Len(s) \in Nat \ {0} /\ Head(s) \in S /\ Head(s) = s[1]
         /\ Tail(s) \in Seq(S) /\ Len(Tail(s)) = Len(s) - 1
         /\ \A i \in 1..(Len(s) - 1) : Tail(s)[i] = s[i + 1]
OBVIOUS

PcStates == {"idle", "lockWait", "opening", "exchanging", "closing", "done"}
Outcomes == {"none", "response", "protocolError", "timeout", "connError",
             "cancelled", "closed", "valueError", "connected", "ended"}

\* What a step of the event loop may leave in the attributes it writes.
loopTypes ==
  /\ serial \in Ports \cup {NoPort} /\ lock \in Tasks \cup {NoTask}
  /\ pc \in [Tasks -> PcStates] /\ outcome \in [Tasks -> Outcomes]
  /\ job \in [Users -> {"none", "opening", "queued", "reading", "ended"}]
  /\ uses \in [Tasks -> Ports \cup {NoPort}]

\* A task that goes on with a port keeps the types.
LEMMA ProceedTypes ==
  ASSUME TypeOK, NEW t \in Users, NEW p \in Ports, Proceed(t, p), serial' \in Ports
  PROVE  loopTypes'
<1>1. CASE t \in Connectors \cup BadUnit
  <2>1. PICK o \in {"valueError", "connected"} : Exit(t, o) /\ UNCHANGED <<job, uses>>
    BY <1>1, TaskAssumption, CallAssumption DEF Proceed
  <2> QED BY <2>1 DEF Exit, TypeOK, loopTypes, PcStates, Outcomes
<1>2. CASE t \notin Connectors \cup BadUnit
  BY <1>2 DEF Proceed, Suspend, TypeOK, loopTypes, PcStates, Outcomes
<1> QED BY <1>1, <1>2

\* So does a task that has just taken the lock.
LEMMA LockedTypes ==
  ASSUME TypeOK, NEW t \in Tasks, Locked(t)
  PROVE  loopTypes' /\ result' = result
<1>1. CASE t \in Users /\ serial # NoPort /\ Proceed(t, serial) /\ UNCHANGED <<serial, result>>
  BY <1>1, ProceedTypes DEF TypeOK
<1>2. CASE t \in Users /\ serial = NoPort /\ Locked(t)
  BY <1>2, TaskAssumption DEF Locked, Exit, Suspend, TypeOK, loopTypes, PcStates, Outcomes
<1>3. CASE t \in Closers /\ Locked(t)
  BY <1>3, TaskAssumption DEF Locked, Exit, Suspend, TypeOK, loopTypes, PcStates, Outcomes
<1> QED BY <1>1, <1>2, <1>3 DEF Locked

\* What a thread may hand back.
LEMMA ResultTypes ==
  /\ NoResult \in Results
  /\ \A e \in {"connError", "timeout", "protocolError"} : ErrorResult(e) \in Results
  /\ \A p \in Ports : [NoResult EXCEPT !.kind = "port", !.port = p] \in Results
  /\ \A f \in [kind : FrameKinds, req : Calls] :
       [NoResult EXCEPT !.kind = f.kind, !.req = f.req] \in Results
BY DEF NoResult, ErrorResult, Results

\* A thread that ends keeps the types.
LEMMA EndsTypes ==
  ASSUME TypeOK, NEW t \in Users, NEW r \in Results, Ends(t, r)
  PROVE  /\ job' \in [Users -> {"none", "opening", "queued", "reading", "ended"}]
         /\ result' \in [Users -> Results]
BY DEF TypeOK, Ends

\* Every step keeps the types; what a thread hands to a waiting task matters here.
LEMMA TypeOKStep == TypeOK /\ TaskInv /\ [Next]_vars => TypeOK'
<1> SUFFICES ASSUME TypeOK, TaskInv, [Next]_vars PROVE TypeOK'
  OBVIOUS
<1>0. <<>> \in Seq([kind : FrameKinds, req : Calls])
  OBVIOUS
<1>1. CASE \E t \in Tasks : Reject(t)
  BY <1>1 DEF Reject, TypeOK, threadVars, busVars
<1>2. CASE \E t \in Tasks : Enter(t)
  <2>1. PICK t \in Tasks : Enter(t)
    BY <1>2
  <2>2. CASE Locked(t)
    BY <2>1, <2>2, LockedTypes DEF Enter, TypeOK, loopTypes, busVars, PcStates, Outcomes
  <2>3. CASE ~Locked(t)
    BY <2>1, <2>3 DEF Enter, TypeOK, busVars
  <2> QED BY <2>2, <2>3
<1>3. CASE \E t \in Tasks : Acquire(t)
  BY <1>3, LockedTypes DEF Acquire, TypeOK, loopTypes, busVars, PcStates, Outcomes
<1>4. CASE \E t \in Users : OpenResume(t)
  <2>1. PICK t \in Users : OpenResume(t)
    BY <1>4
  <2>2. CASE result[t].kind = "port"
    <3>1. result[t].port \in Ports
      BY <2>1, <2>2 DEF OpenResume, TaskInv, Opening
    <3>2. loopTypes'
      BY <2>1, <2>2, <3>1, ProceedTypes DEF OpenResume
    <3> QED BY <2>1, <3>2 DEF OpenResume, TypeOK, loopTypes, busVars, PcStates, Outcomes
  <2>3. CASE result[t].kind # "port"
    BY <2>1, <2>3 DEF OpenResume, Exit, TypeOK, busVars
  <2> QED BY <2>2, <2>3
<1>5. CASE \E c \in Calls : ExchangeResume(c)
  <2>1. PICK c \in Calls : ExchangeResume(c)
    BY <1>5
  <2>2. result[c].kind \in ExchangeKinds /\ result[c].req \in Calls \cup {NoTask}
    BY <2>1 DEF ExchangeResume, TaskInv, Exchanging, TypeOK, Results
  <2>3. PICK o \in Outcomes : Exit(c, o)
    BY <2>1, <2>2 DEF ExchangeResume, ExchangeKinds, Outcomes
  <2> QED BY <2>1, <2>2, <2>3 DEF ExchangeResume, Exit, TypeOK, Outcomes, threadVars, busVars
<1>6. CASE \E t \in Users : CallerCancel(t)
  BY <1>6 DEF CallerCancel, TypeOK, busVars
<1>7. CASE \E t \in Users, p \in Ports : OpenRun(t, p)
  BY <1>0, <1>7, EndsTypes, ResultTypes DEF OpenRun, TypeOK, loopVars
<1>8. CASE \E t \in Users : OpenFail(t)
  BY <1>8, EndsTypes, ResultTypes DEF OpenFail, TypeOK, loopVars, busVars
<1>9. CASE \E c \in Calls : Transmit(c)
  BY <1>0, <1>9 DEF Transmit, TypeOK, loopVars
<1>10. CASE \E c \in Calls : WriteTimeout(c) \/ ReadTimeout(c) \/ IoError(c)
  <2>1. PICK c \in Calls : WriteTimeout(c) \/ ReadTimeout(c) \/ IoError(c)
    BY <1>10
  <2>2. PICK r \in Results : Ends(c, r)
    BY <2>1, ResultTypes DEF WriteTimeout, ReadTimeout, IoError
  <2>3. rx' \in {rx, <<>>} /\ UNCHANGED <<loopVars, ports, uses, owed, stampRecent, busy>>
    BY <2>1 DEF WriteTimeout, ReadTimeout, IoError, busVars
  <2> QED BY <1>0, <2>2, <2>3, EndsTypes DEF TypeOK, loopVars
<1>11. CASE \E c \in Calls : ReadFrame(c)
  <2>1. PICK c \in Calls : ReadFrame(c)
    BY <1>11
  <2>2. Head(rx) \in [kind : FrameKinds, req : Calls] /\ Tail(rx) \in Seq([kind : FrameKinds, req : Calls])
    BY <2>1, QueueHead DEF ReadFrame, TypeOK
  <2>3. PICK r \in Results : Ends(c, r)
    <3>1. CASE Head(rx).kind = "unknownFc"
      BY <2>1, <3>1, ResultTypes DEF ReadFrame
    <3>2. CASE Head(rx).kind # "unknownFc"
      BY <2>1, <2>2, <3>2, ResultTypes DEF ReadFrame
    <3> QED BY <3>1, <3>2
  <2>4. rx' \in Seq([kind : FrameKinds, req : Calls]) /\ stampRecent' \in BOOLEAN
    BY <2>1, <2>2 DEF ReadFrame, TypeOK
  <2> QED BY <2>1, <2>3, <2>4, EndsTypes DEF ReadFrame, TypeOK, loopVars
<1>12. CASE \E a \in Closers : ClosePort(a)
  <2>1. PICK a \in Closers : ClosePort(a)
    BY <1>12
  <2>2. ports' \in [Ports -> {"unused", "open", "dead", "closed"}]
    BY <2>1 DEF ClosePort, TypeOK
  <2> QED BY <2>1, <2>2 DEF ClosePort, Exit, TypeOK, busVars
<1>13. CASE \E p \in Ports : Unplug(p)
  BY <1>13 DEF Unplug, TypeOK, loopVars, busVars
<1>14. CASE Answer
  <2>1. PICK r \in owed, f \in FrameKinds : rx' = Append(rx, [kind |-> f, req |-> r]) /\ owed' = owed \ {r}
    BY <1>14 DEF Answer
  <2>2. rx' \in Seq([kind : FrameKinds, req : Calls]) /\ owed' \subseteq Calls
    BY <2>1 DEF TypeOK
  <2> QED BY <1>14, <2>2 DEF Answer, TypeOK, loopVars, threadVars
<1>15. CASE Tick
  BY <1>15 DEF Tick, TypeOK, loopVars, threadVars
<1>16. CASE UNCHANGED vars
  BY <1>16 DEF vars, loopVars, threadVars, busVars, TypeOK
<1> QED BY <1>1, <1>2, <1>3, <1>4, <1>5, <1>6, <1>7, <1>8, <1>9, <1>10, <1>11, <1>12, <1>13,
           <1>14, <1>15, <1>16
        DEF Next, TaskStep, UserStep, CallStep, Terminated

-----------------------------------------------------------------------------
(* Tasks and their threads *)

\* The ways on from the lock: connect() or a refused call returns, a call hands
\* its exchange to a thread, a user has the port opened, close() finds no port,
\* close() has one to close.
Returns(t) == /\ t \in Users /\ \E o \in {"valueError", "connected", "closed"} : Exit(t, o)
              /\ UNCHANGED <<job, uses>>
Exchanges(t, p) == /\ t \in Calls /\ p \in Ports /\ Suspend(t, "exchanging")
                   /\ job' = [job EXCEPT ![t] = "queued"]
                   /\ uses' = [uses EXCEPT ![t] = p]
Opens(t) == /\ t \in Users /\ serial = NoPort /\ ~closed
            /\ Suspend(t, "opening")
            /\ job' = [job EXCEPT ![t] = "opening"]
            /\ UNCHANGED <<serial, uses>>
ClosesNone(t) == /\ t \in Closers /\ serial = NoPort
                 /\ Exit(t, "ended")
                 /\ UNCHANGED <<serial, job, uses>>
ClosesPort(t) == /\ t \in Closers /\ serial \in Ports
                 /\ Suspend(t, "closing")
                 /\ serial' = NoPort
                 /\ uses' = [uses EXCEPT ![t] = serial]
                 /\ UNCHANGED job

\* With a port at hand, a user returns or exchanges.
LEMMA ProceedCases ==
  ASSUME NEW t \in Users, NEW p \in Ports, Proceed(t, p)
  PROVE  Returns(t) \/ Exchanges(t, p)
BY DEF Proceed, Returns, Exchanges

\* Each branch taken under the lock is one of these ways on.
LEMMA LockedCases ==
  ASSUME TypeOK, NEW t \in Tasks, Locked(t)
  PROVE  /\ result' = result
         /\ \/ Returns(t) /\ UNCHANGED serial
            \/ Exchanges(t, serial) /\ UNCHANGED serial
            \/ Opens(t) \/ ClosesNone(t) \/ ClosesPort(t)
<1>1. CASE t \in Users /\ serial # NoPort /\ Proceed(t, serial) /\ UNCHANGED <<serial, result>>
  BY <1>1, ProceedCases DEF TypeOK
<1>2. CASE t \in Users /\ serial = NoPort /\ Locked(t)
  BY <1>2, TaskAssumption DEF Locked, Returns, Opens
<1>3. CASE t \in Closers /\ Locked(t)
  BY <1>3, TaskAssumption DEF Locked, ClosesNone, ClosesPort, TypeOK
<1> QED BY <1>1, <1>2, <1>3 DEF Locked

\* A task that has just taken the lock, and nobody else has it.
LEMMA TaskInvLocked ==
  ASSUME TypeOK, LockInv, TaskInv, NEW t \in Tasks, pc[t] \in {"idle", "lockWait"},
         lock = NoTask, Locked(t), UNCHANGED reply
  PROVE  LockInv' /\ TaskInv'
<1> USE TaskAssumption DEF LockInv, TaskInv, Waiting, Opening, Exchanging, Closing, Holding, TypeOK
<1>0. \A u \in Tasks : pc[u] \notin Holding
  OBVIOUS
<1>1. CASE Returns(t) /\ UNCHANGED <<serial, result>>
  BY <1>0, <1>1 DEF Returns, Exit
<1>2. CASE Exchanges(t, serial) /\ UNCHANGED <<serial, result>>
  BY <1>0, <1>2 DEF Exchanges, Suspend
<1>3. CASE Opens(t) /\ UNCHANGED result
  BY <1>0, <1>3 DEF Opens, Suspend
<1>4. CASE ClosesNone(t) /\ UNCHANGED result
  BY <1>0, <1>4 DEF ClosesNone, Exit
<1>5. CASE ClosesPort(t) /\ UNCHANGED result
  BY <1>0, <1>5 DEF ClosesPort, Suspend
<1> QED BY <1>1, <1>2, <1>3, <1>4, <1>5, LockedCases

\* A task whose port has just been opened.
LEMMA TaskInvOpened ==
  ASSUME TypeOK, LockInv, TaskInv, NEW t \in Users, OpenResume(t)
  PROVE  LockInv' /\ TaskInv'
<1> USE TaskAssumption DEF LockInv, TaskInv, Waiting, Opening, Exchanging, Closing, Holding, TypeOK
<1>0. \A u \in Tasks : u # t => pc[u] \notin Holding
  BY DEF OpenResume
<1>1. CASE result[t].kind = "port"
  <2>1. result[t].port \in Ports /\ serial' = result[t].port
    BY <1>1 DEF OpenResume
  <2>2. CASE Returns(t)
    BY <1>0, <2>1, <2>2 DEF OpenResume, Returns, Exit
  <2>3. CASE Exchanges(t, result[t].port)
    BY <1>0, <2>1, <2>3 DEF OpenResume, Exchanges, Suspend
  <2> QED BY <1>1, <2>1, <2>2, <2>3, ProceedCases DEF OpenResume
<1>2. CASE result[t].kind # "port"
  <2>1. /\ pc' = [pc EXCEPT ![t] = "done"] /\ outcome' = [outcome EXCEPT ![t] = "connError"]
        /\ lock' = NoTask /\ UNCHANGED <<serial, job, uses, result, reply>>
        /\ pc[t] = "opening" /\ job[t] = "ended"
    BY <1>2 DEF OpenResume, Exit
  <2> QED BY <1>0, <2>1
<1> QED BY <1>1, <1>2

\* How the thread of an exchange ends.
ExchangeEnds(c, r) == /\ job[c] \in {"queued", "reading"}
                      /\ Ends(c, r) /\ r.kind \in ExchangeKinds /\ r.port = NoPort
                      /\ UNCHANGED <<loopVars, ports, uses, owed, busy>>

\* The five ways in which the thread of an exchange ends.
LEMMA ExchangeEndsCases ==
  ASSUME TypeOK, NEW c \in Calls
  PROVE  /\ WriteTimeout(c) => ExchangeEnds(c, ErrorResult("timeout"))
         /\ ReadTimeout(c) => ExchangeEnds(c, ErrorResult("timeout"))
         /\ IoError(c) => ExchangeEnds(c, ErrorResult("connError"))
         /\ ReadFrame(c) /\ Head(rx).kind = "unknownFc" =>
              ExchangeEnds(c, ErrorResult("protocolError"))
         /\ ReadFrame(c) /\ Head(rx).kind # "unknownFc" =>
              ExchangeEnds(c, [NoResult EXCEPT !.kind = Head(rx).kind, !.req = Head(rx).req])
<1>1. \A e \in {"timeout", "connError", "protocolError"} :
        ErrorResult(e).kind \in ExchangeKinds /\ ErrorResult(e).port = NoPort
  BY DEF ErrorResult, NoResult, ExchangeKinds
<1>2. WriteTimeout(c) => ExchangeEnds(c, ErrorResult("timeout"))
  BY <1>1 DEF WriteTimeout, ExchangeEnds
<1>3. ReadTimeout(c) => ExchangeEnds(c, ErrorResult("timeout"))
  BY <1>1 DEF ReadTimeout, ExchangeEnds, busVars
<1>4. IoError(c) => ExchangeEnds(c, ErrorResult("connError"))
  BY <1>1 DEF IoError, ExchangeEnds, busVars
<1>5. ReadFrame(c) /\ Head(rx).kind = "unknownFc" => ExchangeEnds(c, ErrorResult("protocolError"))
  BY <1>1 DEF ReadFrame, ExchangeEnds
<1>6. ReadFrame(c) /\ Head(rx).kind # "unknownFc" =>
        ExchangeEnds(c, [NoResult EXCEPT !.kind = Head(rx).kind, !.req = Head(rx).req])
  <2> SUFFICES ASSUME ReadFrame(c), Head(rx).kind # "unknownFc"
               PROVE  ExchangeEnds(c, [NoResult EXCEPT !.kind = Head(rx).kind, !.req = Head(rx).req])
    OBVIOUS
  <2>1. Head(rx) \in [kind : FrameKinds, req : Calls]
    BY QueueHead DEF ReadFrame, TypeOK
  <2>2. Head(rx).kind \in {"ok", "badCrc", "otherUnit"}
    BY <2>1, KindAssumption
  <2> QED BY <2>2 DEF ReadFrame, ExchangeEnds, ExchangeKinds, NoResult
<1> QED BY <1>2, <1>3, <1>4, <1>5, <1>6

\* Whatever it ends in, the task that waits for the exchange is not affected.
LEMMA TaskInvExchangeEnds ==
  ASSUME TypeOK, LockInv, TaskInv, NEW c \in Calls, NEW r, ExchangeEnds(c, r)
  PROVE  LockInv' /\ TaskInv'
BY DEF ExchangeEnds, Ends, TypeOK, loopVars, LockInv, TaskInv, Waiting, Opening, Exchanging,
       Closing, Holding

\* Every step leaves at most one task past the lock, and each task and its thread
\* consistent.
LEMMA TaskInvStep == TypeOK /\ LockInv /\ TaskInv /\ [Next]_vars => LockInv' /\ TaskInv'
<1> SUFFICES ASSUME TypeOK, LockInv, TaskInv, [Next]_vars PROVE LockInv' /\ TaskInv'
  OBVIOUS
<1>1. CASE \E t \in Tasks : Reject(t)
  BY <1>1 DEF Reject, TypeOK, threadVars, LockInv, TaskInv, Waiting, Opening, Exchanging, Closing, Holding
<1>2. CASE \E t \in Tasks : Enter(t)
  <2>1. PICK t \in Tasks : Enter(t)
    BY <1>2
  <2>2. CASE LockFree
    BY <2>1, <2>2, TaskInvLocked DEF Enter, LockFree
  <2>3. CASE ~LockFree
    BY <2>1, <2>3 DEF Enter, TypeOK, LockInv, TaskInv, Waiting, Opening, Exchanging, Closing, Holding
  <2> QED BY <2>2, <2>3
<1>3. CASE \E t \in Tasks : Acquire(t)
  BY <1>3, TaskInvLocked DEF Acquire
<1>4. CASE \E t \in Users : OpenResume(t)
  BY <1>4, TaskInvOpened
<1>10. CASE \E c \in Calls : WriteTimeout(c) \/ ReadTimeout(c) \/ IoError(c) \/ ReadFrame(c)
  <2>1. PICK c \in Calls : WriteTimeout(c) \/ ReadTimeout(c) \/ IoError(c) \/ ReadFrame(c)
    BY <1>10
  <2>2. PICK r : ExchangeEnds(c, r)
    BY <2>1, ExchangeEndsCases
  <2> QED BY <2>2, TaskInvExchangeEnds
<1> USE DEF TypeOK, loopVars, LockInv, TaskInv, Waiting, Opening, Exchanging, Closing, Holding
<1>5. CASE \E c \in Calls : ExchangeResume(c)
  BY <1>5 DEF ExchangeResume, Exit, threadVars, busVars
<1>6. CASE \E t \in Users : CallerCancel(t)
  BY <1>6 DEF CallerCancel
<1>7. CASE \E t \in Users, p \in Ports : OpenRun(t, p)
  BY <1>7 DEF OpenRun, Ends, NoResult
<1>8. CASE \E t \in Users : OpenFail(t)
  BY <1>8 DEF OpenFail, Ends, ErrorResult, NoResult
<1>9. CASE \E c \in Calls : Transmit(c)
  BY <1>9 DEF Transmit
<1>12. CASE \E a \in Closers : ClosePort(a)
  BY <1>12, TaskAssumption DEF ClosePort, Exit
<1>13. CASE \E p \in Ports : Unplug(p)
  BY <1>13 DEF Unplug
<1>14. CASE Answer \/ Tick
  BY <1>14 DEF Answer, Tick, threadVars
<1>15. CASE UNCHANGED vars
  BY <1>15 DEF vars, threadVars
<1> QED BY <1>1, <1>2, <1>3, <1>4, <1>5, <1>6, <1>7, <1>8, <1>9, <1>10, <1>12, <1>13, <1>14, <1>15
        DEF Next, TaskStep, UserStep, CallStep, Terminated

-----------------------------------------------------------------------------
(* Ports *)

\* A step that opens no port and takes none from its owner leaves every open
\* port owned.
LEMMA OwnerKept ==
  ASSUME TypeOK, OwnerInv,
         \A p \in Ports : ports'[p] = "open" => ports[p] = "open",
         serial # NoPort => serial' = serial,
         \A a \in Closers : pc[a] = "closing" => pc'[a] = "closing" /\ uses'[a] = uses[a],
         \A t \in Users : Waits(t) /\ result[t].port # NoPort =>
           Waits(t)' /\ result'[t].port = result[t].port
  PROVE  OwnerInv'
<1> SUFFICES ASSUME NEW p \in Ports, ports'[p] = "open" PROVE Owned(p)'
  BY DEF OwnerInv
<1>1. Owned(p) /\ p # NoPort
  BY DEF OwnerInv, Ports, NoPort
<1>2. CASE p = serial
  BY <1>1, <1>2 DEF Owned
<1>3. CASE \E a \in Closers : pc[a] = "closing" /\ uses[a] = p
  BY <1>3 DEF Owned
<1>4. CASE \E t \in Users : result[t].port = p /\ Waits(t)
  <2>1. PICK t \in Users : result[t].port = p /\ Waits(t)
    BY <1>4
  <2> QED BY <1>1, <2>1 DEF Owned
<1> QED BY <1>1, <1>2, <1>3, <1>4 DEF Owned

\* A step in which no close() moves and no user starts to open a port leaves
\* the port dropped or not.
LEMMA DropKept ==
  ASSUME DropInv, closed => closed',
         \A a \in Closers : \/ pc'[a] = pc[a]
                            \/ pc[a] = "idle" /\ pc'[a] = "lockWait" /\ closed',
         \A t \in Tasks : pc'[t] = "opening" => pc[t] = "opening",
         Dropped => serial' = serial
  PROVE  DropInv' /\ (Dropped' <=> Dropped)
<1>1. Dropped' <=> Dropped
  BY DEF Dropped
<1> QED BY <1>1 DEF DropInv

\* A task that has just taken the lock.
LEMMA PortInvLocked ==
  ASSUME TypeOK, LockInv, TaskInv, PortInv, OnePortInv, NEW t \in Tasks,
         pc[t] \in {"idle", "lockWait"}, lock = NoTask, Locked(t), UNCHANGED ports,
         closed' = (closed \/ t \in Closers)
  PROVE  PortInv' /\ OnePortInv'
<1> USE TaskAssumption
<1>0. /\ \A u \in Tasks : pc[u] \notin Holding
      /\ outcome[t] = "none" /\ uses[t] = NoPort /\ (t \in Users => result[t].port = NoPort)
  BY DEF LockInv, TaskInv, Waiting, Holding
<1>a. \A u \in Tasks : u # t => pc'[u] = pc[u] /\ outcome'[u] = outcome[u] /\ uses'[u] = uses[u]
  BY LockedCases DEF Returns, Exchanges, Opens, ClosesNone, ClosesPort, Exit, Suspend, TypeOK
<1>b. result' = result /\ UNCHANGED ports
  BY LockedCases
<1>c. \A u \in Users : Waits(u) => Waits(u)' /\ u # t
  BY <1>0, <1>a DEF Waits, Holding
<1>1. CASE Returns(t) /\ UNCHANGED serial
  <2>1. pc'[t] = "done" /\ uses' = uses /\ job' = job /\ t \in Users
    BY <1>1 DEF Returns, Exit, TypeOK
  <2>2. OwnerInv'
    BY <1>0, <1>1, <1>a, <1>b, <1>c, <2>1, OwnerKept DEF PortInv, Holding
  <2>3. DropInv' /\ (Dropped' <=> Dropped)
    BY <1>0, <1>1, <1>a, <2>1, DropKept DEF PortInv
  <2>4. PortUsed'
    BY <1>0, <1>1, <1>a, <1>b, <2>1 DEF PortInv, PortUsed
  <2> QED BY <1>1, <2>1, <2>2, <2>3, <2>4 DEF PortInv, OnePortInv
<1>2. CASE Exchanges(t, serial) /\ UNCHANGED serial
  <2>1. /\ pc'[t] = "exchanging" /\ uses'[t] = serial /\ t \in Calls /\ serial \in Ports
        /\ \A u \in Users : u # t => job'[u] = job[u]
    BY <1>2 DEF Exchanges, Suspend, TypeOK
  <2>2. OwnerInv'
    BY <1>0, <1>2, <1>a, <1>b, <1>c, <2>1, OwnerKept DEF PortInv, Holding
  <2>3. DropInv' /\ (Dropped' <=> Dropped)
    BY <1>0, <1>2, <1>a, <2>1, DropKept DEF PortInv
  <2>4. PortUsed'
    BY <1>0, <1>2, <1>a, <1>b, <2>1 DEF PortInv, PortUsed
  <2>5. ~Dropped
    BY <2>1 DEF PortInv, DropInv, Ports, NoPort
  <2>6. OnePortInv'
    BY <1>0, <1>2, <1>a, <2>1, <2>5 DEF OnePortInv
  <2> QED BY <2>2, <2>3, <2>4, <2>6 DEF PortInv
<1>3. CASE Opens(t)
  <2>1. /\ pc'[t] = "opening" /\ uses' = uses /\ t \in Users /\ serial = NoPort /\ serial' = serial
        /\ \A u \in Users : u # t => job'[u] = job[u]
        /\ ~closed
    BY <1>3 DEF Opens, Suspend, TypeOK
  <2>2. OwnerInv'
    BY <1>0, <1>a, <1>b, <1>c, <2>1, OwnerKept DEF PortInv, Holding
  <2>3. \A a \in Closers : pc[a] = "idle" /\ pc'[a] = "idle"
    BY <1>a, <2>1 DEF PortInv, DropInv
  <2>4. DropInv' /\ ~Dropped' /\ ~Dropped
    BY <2>3 DEF DropInv, Dropped
  <2>5. PortUsed'
    BY <1>0, <1>a, <1>b, <2>1 DEF PortInv, PortUsed
  <2> QED BY <2>1, <2>2, <2>4, <2>5 DEF PortInv, OnePortInv
<1>4. CASE ClosesNone(t)
  <2>1. /\ pc'[t] = "done" /\ uses' = uses /\ job' = job /\ t \in Closers
        /\ serial = NoPort /\ serial' = serial
    BY <1>4 DEF ClosesNone, Exit, TypeOK
  <2>2. OwnerInv'
    BY <1>0, <1>a, <1>b, <1>c, <2>1, OwnerKept DEF PortInv, Holding
  <2>3. DropInv' /\ Dropped'
    BY <1>0, <1>a, <2>1 DEF PortInv, DropInv, Dropped, Holding
  <2>4. PortUsed'
    BY <1>0, <1>a, <1>b, <2>1 DEF PortInv, PortUsed
  <2> QED BY <2>1, <2>2, <2>3, <2>4 DEF PortInv, OnePortInv
<1>5. CASE ClosesPort(t)
  <2>1. /\ pc'[t] = "closing" /\ uses'[t] = serial /\ job' = job /\ t \in Closers
        /\ serial \in Ports /\ serial' = NoPort
    BY <1>5 DEF ClosesPort, Suspend, TypeOK
  <2>2. OwnerInv'
    <3> SUFFICES ASSUME NEW p \in Ports, ports'[p] = "open" PROVE Owned(p)'
      BY DEF OwnerInv
    <3>1. p = serial \/ \E u \in Users : result[u].port = p /\ Waits(u)
      BY <1>0, <1>b DEF PortInv, OwnerInv, Owned, Holding
    <3> QED BY <1>b, <1>c, <2>1, <3>1 DEF Owned
  <2>3. ~Dropped
    BY <2>1 DEF PortInv, DropInv, Ports, NoPort
  <2>4. DropInv' /\ Dropped'
    BY <1>0, <1>a, <2>1, <2>3 DEF PortInv, DropInv, Dropped, Holding
  <2>5. PortUsed'
    BY <1>0, <1>a, <1>b, <2>1 DEF PortInv, PortUsed
  <2> QED BY <1>a, <2>1, <2>2, <2>4, <2>5 DEF PortInv, OnePortInv
<1> QED BY <1>1, <1>2, <1>3, <1>4, <1>5, LockedCases

\* A task whose port has just been opened.
LEMMA PortInvOpened ==
  ASSUME TypeOK, LockInv, TaskInv, PortInv, OnePortInv, NEW t \in Users, OpenResume(t)
  PROVE  PortInv' /\ OnePortInv'
<1> USE TaskAssumption
<1>0. /\ \A u \in Tasks : u # t => pc[u] \notin Holding
      /\ pc[t] = "opening" /\ outcome[t] = "none" /\ uses[t] = NoPort /\ serial = NoPort
      /\ result' = result /\ ports' = ports /\ closed' = closed
  BY DEF OpenResume, LockInv, TaskInv, Opening, Holding
<1>1. ~Dropped /\ \A c \in Calls : uses[c] = NoPort
  BY <1>0 DEF PortInv, DropInv, OnePortInv
<1>2. CASE result[t].kind = "port"
  <2>1. result[t].port \in Ports /\ serial' = result[t].port /\ result[t].port # NoPort
    BY <1>2 DEF OpenResume, TaskInv, Opening, Ports, NoPort
  <2>2. /\ \A u \in Tasks : u # t => pc'[u] = pc[u] /\ outcome'[u] = outcome[u] /\ uses'[u] = uses[u]
        /\ pc'[t] \in {"done", "exchanging"} /\ uses'[t] \in {NoPort, result[t].port}
        /\ \A u \in Users : pc'[u] = "done" /\ job'[u] = "opening" => u # t /\ job[u] = "opening"
    <3>1. Returns(t) \/ Exchanges(t, result[t].port)
      BY <1>2, <2>1, ProceedCases DEF OpenResume
    <3>2. job[t] = "ended"
      BY DEF OpenResume
    <3> QED BY <1>0, <3>1, <3>2 DEF Returns, Exchanges, Exit, Suspend, TypeOK
  <2>3. ~Dropped'
    BY <1>1, <2>2 DEF Dropped
  <2>4. DropInv'
    BY <1>0, <2>2, <2>3 DEF PortInv, DropInv, Dropped
  <2>5. PortUsed'
    BY <1>0, <2>1, <2>2 DEF PortInv, PortUsed
  <2>6. OwnerInv'
    <3> SUFFICES ASSUME NEW p \in Ports, ports'[p] = "open" PROVE Owned(p)'
      BY DEF OwnerInv
    <3>1. p # NoPort /\ Owned(p)
      BY <1>0 DEF PortInv, OwnerInv, Ports, NoPort
    <3>2. \E u \in Users : result[u].port = p /\ Waits(u)
      BY <1>0, <3>1 DEF Owned, Holding
    <3>3. PICK u \in Users : result[u].port = p /\ Waits(u)
      BY <3>2
    <3>4. CASE u = t
      BY <2>1, <3>3, <3>4 DEF Owned
    <3>5. CASE u # t
      BY <1>0, <2>2, <3>3, <3>5 DEF Owned, Waits
    <3> QED BY <3>4, <3>5
  <2>7. \A c \in Calls : uses'[c] \in {NoPort, serial'}
    BY <1>1, <2>1, <2>2
  <2>8. OnePortInv'
    BY <2>7 DEF OnePortInv
  <2> QED BY <2>4, <2>5, <2>6, <2>8 DEF PortInv
<1>3. CASE result[t].kind # "port"
  <2>1. result[t].port = NoPort
    BY <1>3 DEF OpenResume, TaskInv, Opening
  <2>2. /\ \A u \in Tasks : u # t => pc'[u] = pc[u] /\ outcome'[u] = outcome[u]
        /\ pc'[t] = "done" /\ UNCHANGED <<serial, job, uses>>
    BY <1>3 DEF OpenResume, Exit, TypeOK
  <2>3. OwnerInv'
    <3>1. \A u \in Users : Waits(u) /\ result[u].port # NoPort =>
             Waits(u)' /\ result'[u].port = result[u].port
      BY <1>0, <2>1, <2>2 DEF Waits
    <3> QED BY <1>0, <2>2, <3>1, OwnerKept DEF PortInv
  <2>4. DropInv' /\ (Dropped' <=> Dropped)
    BY <1>0, <2>2, DropKept DEF PortInv
  <2>5. PortUsed'
    BY <1>0, <2>1, <2>2 DEF PortInv, PortUsed
  <2> QED BY <2>2, <2>3, <2>4, <2>5 DEF PortInv, OnePortInv
<1> QED BY <1>2, <1>3

\* What the steps other than taking the lock and resuming after an open leave
\* of a call's port.
LEMMA UseKept ==
  ASSUME TypeOK, UseInv, serial' = serial, uses' = uses,
         \A p \in Ports : ports'[p] = "open" => ports[p] = "open" \/ ports[p] = "unused",
         \A p \in Ports : ports'[p] = "unused" => ports[p] = "unused",
         \A a \in Closers : pc[a] = "closing" /\ ports'[uses[a]] = "open" => pc'[a] = "closing",
         \A c \in Calls : job'[c] \in {"queued", "reading"} =>
           job[c] \in {"queued", "reading"} /\ result'[c] = result[c]
  PROVE  UseInv'
<1>1. ASSUME NEW c \in Calls, uses'[c] # NoPort, ports'[uses'[c]] = "open"
      PROVE  serial' = uses'[c] \/ \E a \in Closers : pc'[a] = "closing" /\ uses'[a] = uses'[c]
  <2>1. uses[c] \in Ports /\ ports[uses[c]] = "open"
    BY <1>1 DEF TypeOK, UseInv
  <2> QED BY <1>1, <2>1 DEF UseInv
<1>2. ASSUME NEW c \in Calls, job'[c] \in {"queued", "reading"}, result'[c].port # NoPort
      PROVE  result'[c].port = uses'[c]
  BY <1>2 DEF UseInv
<1>3. \A c \in Calls : uses'[c] # NoPort => ports'[uses'[c]] # "unused"
  BY DEF UseInv, TypeOK
<1> QED BY <1>1, <1>2, <1>3 DEF UseInv

\* Every step leaves every open port with an owner, and a dropped port dropped.
LEMMA PortInvStep ==
  TypeOK /\ LockInv /\ TaskInv /\ PortInv /\ OnePortInv /\ UseInv /\ [Next]_vars =>
    PortInv' /\ OnePortInv'
<1> SUFFICES ASSUME TypeOK, LockInv, TaskInv, PortInv, OnePortInv, UseInv, [Next]_vars
             PROVE  PortInv' /\ OnePortInv'
  OBVIOUS
<1> USE TaskAssumption
<1>1. CASE \E t \in Tasks : Reject(t)
  <2>1. PICK t \in Tasks : Reject(t)
    BY <1>1
  <2>2. /\ UNCHANGED <<closed, serial, job, result, ports, uses>>
        /\ t \in Users /\ pc[t] = "idle" /\ pc'[t] = "done" /\ outcome[t] = "none" /\ job[t] = "none"
        /\ \A u \in Tasks : u # t => pc'[u] = pc[u] /\ outcome'[u] = outcome[u]
    BY <2>1 DEF Reject, TypeOK, threadVars, TaskInv, Waiting
  <2>3. \A u \in Users : Waits(u) => Waits(u)'
    BY <2>2 DEF Waits
  <2>4. OwnerInv'
    BY <2>2, <2>3, OwnerKept DEF PortInv
  <2>5. DropInv' /\ (Dropped' <=> Dropped)
    BY <2>2, DropKept DEF PortInv
  <2>6. PortUsed'
    BY <2>2 DEF PortInv, PortUsed
  <2> QED BY <2>2, <2>4, <2>5, <2>6 DEF PortInv, OnePortInv
<1>2. CASE \E t \in Tasks : Enter(t)
  <2>1. PICK t \in Tasks : Enter(t)
    BY <1>2
  <2>2. CASE LockFree
    BY <2>1, <2>2, PortInvLocked DEF Enter, LockFree
  <2>3. CASE ~LockFree
    <3>1. /\ closed \/ t \in Closers => closed'
          /\ UNCHANGED <<serial, lock, outcome, job, uses, result, ports>>
          /\ pc[t] = "idle" /\ pc'[t] = "lockWait"
          /\ \A u \in Tasks : u # t => pc'[u] = pc[u]
      BY <2>1, <2>3 DEF Enter, TypeOK
    <3>2. DropInv' /\ (Dropped' <=> Dropped)
      BY <3>1, DropKept DEF PortInv
    <3>3. OwnerInv'
      <4>1. \A u \in Users : Waits(u) => Waits(u)'
        BY <3>1 DEF Waits
      <4> QED BY <3>1, <4>1, OwnerKept DEF PortInv
    <3> QED BY <3>1, <3>2, <3>3 DEF PortInv, PortUsed, OnePortInv
  <2> QED BY <2>2, <2>3
<1>3. CASE \E t \in Tasks : Acquire(t)
  <2>1. PICK t \in Tasks : Acquire(t)
    BY <1>3
  <2>2. t \in Closers => closed
    BY <2>1 DEF Acquire, PortInv, DropInv
  <2> QED BY <2>1, <2>2, PortInvLocked DEF Acquire, TypeOK
<1>4. CASE \E t \in Users : OpenResume(t)
  BY <1>4, PortInvOpened
<1>5. CASE \E c \in Calls : ExchangeResume(c)
  <2>1. PICK c \in Calls : ExchangeResume(c)
    BY <1>5
  <2>2. /\ UNCHANGED <<closed, serial, job, result, ports, uses>>
        /\ pc[c] = "exchanging" /\ pc'[c] = "done" /\ outcome[c] = "none" /\ job[c] = "ended"
        /\ \A u \in Tasks : u # c => pc'[u] = pc[u] /\ outcome'[u] = outcome[u]
    BY <2>1 DEF ExchangeResume, Exit, TypeOK, threadVars, TaskInv, Exchanging
  <2>3. \A u \in Users : Waits(u) => Waits(u)'
    BY <2>2 DEF Waits
  <2>4. OwnerInv'
    BY <2>2, <2>3, OwnerKept DEF PortInv
  <2>5. DropInv' /\ (Dropped' <=> Dropped)
    BY <2>2, DropKept DEF PortInv
  <2>6. PortUsed'
    BY <2>2 DEF PortInv, PortUsed
  <2> QED BY <2>2, <2>4, <2>5, <2>6 DEF PortInv, OnePortInv
<1>6. CASE \E t \in Users : CallerCancel(t)
  <2>1. PICK t \in Users : CallerCancel(t)
    BY <1>6
  <2>2. /\ UNCHANGED <<closed, serial, result, ports, uses>>
        /\ pc[t] \in {"lockWait", "opening", "exchanging"}
        /\ pc'[t] = "done" /\ outcome'[t] = "cancelled"
        /\ \A u \in Tasks : u # t => pc'[u] = pc[u] /\ outcome'[u] = outcome[u]
        /\ \A u \in Users : job'[u] = "opening" => job[u] = "opening"
    BY <2>1 DEF CallerCancel, TypeOK
  <2>3. \A u \in Users : Waits(u) => Waits(u)'
    BY <2>2 DEF Waits
  <2>4. OwnerInv'
    BY <2>2, <2>3, OwnerKept DEF PortInv
  <2>5. DropInv' /\ (Dropped' <=> Dropped)
    BY <2>2, DropKept DEF PortInv
  <2>6. job[t] = "opening" => result[t].port = NoPort
    BY <2>2 DEF TaskInv, Waiting, Opening, Exchanging
  <2>7. PortUsed'
    BY <2>2, <2>6 DEF PortInv, PortUsed
  <2> QED BY <2>2, <2>4, <2>5, <2>7 DEF PortInv, OnePortInv
<1>7. CASE \E t \in Users, p \in Ports : OpenRun(t, p)
  <2>1. PICK t \in Users, p \in Ports : OpenRun(t, p)
    BY <1>7
  <2>2. /\ UNCHANGED <<closed, serial, pc, outcome, uses>>
        /\ job[t] = "opening" /\ result'[t].port = p /\ p # NoPort /\ job'[t] = "ended"
        /\ \A u \in Users : u # t => result'[u] = result[u] /\ job'[u] = job[u]
        /\ ports'[p] = "open" /\ ports[p] = "unused"
        /\ \A q \in Ports : q # p => ports'[q] = ports[q]
    BY <2>1 DEF OpenRun, Ends, NoResult, TypeOK, loopVars, Ports, NoPort
  <2>3. Waits(t) /\ result[t].port = NoPort
    BY <2>2 DEF TaskInv, Waiting, Opening, Exchanging, Closing, PortInv, PortUsed, Waits, TypeOK
  <2>4. OwnerInv'
    <3> SUFFICES ASSUME NEW q \in Ports, ports'[q] = "open" PROVE Owned(q)'
      BY DEF OwnerInv
    <3>1. CASE q = p
      BY <2>2, <2>3, <3>1 DEF Owned, Waits
    <3>2. CASE q # p
      <4>1. Owned(q) /\ q # NoPort
        BY <2>2, <3>2 DEF PortInv, OwnerInv, Ports, NoPort
      <4> QED BY <2>2, <2>3, <4>1 DEF Owned, Waits
    <3> QED BY <3>1, <3>2
  <2>5. DropInv' /\ (Dropped' <=> Dropped)
    BY <2>2, DropKept DEF PortInv
  <2>6. PortUsed'
    <3>1. \A q \in Ports : ports[q] # "unused" => ports'[q] # "unused"
      BY <2>2
    <3>2. serial' # NoPort => ports'[serial'] # "unused"
      BY <2>2, <3>1 DEF PortInv, PortUsed, TypeOK
    <3>3. \A u \in Users : result[u].port \in Ports \cup {NoPort}
      BY DEF TypeOK, Results
    <3>4. ASSUME NEW u \in Users, result'[u].port # NoPort PROVE ports'[result'[u].port] # "unused"
      BY <2>2, <3>1, <3>3, <3>4 DEF PortInv, PortUsed
    <3> QED BY <2>2, <3>2, <3>4 DEF PortInv, PortUsed
  <2> QED BY <2>2, <2>4, <2>5, <2>6 DEF PortInv, OnePortInv
<1>8. CASE \E t \in Users : OpenFail(t)
  <2>1. PICK t \in Users : OpenFail(t)
    BY <1>8
  <2>2. /\ UNCHANGED <<closed, serial, pc, outcome, uses, ports>>
        /\ job[t] = "opening" /\ result'[t].port = NoPort /\ job'[t] = "ended"
        /\ \A u \in Users : u # t => result'[u] = result[u] /\ job'[u] = job[u]
    BY <2>1 DEF OpenFail, Ends, ErrorResult, NoResult, TypeOK, loopVars
  <2>3. result[t].port = NoPort
    BY <2>2 DEF TaskInv, Waiting, Opening, Exchanging, Closing, PortInv, PortUsed, TypeOK
  <2>4. \A u \in Users : result'[u].port = result[u].port /\ (Waits(u) => Waits(u)')
    BY <2>2, <2>3 DEF Waits
  <2>5. OwnerInv'
    BY <2>2, <2>4, OwnerKept DEF PortInv
  <2>6. DropInv' /\ (Dropped' <=> Dropped)
    BY <2>2, DropKept DEF PortInv
  <2>7. PortUsed'
    BY <2>2, <2>3 DEF PortInv, PortUsed
  <2> QED BY <2>2, <2>5, <2>6, <2>7 DEF PortInv, OnePortInv
<1>9. CASE \E c \in Calls : Transmit(c)
  <2>1. PICK c \in Calls : Transmit(c)
    BY <1>9
  <2>2. /\ UNCHANGED <<closed, serial, pc, outcome, uses, ports, result>>
        /\ \A u \in Users : job'[u] = "opening" => job[u] = "opening"
    BY <2>1 DEF Transmit, TypeOK, loopVars
  <2>3. OwnerInv' /\ DropInv' /\ (Dropped' <=> Dropped)
    BY <2>2 DEF PortInv, OwnerInv, Owned, Waits, DropInv, Dropped
  <2> QED BY <2>2, <2>3 DEF PortInv, PortUsed, OnePortInv
<1>10. CASE \E c \in Calls : WriteTimeout(c) \/ ReadTimeout(c) \/ IoError(c) \/ ReadFrame(c)
  <2>1. PICK c \in Calls : WriteTimeout(c) \/ ReadTimeout(c) \/ IoError(c) \/ ReadFrame(c)
    BY <1>10
  <2>2. PICK r : ExchangeEnds(c, r)
    BY <2>1, ExchangeEndsCases
  <2>3. /\ UNCHANGED <<closed, serial, pc, outcome, uses, ports>>
        /\ job[c] \in {"queued", "reading"} /\ result'[c].port = NoPort /\ job'[c] = "ended"
        /\ \A u \in Users : u # c => result'[u] = result[u] /\ job'[u] = job[u]
    BY <2>2 DEF ExchangeEnds, Ends, TypeOK, loopVars
  <2>4. OwnerInv'
    <3> SUFFICES ASSUME NEW q \in Ports, ports'[q] = "open" PROVE Owned(q)'
      BY DEF OwnerInv
    <3>1. Owned(q) /\ q # NoPort
      BY <2>3 DEF PortInv, OwnerInv, Ports, NoPort
    <3>2. CASE q = serial \/ \E a \in Closers : pc[a] = "closing" /\ uses[a] = q
      BY <2>3, <3>2 DEF Owned
    <3>3. CASE \E t \in Users : t # c /\ result[t].port = q /\ Waits(t)
      BY <2>3, <3>3 DEF Owned, Waits
    <3>4. CASE result[c].port = q
      <4>1. uses[c] = q
        BY <2>3, <3>1, <3>4 DEF UseInv
      <4> QED BY <2>3, <3>1, <4>1 DEF UseInv, Owned
    <3> QED BY <3>1, <3>2, <3>3, <3>4 DEF Owned
  <2>5. DropInv' /\ (Dropped' <=> Dropped)
    BY <2>3, DropKept DEF PortInv
  <2>6. PortUsed'
    BY <2>3 DEF PortInv, PortUsed
  <2> QED BY <2>3, <2>4, <2>5, <2>6 DEF PortInv, OnePortInv
<1>12. CASE \E a \in Closers : ClosePort(a)
  <2>1. PICK a \in Closers : ClosePort(a)
    BY <1>12
  <2>2. /\ UNCHANGED <<closed, serial, job, result, uses>>
        /\ pc[a] = "closing" /\ pc'[a] = "done"
        /\ \A u \in Tasks : u # a => pc'[u] = pc[u] /\ outcome'[u] = outcome[u] /\ pc[u] # "closing"
        /\ uses[a] \in Ports /\ ports'[uses[a]] = "closed"
        /\ \A q \in Ports : q # uses[a] => ports'[q] = ports[q]
    BY <2>1 DEF ClosePort, Exit, TypeOK, TaskInv, Closing, LockInv, Holding
  <2>3. OwnerInv'
    <3> SUFFICES ASSUME NEW q \in Ports, ports'[q] = "open" PROVE Owned(q)'
      BY DEF OwnerInv
    <3>1. q # uses[a] /\ Owned(q)
      BY <2>2 DEF PortInv, OwnerInv
    <3>2. q = serial \/ \E t \in Users : result[t].port = q /\ Waits(t)
      BY <2>2, <3>1 DEF Owned
    <3> QED BY <2>2, <3>2 DEF Owned, Waits
  <2>4. DropInv' /\ Dropped' /\ Dropped
    BY <2>2 DEF PortInv, DropInv, Dropped
  <2>5. PortUsed'
    BY <2>2 DEF PortInv, PortUsed, TypeOK, Results
  <2> QED BY <2>2, <2>3, <2>4, <2>5 DEF PortInv, OnePortInv
<1>13. CASE \E p \in Ports : Unplug(p)
  <2>1. PICK p \in Ports : Unplug(p)
    BY <1>13
  <2>2. /\ UNCHANGED <<closed, serial, pc, outcome, uses, result, job>>
        /\ ports'[p] = "dead" /\ \A q \in Ports : q # p => ports'[q] = ports[q]
    BY <2>1 DEF Unplug, TypeOK, loopVars
  <2>3. OwnerInv' /\ DropInv' /\ (Dropped' <=> Dropped)
    BY <2>2 DEF PortInv, OwnerInv, Owned, Waits, DropInv, Dropped
  <2>4. PortUsed'
    BY <2>2 DEF PortInv, PortUsed, TypeOK, Results
  <2> QED BY <2>2, <2>3, <2>4 DEF PortInv, OnePortInv
<1>14. CASE Answer \/ Tick \/ UNCHANGED vars
  <2>1. UNCHANGED <<closed, serial, pc, outcome, uses, result, job, ports>>
    BY <1>14 DEF Answer, Tick, threadVars, loopVars, vars
  <2> QED BY <2>1 DEF PortInv, PortUsed, OwnerInv, Owned, Waits, DropInv, Dropped, OnePortInv
<1> QED BY <1>1, <1>2, <1>3, <1>4, <1>5, <1>6, <1>7, <1>8, <1>9, <1>10, <1>12, <1>13, <1>14
        DEF Next, TaskStep, UserStep, CallStep, Terminated

\* Every step leaves the ports of the exchanges as UseInv says.
LEMMA UseInvStep ==
  TypeOK /\ LockInv /\ TaskInv /\ PortInv /\ OnePortInv /\ UseInv /\ [Next]_vars => UseInv'
<1> SUFFICES ASSUME TypeOK, LockInv, TaskInv, PortInv, OnePortInv, UseInv, [Next]_vars
             PROVE  UseInv'
  OBVIOUS
<1> USE TaskAssumption
<1>1. CASE \E t \in Tasks : Reject(t)
  BY <1>1, UseKept DEF Reject, threadVars, TypeOK
<1>2. CASE \E t \in Tasks : lock = NoTask /\ Locked(t) /\ pc[t] \in {"idle", "lockWait"} /\ UNCHANGED ports
  <2>1. PICK t \in Tasks : lock = NoTask /\ Locked(t) /\ pc[t] \in {"idle", "lockWait"} /\ UNCHANGED ports
    BY <1>2
  <2>2. /\ \A u \in Tasks : pc[u] \notin Holding
        /\ outcome[t] = "none" /\ uses[t] = NoPort /\ (t \in Users => result[t].port = NoPort)
        /\ result' = result
    BY <2>1, LockedCases DEF LockInv, TaskInv, Waiting, Holding
  <2>3. CASE UNCHANGED <<serial, uses>>
    <3>1. \A c \in Calls : job'[c] \in {"queued", "reading"} => job[c] \in {"queued", "reading"}
      BY <2>1, <2>2, <2>3, LockedCases
         DEF Returns, Exchanges, Opens, ClosesNone, ClosesPort, Exit, Suspend, TypeOK, Ports, NoPort
    <3> QED BY <2>1, <2>2, <2>3, <3>1, UseKept DEF Holding, TypeOK
  <2>4. CASE Exchanges(t, serial) /\ UNCHANGED serial
    <3>1. /\ uses'[t] = serial /\ t \in Calls /\ serial \in Ports
          /\ \A u \in Users : u # t => job'[u] = job[u] /\ uses'[u] = uses[u]
      BY <2>4 DEF Exchanges, Suspend, TypeOK
    <3>2. \A c \in Calls : uses'[c] # NoPort => uses'[c] = serial
      BY <3>1 DEF OnePortInv, PortInv, DropInv, Ports, NoPort
    <3> QED BY <2>1, <2>2, <2>4, <3>1, <3>2 DEF UseInv, PortInv, PortUsed, Ports, NoPort
  <2>5. CASE ClosesPort(t)
    <3>1. /\ uses'[t] = serial /\ pc'[t] = "closing" /\ t \in Closers /\ serial \in Ports
          /\ job' = job /\ \A c \in Calls : uses'[c] = uses[c]
      BY <2>5 DEF ClosesPort, Suspend, TypeOK
    <3> QED BY <2>1, <2>2, <3>1 DEF UseInv, Holding
  <2> QED BY <2>1, <2>3, <2>4, <2>5, LockedCases DEF Returns, Opens, ClosesNone
<1>3. CASE \E t \in Tasks : Enter(t)
  <2>1. PICK t \in Tasks : Enter(t)
    BY <1>3
  <2>2. CASE LockFree
    BY <1>2, <2>1, <2>2 DEF Enter, LockFree
  <2>3. CASE ~LockFree
    BY <2>1, <2>3, UseKept DEF Enter, TypeOK
  <2> QED BY <2>2, <2>3
<1>4. CASE \E t \in Tasks : Acquire(t)
  BY <1>2, <1>4 DEF Acquire
<1>5. CASE \E t \in Users : OpenResume(t)
  <2>1. PICK t \in Users : OpenResume(t)
    BY <1>5
  <2>2. /\ pc[t] = "opening" /\ job[t] = "ended" /\ uses[t] = NoPort /\ serial = NoPort
        /\ result' = result /\ ports' = ports
    BY <2>1 DEF OpenResume, TaskInv, Opening
  <2>3. \A c \in Calls : uses[c] = NoPort
    BY <2>2 DEF PortInv, DropInv, OnePortInv
  <2>4. CASE result[t].kind = "port"
    <3>1. result[t].port \in Ports /\ serial' = result[t].port
      BY <2>1, <2>4 DEF OpenResume, TaskInv, Opening
    <3>2. Returns(t) \/ Exchanges(t, result[t].port)
      BY <2>1, <2>4, <3>1, ProceedCases DEF OpenResume
    <3>3. /\ \A c \in Calls : uses'[c] # NoPort => uses'[c] = serial'
          /\ \A c \in Calls : job'[c] \in {"queued", "reading"} =>
               (c = t /\ uses'[c] = serial') \/ job[c] \in {"queued", "reading"}
      BY <2>2, <2>3, <3>1, <3>2 DEF Returns, Exchanges, Exit, Suspend, TypeOK
    <3>4. ports[result[t].port] # "unused"
      BY <3>1 DEF PortInv, PortUsed, Ports, NoPort
    <3>5. \A c \in Calls : job[c] \notin {"queued", "reading"}
      BY <2>3 DEF TaskInv, Ports, NoPort
    <3> QED BY <2>2, <3>1, <3>3, <3>4, <3>5 DEF UseInv
  <2>5. CASE result[t].kind # "port"
    BY <2>1, <2>5, <2>3, <2>2 DEF OpenResume, Exit, UseInv
  <2> QED BY <2>4, <2>5
<1>6. CASE \E c \in Calls : ExchangeResume(c)
  BY <1>6, UseKept DEF ExchangeResume, Exit, threadVars, TypeOK
<1>7. CASE \E t \in Users : CallerCancel(t)
  BY <1>7, UseKept DEF CallerCancel, TypeOK
<1>8. CASE \E t \in Users, p \in Ports : OpenRun(t, p)
  BY <1>8, UseKept DEF OpenRun, Ends, loopVars, TypeOK
<1>9. CASE \E t \in Users : OpenFail(t)
  BY <1>9, UseKept DEF OpenFail, Ends, loopVars, TypeOK
<1>10. CASE \E c \in Calls : Transmit(c)
  BY <1>10, UseKept DEF Transmit, loopVars, TypeOK
<1>11. CASE \E c \in Calls : WriteTimeout(c) \/ ReadTimeout(c) \/ IoError(c) \/ ReadFrame(c)
  <2>1. PICK c \in Calls : WriteTimeout(c) \/ ReadTimeout(c) \/ IoError(c) \/ ReadFrame(c)
    BY <1>11
  <2>2. PICK r : ExchangeEnds(c, r)
    BY <2>1, ExchangeEndsCases
  <2> QED BY <2>2, UseKept DEF ExchangeEnds, Ends, loopVars, TypeOK
<1>12. CASE \E a \in Closers : ClosePort(a)
  <2>1. PICK a \in Closers : ClosePort(a)
    BY <1>12
  <2>2. uses[a] \in Ports
    BY <2>1 DEF ClosePort, TaskInv, Closing
  <2> QED BY <2>1, <2>2, UseKept DEF ClosePort, Exit, TypeOK
<1>13. CASE \E p \in Ports : Unplug(p)
  BY <1>13, UseKept DEF Unplug, loopVars, TypeOK
<1>14. CASE Answer \/ Tick \/ UNCHANGED vars
  BY <1>14, UseKept DEF Answer, Tick, threadVars, loopVars, vars
<1> QED BY <1>1, <1>3, <1>4, <1>5, <1>6, <1>7, <1>8, <1>9, <1>10, <1>11, <1>12, <1>13, <1>14
        DEF Next, TaskStep, UserStep, CallStep, Terminated

-----------------------------------------------------------------------------
(* The bus *)

\* A task ends once.
LEMMA OutcomeFinal ==
  TypeOK /\ TaskInv /\ [Next]_vars =>
    \A t \in Tasks : outcome[t] # "none" => outcome'[t] = outcome[t]
<1> SUFFICES ASSUME TypeOK, TaskInv, [Next]_vars
             PROVE  \A t \in Tasks : outcome[t] # "none" => outcome'[t] = outcome[t]
  OBVIOUS
<1>1. CASE UNCHANGED outcome
  BY <1>1
<1>2. CASE \E t \in Tasks, o \in Outcomes : pc[t] # "done" /\ outcome' = [outcome EXCEPT ![t] = o]
  BY <1>2 DEF TaskInv, Waiting, Opening, Exchanging, Closing, TypeOK, PcStates
<1>3. CASE \E t \in Tasks : Reject(t)
  BY <1>2, <1>3 DEF Reject, Outcomes
<1>4. ASSUME NEW t \in Tasks, Locked(t), pc[t] # "done"
      PROVE  UNCHANGED outcome \/ \E o \in Outcomes : outcome' = [outcome EXCEPT ![t] = o]
  BY <1>4, LockedCases DEF Returns, Exchanges, Opens, ClosesNone, ClosesPort, Exit, Suspend, Outcomes
<1>5. CASE \E t \in Tasks : Enter(t)
  BY <1>1, <1>2, <1>4, <1>5 DEF Enter
<1>6. CASE \E t \in Tasks : Acquire(t)
  BY <1>1, <1>2, <1>4, <1>6 DEF Acquire
<1>7. CASE \E t \in Users : OpenResume(t)
  <2>1. PICK t \in Users : OpenResume(t)
    BY <1>7
  <2>2. CASE result[t].kind = "port"
    <3>1. result[t].port \in Ports
      BY <2>1, <2>2 DEF OpenResume, TaskInv, Opening
    <3> QED BY <1>1, <1>2, <2>1, <2>2, <3>1, ProceedCases
            DEF OpenResume, Returns, Exchanges, Exit, Suspend, Outcomes
  <2>3. CASE result[t].kind # "port"
    BY <1>2, <2>1, <2>3 DEF OpenResume, Exit, Outcomes
  <2> QED BY <2>2, <2>3
<1>8. CASE \E c \in Calls : ExchangeResume(c)
  <2>1. PICK c \in Calls : ExchangeResume(c)
    BY <1>8
  <2>2. PICK o : Exit(c, o)
    BY <2>1 DEF ExchangeResume
  <2>3. outcome[c] = "none"
    BY <2>1 DEF ExchangeResume, TaskInv, Exchanging
  <2> QED BY <2>2, <2>3 DEF Exit, TypeOK
<1>9. CASE \E t \in Users : CallerCancel(t)
  BY <1>2, <1>9 DEF CallerCancel, Outcomes
<1>10. CASE \E a \in Closers : ClosePort(a)
  BY <1>2, <1>10 DEF ClosePort, Exit, Outcomes
<1>11. CASE UNCHANGED loopVars
  BY <1>1, <1>11 DEF loopVars
<1> QED BY <1>3, <1>5, <1>6, <1>7, <1>8, <1>9, <1>10, <1>11
        DEF Next, TaskStep, UserStep, CallStep, Terminated, vars, OpenRun, OpenFail, Transmit,
            WriteTimeout, ReadFrame, ReadTimeout, IoError, Unplug, Answer, Tick

\* A port that is gone stays gone.
LEMMA PortFinal ==
  TypeOK /\ TaskInv /\ [Next]_vars =>
    \A p \in Ports : ports[p] \notin {"unused", "open"} => ports'[p] \notin {"unused", "open"}
<1> SUFFICES ASSUME TypeOK, TaskInv, [Next]_vars, NEW p \in Ports, ports[p] \notin {"unused", "open"}
             PROVE  ports'[p] \notin {"unused", "open"}
  OBVIOUS
<1>1. CASE UNCHANGED ports
  BY <1>1
<1>2. CASE \E t \in Users, q \in Ports : OpenRun(t, q)
  BY <1>2 DEF OpenRun, TypeOK
<1>3. CASE \E a \in Closers : ClosePort(a)
  BY <1>3 DEF ClosePort, TypeOK
<1>4. CASE \E q \in Ports : Unplug(q)
  BY <1>4 DEF Unplug, TypeOK
<1> QED BY <1>1, <1>2, <1>3, <1>4
        DEF Next, TaskStep, UserStep, CallStep, Terminated, vars, threadVars, Reject, Enter, Acquire,
            OpenResume, CallerCancel, OpenFail, ExchangeResume, Transmit, WriteTimeout, ReadFrame,
            ReadTimeout, IoError, Answer, Tick

\* Discarding buffered input only takes requests off the bus.
LEMMA WireShrinks ==
  ASSUME TypeOK, WireOnce, owed' = owed, rx' \in {rx, <<>>}
  PROVE  WireOnce' /\ \A r \in Calls : OnWire(r)' => OnWire(r)
<1>1. CASE rx' = rx
  BY <1>1 DEF WireOnce, OnWire
<1>2. CASE rx' = <<>>
  <2>1. Len(rx') = 0 /\ 1..Len(rx') = {}
    BY <1>2
  <2> QED BY <2>1 DEF WireOnce, OnWire
<1> QED BY <1>1, <1>2

\* A call the step does not touch.
LEMMA CallKept ==
  ASSUME TypeOK, TaskInv, UseInv, [Next]_vars, NEW r \in Calls, CallInv(r), OnWire(r)' => OnWire(r),
         pc'[r] = pc[r], outcome'[r] = outcome[r], job'[r] = job[r], uses'[r] = uses[r],
         result'[r] = result[r], reply'[r] = reply[r]
  PROVE  CallInv(r)'
<1>1. Loss(r) => Loss(r)'
  BY OutcomeFinal DEF Loss, Unfinished
<1>2. uses[r] # NoPort /\ ports[uses[r]] # "open" => ports'[uses[r]] # "open"
  BY PortFinal DEF UseInv, TypeOK
<1>3. pc[r] = "exchanging" => uses[r] # NoPort
  BY DEF TaskInv, Exchanging, Ports, NoPort
<1>4. Sent(r)' /\ Leftover(r)'
  BY <1>2 DEF CallInv, Sent, Leftover, Unfinished
<1>5. Handed(r)'
  BY <1>1, <1>2, <1>3 DEF CallInv, Handed
<1>6. Replied(r)'
  BY <1>1 DEF CallInv, Replied
<1> QED BY <1>4, <1>5, <1>6 DEF CallInv

\* A call that is not on the bus before the step, nor gets there.
LEMMA CallOffBus ==
  ASSUME TypeOK, TaskInv, [Next]_vars, NEW r \in Calls, CallInv(r), ~OnWire(r)',
         ~(pc'[r] = "exchanging" /\ job'[r] = "ended"),
         outcome'[r] = "response" => outcome[r] = "response", reply'[r] = reply[r]
  PROVE  CallInv(r)'
<1>1. Loss(r) => Loss(r)'
  BY OutcomeFinal DEF Loss, Unfinished
<1> QED BY <1>1 DEF CallInv, Sent, Leftover, Handed, Replied

\* A call that waits for the lock, for a port or not at all is not on the bus.
LEMMA OffBus ==
  ASSUME BusInv, NEW r \in Calls, pc[r] \in {"idle", "lockWait", "opening"} \/ job[r] \in {"none", "opening", "queued"}
  PROVE  ~OnWire(r)
BY DEF BusInv, CallInv, Sent

\* A step that moves one task up to its exchange, and touches the bus at most
\* to discard buffered input.
LEMMA BusKept ==
  ASSUME TypeOK, TaskInv, UseInv, BusInv, [Next]_vars, NEW t, owed' = owed, rx' \in {rx, <<>>},
         reply' = reply,
         \A r \in Calls : r # t =>
           /\ pc'[r] = pc[r] /\ outcome'[r] = outcome[r] /\ job'[r] = job[r] /\ uses'[r] = uses[r]
           /\ result'[r] = result[r],
         t \in Calls => /\ pc[t] \in {"idle", "lockWait", "opening"} \/ job[t] \in {"none", "opening", "queued"}
                        /\ ~(pc'[t] = "exchanging" /\ job'[t] = "ended")
                        /\ outcome'[t] = "response" => outcome[t] = "response"
  PROVE  BusInv'
<1>1. WireOnce' /\ \A r \in Calls : OnWire(r)' => OnWire(r)
  BY WireShrinks DEF BusInv
<1>2. ASSUME NEW r \in Calls PROVE CallInv(r)'
  <2>1. CASE r = t
    BY <1>1, <2>1, OffBus, CallOffBus DEF BusInv
  <2>2. CASE r # t
    BY <1>1, <2>2, CallKept DEF BusInv
  <2> QED BY <2>1, <2>2
<1> QED BY <1>1, <1>2 DEF BusInv

\* What Exit makes of a result.
LEMMA ExchangeOutcome ==
  ASSUME TypeOK, TaskInv, NEW c \in Calls, ExchangeResume(c)
  PROVE  /\ result[c].kind = "ok" => outcome'[c] = "response" /\ reply'[c] = result[c].req
         /\ result[c].kind # "ok" => reply'[c] = NoTask /\ outcome'[c] # "response"
         /\ result[c].kind \in {"badCrc", "otherUnit", "timeout", "protocolError"} =>
              outcome'[c] \in {"timeout", "protocolError"}
         /\ result[c].kind = "connError" => outcome'[c] = "connError"
<1>1. result[c].kind \in ExchangeKinds
  BY DEF ExchangeResume, TaskInv, Exchanging
<1>2. PICK o : /\ Exit(c, o)
               /\ result[c].kind = "ok" => o = "response"
               /\ result[c].kind \in {"badCrc", "otherUnit"} => o = "protocolError"
               /\ result[c].kind \notin {"ok", "badCrc", "otherUnit"} => o = result[c].kind
  BY DEF ExchangeResume
<1>3. outcome'[c] = o
  BY <1>2 DEF Exit, TypeOK
<1> QED BY <1>1, <1>2, <1>3 DEF ExchangeKinds, ExchangeResume, TypeOK

\* The call whose exchange has ended returns: what is left of it on the bus is
\* accounted for.
LEMMA BusExchangeResume ==
  ASSUME TypeOK, TaskInv, UseInv, BusInv, [Next]_vars, NEW c \in Calls, ExchangeResume(c)
  PROVE  BusInv'
<1>1. /\ pc[c] = "exchanging" /\ job[c] = "ended" /\ pc'[c] = "done" /\ outcome[c] = "none"
      /\ result[c].kind \in ExchangeKinds
      /\ UNCHANGED <<job, result, ports, uses, owed, rx>>
      /\ \A r \in Calls : r # c => pc'[r] = pc[r] /\ outcome'[r] = outcome[r] /\ reply'[r] = reply[r]
  BY DEF ExchangeResume, Exit, TypeOK, threadVars, busVars, TaskInv, Exchanging
<1>2. WireOnce' /\ \A r \in Calls : OnWire(r)' <=> OnWire(r)
  BY <1>1 DEF BusInv, WireOnce, OnWire
<1>3. \A r \in Calls : r # c => CallInv(r)'
  BY <1>1, <1>2, CallKept DEF BusInv
<1>4. CallInv(c) /\ NoTask \notin Calls
  BY TaskAssumption DEF BusInv
<1>5. Loss(c) => Loss(c)'
  BY OutcomeFinal DEF Loss, Unfinished
<1>6. Sent(c)' /\ Handed(c)'
  BY <1>1, <1>2, <1>4 DEF CallInv, Sent, Handed
<1>7. Leftover(c)'
  BY <1>1, <1>2, <1>4, ExchangeOutcome
     DEF CallInv, Handed, Leftover, Unfinished, ExchangeKinds
<1>8. Replied(c)'
  BY <1>1, <1>4, <1>5, ExchangeOutcome DEF CallInv, Handed, Replied
<1> QED BY <1>2, <1>3, <1>6, <1>7, <1>8 DEF BusInv, CallInv

\* The thread of an exchange ends without its frame.
LEMMA BusExchangeFails ==
  ASSUME TypeOK, TaskInv, UseInv, BusInv, [Next]_vars, NEW c \in Calls, NEW r, ExchangeEnds(c, r),
         r.kind # "ok", r.kind = "connError" => ports[uses[c]] # "open", rx' \in {rx, <<>>}
  PROVE  BusInv'
<1>1. /\ job[c] \in {"queued", "reading"} /\ job'[c] = "ended" /\ result'[c] = r
      /\ UNCHANGED <<pc, outcome, reply, ports, uses, owed>>
      /\ \A d \in Calls : d # c => job'[d] = job[d] /\ result'[d] = result[d]
  BY DEF ExchangeEnds, Ends, loopVars, TypeOK
<1>2. WireOnce' /\ \A d \in Calls : OnWire(d)' => OnWire(d)
  BY <1>1, WireShrinks DEF BusInv
<1>3. \A d \in Calls : d # c => CallInv(d)'
  BY <1>1, <1>2, CallKept DEF BusInv
<1>4. CallInv(c) /\ (Loss(c) => Loss(c)')
  BY OutcomeFinal DEF BusInv, Loss, Unfinished
<1>5. CallInv(c)'
  BY <1>1, <1>2, <1>4 DEF CallInv, Sent, Leftover, Handed, Replied, Unfinished
<1> QED BY <1>2, <1>3, <1>5 DEF BusInv

\* The thread of an exchange reads a frame: if it answers another request, some
\* other call has lost its answer.
LEMMA BusReadFrame ==
  ASSUME TypeOK, LockInv, TaskInv, OnePortInv, UseInv, BusInv, [Next]_vars, NEW c \in Calls,
         ReadFrame(c), Head(rx).kind # "unknownFc"
  PROVE  BusInv'
<1>0. PICK f \in [kind : FrameKinds, req : Calls] : f = Head(rx)
  BY QueueHead DEF ReadFrame, TypeOK
<1>1. /\ job[c] = "reading" /\ job'[c] = "ended" /\ ports[uses[c]] = "open"
      /\ result'[c].kind = f.kind /\ result'[c].req = f.req
      /\ UNCHANGED <<pc, outcome, reply, ports, uses, owed>>
      /\ \A d \in Calls : d # c => job'[d] = job[d] /\ result'[d] = result[d]
      /\ rx' = Tail(rx) /\ rx # <<>>
  <2>1. Ends(c, [NoResult EXCEPT !.kind = f.kind, !.req = f.req]) /\ rx' = Tail(rx)
    BY <1>0 DEF ReadFrame
  <2>2. result'[c] = [NoResult EXCEPT !.kind = f.kind, !.req = f.req]
    BY <2>1 DEF Ends, TypeOK
  <2>3. result'[c].kind = f.kind /\ result'[c].req = f.req
    BY <2>2 DEF NoResult
  <2> QED BY <2>1, <2>3 DEF ReadFrame, Ends, loopVars, TypeOK
<1>2. /\ Len(rx) \in Nat \ {0} /\ Len(rx') = Len(rx) - 1 /\ rx[1] = f
      /\ \A i \in 1..Len(rx') : i + 1 \in 1..Len(rx) /\ rx'[i] = rx[i + 1]
      /\ 1 \in 1..Len(rx)
  BY <1>0, <1>1, QueueHead DEF TypeOK
<1>3. WireOnce'
  <2>1. \A i \in 1..Len(rx') : rx'[i].req \notin owed
    BY <1>2 DEF BusInv, WireOnce
  <2>2. ASSUME NEW i \in 1..Len(rx'), NEW j \in 1..Len(rx'), rx'[i].req = rx'[j].req PROVE i = j
    <3>1. i + 1 = j + 1
      BY <1>2, <2>2 DEF BusInv, WireOnce
    <3> QED BY <1>2, <3>1
  <2> QED BY <1>1, <2>1, <2>2 DEF WireOnce
<1>4. \A d \in Calls : OnWire(d)' => OnWire(d)
  <2> SUFFICES ASSUME NEW d \in Calls, OnWire(d)' PROVE OnWire(d)
    OBVIOUS
  <2>1. d \in owed \/ \E i \in 1..Len(rx') : rx'[i].req = d
    BY <1>1 DEF OnWire
  <2> QED BY <1>2, <2>1 DEF OnWire
<1>5. ASSUME NEW q \in Calls, q = f.req PROVE ~OnWire(q)'
  <2>1. q \notin owed'
    BY <1>1, <1>2, <1>5 DEF BusInv, WireOnce
  <2>2. ASSUME NEW i \in 1..Len(rx'), rx'[i].req = q PROVE FALSE
    <3>1. i + 1 = 1
      BY <1>2, <1>5, <2>2 DEF BusInv, WireOnce
    <3> QED BY <1>2, <3>1
  <2> QED BY <2>1, <2>2 DEF OnWire
<1>6. \A d \in Calls : d # c => CallInv(d)'
  BY <1>1, <1>4, CallKept DEF BusInv
<1>7. CallInv(c) /\ (Loss(c) => Loss(c)')
  BY OutcomeFinal DEF BusInv, Loss, Unfinished
<1>8. ASSUME pc[c] = "exchanging", f.req # c PROVE Loss(c)
  <2>1. PICK q \in Calls : q = f.req
    OBVIOUS
  <2>2. OnWire(q) /\ CallInv(q)
    BY <1>2, <2>1 DEF OnWire, BusInv
  <2>3. uses[q] # NoPort /\ pc[q] \in {"exchanging", "done"}
    BY <2>2 DEF CallInv, Sent
  <2>4. pc[q] = "done"
    BY <1>8, <2>1, <2>3 DEF LockInv, Holding
  <2>5. uses[q] = uses[c] /\ outcome[c] = "none"
    BY <1>8, <2>3 DEF OnePortInv, TaskInv, Exchanging, Ports, NoPort
  <2>6. Unfinished(q) \/ (outcome[q] = "response" /\ reply[q] # q)
    BY <1>1, <2>2, <2>4, <2>5 DEF CallInv, Leftover
  <2>7. CASE Unfinished(q)
    BY <1>8, <2>1, <2>7 DEF Loss
  <2>8. CASE outcome[q] = "response" /\ reply[q] # q
    <3>1. Loss(q)
      BY <2>2, <2>8 DEF CallInv, Replied
    <3> QED BY <2>5, <3>1 DEF Loss, Unfinished
  <2> QED BY <2>6, <2>7, <2>8
<1>9. Sent(c)' /\ Leftover(c)' /\ Replied(c)'
  BY <1>1, <1>4, <1>7 DEF CallInv, Sent, Leftover, Replied, Unfinished
<1>10. Handed(c)'
  <2>1. f.req = c => ~OnWire(c)'
    BY <1>5
  <2>2. f.kind # "connError" /\ f.req \in Calls
    BY KindAssumption
  <2> QED BY <1>1, <1>7, <1>8, <2>1, <2>2 DEF Handed
<1> QED BY <1>3, <1>6, <1>9, <1>10 DEF BusInv, CallInv

\* A task that has just taken the lock or got its port goes no further than
\* handing its exchange to a thread.
LEMMA BusLocked ==
  ASSUME TypeOK, TaskInv, UseInv, BusInv, [Next]_vars, NEW t \in Tasks,
         pc[t] \in {"idle", "lockWait"}, Locked(t), UNCHANGED <<reply, busVars>>
  PROVE  BusInv'
<1>1. /\ \A r \in Calls : r # t =>
           /\ pc'[r] = pc[r] /\ outcome'[r] = outcome[r] /\ job'[r] = job[r] /\ uses'[r] = uses[r]
           /\ result'[r] = result[r]
      /\ t \in Calls => outcome'[t] # "response" /\ (pc'[t] = "exchanging" => job'[t] = "queued")
  BY LockedCases, TaskAssumption
     DEF Returns, Exchanges, Opens, ClosesNone, ClosesPort, Exit, Suspend, TypeOK, TaskInv, Waiting
<1> QED BY <1>1, BusKept DEF busVars

\* The same for a task whose port has just been opened.
LEMMA BusOpened ==
  ASSUME TypeOK, TaskInv, UseInv, BusInv, [Next]_vars, NEW t \in Users, OpenResume(t)
  PROVE  BusInv'
<1>1. \/ Returns(t) \/ Exchanges(t, result[t].port)
      \/ Exit(t, "connError") /\ UNCHANGED <<job, uses>>
  BY ProceedCases DEF OpenResume, TaskInv, Opening
<1>2. /\ \A r \in Calls : r # t =>
           /\ pc'[r] = pc[r] /\ outcome'[r] = outcome[r] /\ job'[r] = job[r] /\ uses'[r] = uses[r]
           /\ result'[r] = result[r]
      /\ t \in Calls => outcome'[t] # "response" /\ (pc'[t] = "exchanging" => job'[t] = "queued")
  BY <1>1, TaskAssumption
     DEF OpenResume, Returns, Exchanges, Exit, Suspend, TypeOK, TaskInv, Opening
<1> QED BY <1>2, BusKept DEF OpenResume, busVars

\* Every step leaves the requests and frames on the bus accounted for.
LEMMA BusInvStep ==
  TypeOK /\ LockInv /\ TaskInv /\ OnePortInv /\ UseInv /\ BusInv /\ [Next]_vars => BusInv'
<1> SUFFICES ASSUME TypeOK, LockInv, TaskInv, OnePortInv, UseInv, BusInv, [Next]_vars PROVE BusInv'
  OBVIOUS
<1> USE TaskAssumption
<1>1. CASE \E t \in Tasks : Reject(t)
  BY <1>1, BusKept DEF Reject, threadVars, busVars, TypeOK
<1>2. CASE \E t \in Tasks : Enter(t)
  <2>1. PICK t \in Tasks : Enter(t)
    BY <1>2
  <2>2. CASE LockFree
    BY <2>1, <2>2, BusLocked DEF Enter
  <2>3. CASE ~LockFree
    BY <2>1, <2>3, BusKept DEF Enter, TypeOK, busVars
  <2> QED BY <2>2, <2>3
<1>3. CASE \E t \in Tasks : Acquire(t)
  BY <1>3, BusLocked DEF Acquire
<1>4. CASE \E t \in Users : OpenResume(t)
  BY <1>4, BusOpened
<1>5. CASE \E c \in Calls : ExchangeResume(c)
  BY <1>5, BusExchangeResume
<1>6. CASE \E t \in Users : CallerCancel(t)
  <2>1. PICK t \in Users : CallerCancel(t)
    BY <1>6
  <2>2. /\ UNCHANGED <<reply, result, ports, uses, owed, rx>>
        /\ pc'[t] = "done" /\ outcome'[t] = "cancelled" /\ outcome[t] = "none"
        /\ \A u \in Tasks : u # t => pc'[u] = pc[u] /\ outcome'[u] = outcome[u]
        /\ \A u \in Users : u # t => job'[u] = job[u]
        /\ job'[t] \in {job[t], "ended"}
    BY <2>1 DEF CallerCancel, TypeOK, busVars, TaskInv, Waiting, Opening, Exchanging
  <2>3. WireOnce' /\ \A r \in Calls : OnWire(r)' <=> OnWire(r)
    BY <2>2 DEF BusInv, WireOnce, OnWire
  <2>4. \A r \in Calls : r # t => CallInv(r)'
    BY <2>2, <2>3, CallKept DEF BusInv
  <2>5. t \in Calls => CallInv(t)'
    <3>1. Loss(t) => Loss(t)'
      BY OutcomeFinal DEF Loss, Unfinished
    <3> QED BY <2>2, <2>3, <3>1 DEF BusInv, CallInv, Sent, Leftover, Handed, Replied, Unfinished
  <2> QED BY <2>3, <2>4, <2>5 DEF BusInv
<1>7. CASE \E t \in Users, p \in Ports : OpenRun(t, p)
  <2>1. PICK t \in Users, p \in Ports : OpenRun(t, p)
    BY <1>7
  <2>2. pc[t] # "exchanging"
    BY <2>1 DEF OpenRun, TaskInv, Exchanging
  <2> QED BY <2>1, <2>2, BusKept DEF OpenRun, Ends, loopVars, TypeOK
<1>8. CASE \E t \in Users : OpenFail(t)
  <2>1. PICK t \in Users : OpenFail(t)
    BY <1>8
  <2>2. pc[t] # "exchanging"
    BY <2>1 DEF OpenFail, TaskInv, Exchanging
  <2> QED BY <2>1, <2>2, BusKept DEF OpenFail, Ends, loopVars, busVars, TypeOK
<1>9. CASE \E c \in Calls : Transmit(c)
  <2>1. PICK c \in Calls : Transmit(c)
    BY <1>9
  <2>2. /\ UNCHANGED <<pc, outcome, reply, result, ports, uses>>
        /\ job[c] = "queued" /\ job'[c] = "reading" /\ rx' = <<>> /\ owed' = owed \cup {c}
        /\ \A d \in Calls : d # c => job'[d] = job[d]
    BY <2>1 DEF Transmit, loopVars, TypeOK
  <2>3. Len(rx') = 0 /\ 1..Len(rx') = {}
    BY <2>2
  <2>4. WireOnce' /\ \A d \in Calls : d # c => (OnWire(d)' => OnWire(d))
    BY <2>2, <2>3 DEF WireOnce, OnWire
  <2>5. \A d \in Calls : d # c => CallInv(d)'
    BY <2>2, <2>4, CallKept DEF BusInv
  <2>6. /\ uses[c] # NoPort /\ pc[c] \in {"exchanging", "done"}
        /\ pc[c] = "done" => outcome[c] = "cancelled"
    BY <2>2 DEF TaskInv, Waiting, Opening, Closing, TypeOK, Ports, NoPort
  <2>7. CallInv(c)'
    <3>1. Loss(c) => Loss(c)'
      BY OutcomeFinal DEF Loss, Unfinished
    <3> QED BY <2>2, <2>6, <3>1 DEF BusInv, CallInv, Sent, Leftover, Handed, Replied, Unfinished
  <2> QED BY <2>4, <2>5, <2>7 DEF BusInv
<1>10. CASE \E c \in Calls : ReadFrame(c)
  <2>1. PICK c \in Calls : ReadFrame(c)
    BY <1>10
  <2>2. CASE Head(rx).kind = "unknownFc"
    <3>1. ExchangeEnds(c, ErrorResult("protocolError")) /\ rx' = rx
      BY <2>1, <2>2, ExchangeEndsCases DEF ReadFrame
    <3> QED BY <3>1, BusExchangeFails DEF ErrorResult, NoResult
  <2>3. CASE Head(rx).kind # "unknownFc"
    BY <2>1, <2>3, BusReadFrame
  <2> QED BY <2>2, <2>3
<1>11. CASE \E c \in Calls : WriteTimeout(c) \/ ReadTimeout(c)
  <2>1. PICK c \in Calls : WriteTimeout(c) \/ ReadTimeout(c)
    BY <1>11
  <2>2. ExchangeEnds(c, ErrorResult("timeout")) /\ rx' \in {rx, <<>>}
    BY <2>1, ExchangeEndsCases DEF WriteTimeout, ReadTimeout, busVars
  <2> QED BY <2>2, BusExchangeFails DEF ErrorResult, NoResult
<1>12. CASE \E c \in Calls : IoError(c)
  <2>1. PICK c \in Calls : IoError(c)
    BY <1>12
  <2>2. ExchangeEnds(c, ErrorResult("connError")) /\ rx' = rx /\ ports[uses[c]] # "open"
    BY <2>1, ExchangeEndsCases DEF IoError, busVars
  <2> QED BY <2>2, BusExchangeFails DEF ErrorResult, NoResult
<1>13. CASE \E a \in Closers : ClosePort(a)
  BY <1>13, BusKept DEF ClosePort, Exit, busVars, TypeOK
<1>14. CASE Answer
  <2>1. PICK r \in owed, f \in FrameKinds : /\ owed' = owed \ {r}
                                            /\ rx' = Append(rx, [kind |-> f, req |-> r])
    BY <1>14 DEF Answer
  <2>2. /\ Len(rx) \in Nat /\ Len(rx') = Len(rx) + 1 /\ rx'[Len(rx')].req = r
        /\ \A i \in 1..Len(rx) : rx'[i] = rx[i] /\ rx[i].req # r
        /\ r \in Calls
    BY <2>1 DEF TypeOK, BusInv, WireOnce
  <2>3. WireOnce'
    BY <2>1, <2>2 DEF BusInv, WireOnce
  <2>4. \A d \in Calls : OnWire(d)' => OnWire(d)
    BY <2>1, <2>2 DEF OnWire
  <2>5. \A d \in Calls : CallInv(d)'
    BY <1>14, <2>4, CallKept DEF BusInv, Answer, loopVars, threadVars
  <2> QED BY <2>3, <2>5 DEF BusInv
<1>15. CASE (\E p \in Ports : Unplug(p)) \/ Tick \/ UNCHANGED vars
  BY <1>15, BusKept DEF Unplug, Tick, vars, loopVars, threadVars, busVars
<1> QED BY <1>1, <1>2, <1>3, <1>4, <1>5, <1>6, <1>7, <1>8, <1>9, <1>10, <1>11, <1>12, <1>13, <1>14, <1>15
        DEF Next, TaskStep, UserStep, CallStep, Terminated

-----------------------------------------------------------------------------
(* The inter-frame gap *)

\* A call whose exchange the step does not touch, or ends without its answer.
LEMMA GapKept ==
  ASSUME NEW r \in Calls, GapCall(r), OnWire(r)' => OnWire(r), OwnFrame(r)' => OwnFrame(r),
         r \in busy' => r \in busy,
         r \in busy' /\ ~stampRecent' => ~stampRecent,
         r \in busy \/ OwnFrame(r) => uses'[r] = uses[r] /\ job'[r] \in {job[r], "ended"}
  PROVE  GapCall(r)'
BY DEF GapCall

\* Tasks that enter the lock or get their port have not been on the bus.
LEMMA GapTask ==
  ASSUME TypeOK, TaskInv, GapInv, NEW t \in Tasks, TaskStep(t) \/ (t \in Users /\ OpenResume(t))
  PROVE  GapInv'
<1>1. owed' = owed /\ rx' = rx /\ busy' = busy /\ stampRecent' = stampRecent /\ result' = result
  BY LockedCases DEF TaskStep, Reject, Enter, Acquire, OpenResume, threadVars, busVars
<1>2. \A r \in Calls : (OnWire(r)' <=> OnWire(r)) /\ (OwnFrame(r)' <=> OwnFrame(r))
  BY <1>1 DEF OnWire, OwnFrame
<1>3. ASSUME NEW r \in Calls, r # t PROVE uses'[r] = uses[r] /\ job'[r] = job[r]
  <2>1. CASE Locked(t)
    BY <1>3, <2>1, LockedCases DEF Returns, Exchanges, Opens, ClosesNone, ClosesPort, TypeOK
  <2>2. CASE TaskStep(t) /\ ~Locked(t)
    BY <2>2 DEF TaskStep, Reject, Enter, Acquire, threadVars
  <2>3. CASE t \in Users /\ OpenResume(t)
    <3>1. Returns(t) \/ Exchanges(t, result[t].port) \/ UNCHANGED <<job, uses>>
      BY <2>3, ProceedCases DEF OpenResume, TaskInv, Opening
    <3> QED BY <1>3, <3>1 DEF Returns, Exchanges, TypeOK
  <2> QED BY <2>1, <2>2, <2>3
<1>4. ASSUME NEW r \in Calls, r = t, TaskStep(t) \/ OpenResume(t)
      PROVE  r \notin busy /\ ~OwnFrame(r)
  <2>1. uses[r] = NoPort /\ (job[r] = "none" \/ result[r].kind \in {"port", "connError"})
    BY <1>4 DEF TaskStep, Reject, Enter, Acquire, OpenResume, TaskInv, Waiting, Opening
  <2> QED BY <2>1 DEF GapInv, GapCall, OwnFrame
<1> QED BY <1>1, <1>2, <1>3, <1>4, GapKept DEF GapInv

\* A thread reads a complete frame.  If it is its own call's, it was the last
\* trace of that call, and the stamp is set.
LEMMA GapReadFrame ==
  ASSUME TypeOK, BusInv, GapInv, NEW c \in Calls, ReadFrame(c), Head(rx).kind # "unknownFc"
  PROVE  GapInv'
<1>1. /\ job[c] = "reading" /\ rx' = Tail(rx) /\ owed' = owed /\ busy' = busy /\ stampRecent' = TRUE
      /\ uses' = uses /\ job' = [job EXCEPT ![c] = "ended"]
      /\ result' = [result EXCEPT ![c] = [NoResult EXCEPT !.kind = Head(rx).kind, !.req = Head(rx).req]]
  BY DEF ReadFrame, Ends
<1>2. /\ rx # <<>> /\ Len(rx) \in Nat /\ Len(rx) > 0 /\ Head(rx) = rx[1]
      /\ Len(rx') = Len(rx) - 1 /\ \A i \in 1..Len(rx') : rx'[i] = rx[i + 1]
  BY <1>1 DEF TypeOK, ReadFrame
<1>3. \A r \in Calls : OnWire(r)' => OnWire(r) /\ r # Head(rx).req
  BY <1>1, <1>2 DEF OnWire, BusInv, WireOnce
<1>4. ASSUME NEW r \in Calls, r # c PROVE GapCall(r)'
  BY <1>1, <1>3, <1>4, GapKept DEF OwnFrame, GapInv, TypeOK
<1>5. GapCall(c)'
  <2>1. result'[c].req = Head(rx).req /\ job'[c] = "ended"
    BY <1>1 DEF TypeOK, NoResult
  <2> QED BY <1>1, <1>3, <2>1 DEF GapInv, GapCall, OwnFrame
<1> QED BY <1>4, <1>5 DEF GapInv

\* A thread ends without a frame: it opened a port, or it failed.
LEMMA GapEnds ==
  ASSUME TypeOK, BusInv, GapInv, NEW t \in Users, NEW r, Ends(t, r), r.kind \notin {"ok", "badCrc", "otherUnit"},
         owed' = owed, rx' \in {rx, <<>>}, uses' = uses, busy' = busy, stampRecent' = stampRecent
  PROVE  GapInv'
<1>1. \A c \in Calls : OnWire(c)' => OnWire(c)
  BY WireShrinks DEF BusInv
<1>2. \A c \in Calls : (OwnFrame(c)' => OwnFrame(c)) /\ job'[c] \in {job[c], "ended"}
  BY DEF Ends, OwnFrame, TypeOK
<1> QED BY <1>1, <1>2, GapKept DEF GapInv

\* Every step keeps what is known of answers that were read.
LEMMA GapInvStep ==
  TypeOK /\ TaskInv /\ BusInv /\ GapInv /\ [Next]_vars => GapInv'
<1> SUFFICES ASSUME TypeOK, TaskInv, BusInv, GapInv, [Next]_vars PROVE GapInv'
  OBVIOUS
<1>1. CASE (\E t \in Tasks : TaskStep(t)) \/ (\E t \in Users : OpenResume(t))
  BY <1>1, GapTask
<1>2. CASE \E t \in Users : CallerCancel(t)
  <2>1. PICK t \in Users : CallerCancel(t)
    BY <1>2
  <2>2. /\ UNCHANGED <<uses, result, owed, rx, busy, stampRecent>>
        /\ \A r \in Calls : job'[r] \in {job[r], "ended"}
    BY <2>1 DEF CallerCancel, busVars, TypeOK
  <2>3. \A r \in Calls : (OnWire(r)' <=> OnWire(r)) /\ (OwnFrame(r)' <=> OwnFrame(r))
    BY <2>2 DEF OnWire, OwnFrame
  <2> QED BY <2>2, <2>3, GapKept DEF GapInv
<1>3. CASE \E t \in Users : OpenFail(t) \/ \E p \in Ports : OpenRun(t, p)
  <2>1. PICK t \in Users : OpenFail(t) \/ \E p \in Ports : OpenRun(t, p)
    BY <1>3
  <2>2. PICK r : /\ Ends(t, r) /\ r.kind \in {"port", "connError"}
                 /\ owed' = owed /\ rx' \in {rx, <<>>} /\ UNCHANGED <<uses, busy, stampRecent>>
    BY <2>1 DEF OpenFail, OpenRun, busVars, ErrorResult, NoResult
  <2> QED BY <2>2, GapEnds
<1>4. CASE \E c \in Calls : WriteTimeout(c) \/ ReadTimeout(c) \/ IoError(c)
                          \/ (ReadFrame(c) /\ Head(rx).kind = "unknownFc")
  <2>1. PICK c \in Calls : WriteTimeout(c) \/ ReadTimeout(c) \/ IoError(c)
                          \/ (ReadFrame(c) /\ Head(rx).kind = "unknownFc")
    BY <1>4
  <2>2. PICK r : /\ Ends(c, r) /\ r.kind \in {"timeout", "connError", "protocolError"}
                 /\ owed' = owed /\ rx' \in {rx, <<>>} /\ UNCHANGED <<uses, busy, stampRecent>>
    BY <2>1 DEF WriteTimeout, ReadTimeout, IoError, ReadFrame, busVars, ErrorResult, NoResult
  <2> QED BY <2>2, GapEnds
<1>5. CASE \E c \in Calls : ReadFrame(c) /\ Head(rx).kind # "unknownFc"
  BY <1>5, GapReadFrame
<1>6. CASE \E c \in Calls : Transmit(c)
  <2>1. PICK c \in Calls : Transmit(c)
    BY <1>6
  <2>2. /\ job[c] = "queued" /\ job' = [job EXCEPT ![c] = "reading"] /\ rx' = <<>>
        /\ owed' = owed \cup {c} /\ busy' = busy \cup {c} /\ UNCHANGED <<result, uses, stampRecent>>
    BY <2>1 DEF Transmit
  <2>3. \A r \in Calls : OwnFrame(r)' <=> OwnFrame(r)
    BY <2>2 DEF OwnFrame
  <2>4. ASSUME NEW r \in Calls, r # c PROVE GapCall(r)'
    <3>1. Len(rx') = 0 /\ 1..Len(rx') = {}
      BY <2>2
    <3>2. OnWire(r)' => OnWire(r)
      BY <2>2, <2>4, <3>1 DEF OnWire
    <3> QED BY <2>2, <2>3, <2>4, <3>2, GapKept DEF GapInv, TypeOK
  <2>5. GapCall(c)'
    <3>1. uses[c] # NoPort /\ ~OwnFrame(c)
      BY <2>2 DEF TaskInv, GapInv, GapCall, Ports, NoPort
    <3> QED BY <2>2, <2>3, <3>1 DEF GapCall, TypeOK
  <2> QED BY <2>4, <2>5 DEF GapInv
<1>7. CASE Answer
  <2>1. PICK r \in owed, f \in FrameKinds : /\ owed' = owed \ {r}
                                            /\ rx' = Append(rx, [kind |-> f, req |-> r])
                                            /\ busy' = busy \cup {r}
    BY <1>7 DEF Answer
  <2>2. r \in Calls /\ OnWire(r) /\ Sent(r) /\ ~OwnFrame(r)
    BY DEF TypeOK, OnWire, BusInv, CallInv, GapInv, GapCall
  <2>3. UNCHANGED <<job, result, uses, stampRecent>>
    BY <1>7 DEF Answer, threadVars
  <2>4. \A d \in Calls : (OnWire(d)' => OnWire(d)) /\ (OwnFrame(d)' <=> OwnFrame(d))
    <3>1. /\ Len(rx) \in Nat /\ Len(rx') = Len(rx) + 1 /\ rx'[Len(rx')].req = r
          /\ \A i \in 1..Len(rx) : rx'[i] = rx[i]
      BY <2>1, <2>2 DEF TypeOK
    <3> QED BY <2>1, <2>2, <2>3, <3>1 DEF OnWire, OwnFrame
  <2>5. ASSUME NEW d \in Calls, d # r PROVE GapCall(d)'
    BY <2>1, <2>3, <2>4, <2>5, GapKept DEF GapInv
  <2>6. GapCall(r)'
    BY <2>1, <2>2, <2>3, <2>4 DEF GapCall, Sent
  <2> QED BY <2>5, <2>6 DEF GapInv
<1>8. CASE Tick
  <2>1. UNCHANGED <<job, result, uses, owed, rx>> /\ busy' = {}
    BY <1>8 DEF Tick, threadVars
  <2> QED BY <2>1 DEF GapInv, GapCall, OwnFrame, OnWire
<1>9. CASE \/ (\E c \in Calls : ExchangeResume(c)) \/ (\E a \in Closers : ClosePort(a))
          \/ (\E p \in Ports : Unplug(p)) \/ UNCHANGED vars
  <2>1. UNCHANGED <<job, result, uses, owed, rx, busy, stampRecent>>
    BY <1>9 DEF ExchangeResume, ClosePort, Unplug, vars, threadVars, busVars
  <2>2. \A r \in Calls : (OnWire(r)' <=> OnWire(r)) /\ (OwnFrame(r)' <=> OwnFrame(r))
    BY <2>1 DEF OnWire, OwnFrame
  <2> QED BY <2>1, <2>2, GapKept DEF GapInv
<1>10. ASSUME NEW c \in Calls, CallStep(c) PROVE GapInv'
  BY <1>4, <1>5, <1>6, <1>9, <1>10 DEF CallStep
<1>11. ASSUME NEW t \in Users, UserStep(t) PROVE GapInv'
  BY <1>1, <1>2, <1>3, <1>11 DEF UserStep
<1> QED BY <1>1, <1>7, <1>8, <1>9, <1>10, <1>11 DEF Next, Terminated

-----------------------------------------------------------------------------
(* The theorems *)

\* A new transport satisfies the invariant.
LEMMA InitInv == Init => IInv
<1> SUFFICES ASSUME Init PROVE IInv
  OBVIOUS
<1>1. rx \in Seq([kind : FrameKinds, req : Calls]) /\ 1..Len(rx) = {}
  BY DEF Init
<1>2. TypeOK
  BY <1>1, ResultTypes DEF Init, TypeOK
<1>3. LockInv /\ TaskInv
  BY DEF Init, LockInv, TaskInv, Waiting, Holding, NoResult
<1>4. PortInv /\ OnePortInv /\ UseInv
  BY TaskAssumption DEF Init, PortInv, PortUsed, OwnerInv, DropInv, Dropped, OnePortInv, UseInv, NoResult
<1>5. BusInv /\ GapInv
  BY <1>1, TaskAssumption DEF Init, BusInv, WireOnce, CallInv, Sent, Leftover, Handed, Replied, OnWire, GapInv, GapCall,
         OwnFrame, NoResult
<1> QED BY <1>2, <1>3, <1>4, <1>5 DEF IInv

\* Every step preserves it.
LEMMA Inductive == IInv /\ [Next]_vars => IInv'
BY TypeOKStep, TaskInvStep, PortInvStep, UseInvStep, BusInvStep, GapInvStep DEF IInv

\* So it holds throughout every behaviour of SerialTransport.
THEOREM Invariance == Spec => []IInv
BY InitInv, Inductive, PTL DEF Spec

\* The attributes, tasks, threads, ports and frames always have their types.
THEOREM TypeCorrect == Spec => []TypeOK
<1>1. IInv => TypeOK
  BY DEF IInv
<1> QED BY <1>1, Invariance, PTL

\* Unless the user cancels a call, the lock keeps two exchanges from
\* overlapping on the bus: a thread that still reads has a task that still
\* holds the lock.
THEOREM NoOverlap == Spec => []OverlapOnlyAfterCancel
<1>1. IInv => OverlapOnlyAfterCancel
  <2> SUFFICES ASSUME IInv, NEW c \in Calls, NEW d \in Calls, OnBus(c), OnBus(d), c # d
               PROVE  outcome[c] = "cancelled" \/ outcome[d] = "cancelled"
    BY DEF OverlapOnlyAfterCancel
  <2>1. \A r \in {c, d} : pc[r] = "exchanging" \/ outcome[r] = "cancelled"
    BY TaskAssumption DEF IInv, OnBus, TaskInv, Waiting, Opening, Closing, TypeOK
  <2> QED BY <2>1 DEF IInv, LockInv, Holding
<1> QED BY <1>1, Invariance, PTL

\* close() leaves no port open but one whose opening was cancelled: it is the
\* last to hold a port, and nobody opens one after it.
THEOREM PortsClosed == Spec => []NoPortLeftOpen
<1>1. IInv => NoPortLeftOpen
  <2> SUFFICES ASSUME IInv, \E a \in Closers : pc[a] = "done"
               PROVE  /\ serial = NoPort
                      /\ \A p \in Ports : ports[p] = "open" =>
                           \E t \in Users : outcome[t] = "cancelled" /\ result[t].port = p
    BY DEF NoPortLeftOpen
  <2>1. /\ serial = NoPort /\ \A t \in Tasks : pc[t] # "opening"
        /\ \A b \in Closers : pc[b] # "closing"
    BY DEF IInv, PortInv, DropInv, Dropped
  <2>2. ASSUME NEW p \in Ports, ports[p] = "open"
        PROVE  \E t \in Users : outcome[t] = "cancelled" /\ result[t].port = p
    BY <2>1, <2>2 DEF IInv, PortInv, OwnerInv, Owned, Waits, Ports, NoPort
  <2> QED BY <2>1, <2>2
<1> QED BY <1>1, Invariance, PTL

\* A call gets another call's response only if some call ended without its own:
\* reset_input_buffer before each transmission sees to it that every frame in
\* the buffer answers the exchange in progress or one that was given up.
THEOREM NoStaleResponse == Spec => []StaleOnlyAfterLoss
<1>1. IInv => StaleOnlyAfterLoss
  BY DEF IInv, BusInv, CallInv, Replied, Loss, StaleOnlyAfterLoss
<1> QED BY <1>1, Invariance, PTL

\* A call whose complete answer was read is never the one whose traffic is less
\* than a gap ago when a request is sent: reading it has set the stamp, and the
\* sender waits for the stamp to age.
THEOREM GapWaited == Spec => GapSkippedOnlyAfterFailure
<1>1. IInv /\ [Next]_vars =>
        [\A c \in Calls : job[c] = "queued" /\ job'[c] = "reading" =>
           \A r \in busy : ~OwnFrame(r) /\ (pc[r] = "done" \/ outcome[c] = "cancelled")]_vars
  <2> SUFFICES ASSUME IInv, [Next]_vars, NEW c \in Calls, job[c] = "queued", job'[c] = "reading",
                      NEW r \in busy
               PROVE  ~OwnFrame(r) /\ (pc[r] = "done" \/ outcome[c] = "cancelled")
    OBVIOUS
  <2>1. ~stampRecent
    <3>1. CASE \E d \in Calls : Transmit(d)
      BY <3>1 DEF Transmit
    <3>2. CASE \E t \in Tasks : Reject(t) \/ (Enter(t) /\ ~Locked(t))
      BY <3>2 DEF Reject, Enter, threadVars
    <3>3. CASE \E t \in Tasks : Locked(t)
      BY <3>3, LockedCases DEF IInv, Returns, Exchanges, Opens, ClosesNone, ClosesPort, TypeOK
    <3>4. CASE \E t \in Users : OpenResume(t)
      <4>1. PICK t \in Users : OpenResume(t)
        BY <3>4
      <4>2. Returns(t) \/ Exchanges(t, result[t].port) \/ UNCHANGED job
        BY <4>1, ProceedCases DEF OpenResume, IInv, TaskInv, Opening
      <4> QED BY <4>2 DEF IInv, Returns, Exchanges, TypeOK
    <3>5. CASE \E t \in Users : CallerCancel(t) \/ OpenFail(t) \/ \E p \in Ports : OpenRun(t, p)
      <4>1. PICK t \in Users : job' \in {job, [job EXCEPT ![t] = "ended"]}
        BY <3>5 DEF CallerCancel, OpenFail, OpenRun, Ends
      <4> QED BY <4>1 DEF IInv, TypeOK
    <3>6. CASE \E d \in Calls : ExchangeResume(d) \/ WriteTimeout(d) \/ ReadFrame(d) \/ ReadTimeout(d) \/ IoError(d)
      BY <3>6 DEF ExchangeResume, WriteTimeout, ReadFrame, ReadTimeout, IoError, Ends, threadVars, IInv, TypeOK
    <3> QED BY <3>1, <3>2, <3>3, <3>4, <3>5, <3>6
            DEF Next, TaskStep, UserStep, CallStep, Acquire, ClosePort, Unplug, Answer, Tick, Terminated,
                vars, threadVars
  <2>2. r \in Calls /\ uses[r] # NoPort /\ job[r] # "queued" /\ ~OwnFrame(r)
    BY <2>1 DEF IInv, GapInv, GapCall, TypeOK
  <2>3. pc[c] = "exchanging" \/ outcome[c] = "cancelled"
    BY TaskAssumption DEF IInv, TaskInv, Waiting, Opening, Closing, TypeOK
  <2>4. pc[r] = "exchanging" \/ pc[r] = "done"
    BY <2>2, TaskAssumption DEF IInv, TaskInv, Waiting, Opening, Closing, TypeOK
  <2>5. pc[c] = "exchanging" /\ pc[r] = "exchanging" => r = c
    BY <2>2 DEF IInv, LockInv, Holding
  <2> QED BY <2>2, <2>3, <2>4, <2>5
<1> QED BY <1>1, Invariance, PTL DEF Spec, GapSkippedOnlyAfterFailure

\* Once the adapter is lost or close() has dropped the port, that is for good.
LEMMA LostForGood ==
  ASSUME IInv, PortLost \/ Dropped, [Next]_vars
  PROVE  (PortLost \/ Dropped)'
<1> USE TaskAssumption DEF IInv
<1>1. CASE Dropped
  <2>1. PICK a \in Closers : pc[a] \in {"closing", "done"}
    BY <1>1 DEF Dropped
  <2>2. pc'[a] \in {"closing", "done"}
    <3>1. \A t \in Tasks : Locked(t) /\ t # a => pc'[a] = pc[a]
      BY LockedCases DEF Returns, Exchanges, Opens, ClosesNone, ClosesPort, Exit, Suspend, TypeOK
    <3>2. CASE \E t \in Tasks : TaskStep(t)
      BY <2>1, <3>1, <3>2 DEF TaskStep, Reject, Enter, Acquire, TypeOK
    <3>3. CASE \E t \in Users : UserStep(t)
      <4>1. PICK t \in Users : UserStep(t)
        BY <3>3
      <4>2. CASE OpenResume(t)
        BY <2>1, <4>2, ProceedCases
           DEF OpenResume, TaskInv, Opening, Returns, Exchanges, Exit, Suspend, TypeOK
      <4> QED BY <2>1, <4>1, <4>2 DEF UserStep, CallerCancel, OpenFail, OpenRun, loopVars, TypeOK
    <3>4. CASE \E c \in Calls : CallStep(c)
      BY <2>1, <3>4 DEF CallStep, ExchangeResume, Exit, Transmit, WriteTimeout, ReadFrame, ReadTimeout,
                        IoError, loopVars, TypeOK
    <3> QED BY <2>1, <3>2, <3>3, <3>4 DEF Next, ClosePort, Exit, Unplug, Answer, Tick, Terminated, vars,
                                          loopVars, TypeOK
  <2> QED BY <2>2 DEF Dropped
<1>2. CASE PortLost
  <2>1. serial \in Ports /\ ports[serial] = "dead" /\ ~Dropped
    BY <1>2 DEF PortLost, PortInv, DropInv, TypeOK
  <2>2. CASE \E t \in Tasks : Locked(t) /\ UNCHANGED ports
    <3>1. PICK t \in Tasks : Locked(t) /\ UNCHANGED ports
      BY <2>2
    <3>2. CASE serial' = serial
      BY <2>1, <3>1, <3>2 DEF PortLost, Ports, NoPort
    <3>3. CASE ClosesPort(t)
      BY <3>3 DEF ClosesPort, Suspend, Dropped, TypeOK
    <3> QED BY <3>1, <3>2, <3>3, LockedCases DEF Opens, ClosesNone
  <2>3. CASE serial' = serial /\ UNCHANGED ports
    BY <2>1, <2>3 DEF PortLost, Ports, NoPort
  <2>4. CASE \E t \in Users : OpenResume(t)
    BY <2>1, <2>4 DEF OpenResume, TaskInv, Opening, Ports, NoPort
  <2>5. CASE \E t \in Users, p \in Ports : OpenRun(t, p)
    BY <2>1, <2>5 DEF OpenRun, PortLost, loopVars, TypeOK, Ports, NoPort
  <2>6. CASE \E p \in Ports : Unplug(p)
    BY <2>1, <2>6 DEF Unplug, PortLost, loopVars, TypeOK, Ports, NoPort
  <2>7. CASE \E a \in Closers : ClosePort(a)
    BY <2>1, <2>7 DEF ClosePort, Dropped
  <2> QED BY <2>2, <2>3, <2>4, <2>5, <2>6, <2>7
          DEF Next, TaskStep, UserStep, CallStep, Reject, Enter, Acquire, CallerCancel, OpenFail,
              ExchangeResume, Transmit, WriteTimeout, ReadFrame, ReadTimeout, IoError, Answer, Tick,
              Terminated, vars, loopVars, threadVars
<1> QED BY <1>1, <1>2

\* A call without hope of a response stays without.
LEMMA NoHopeStep ==
  ASSUME NEW c \in Calls
  PROVE  IInv /\ NoHope(c) /\ [Next]_vars => NoHope(c)'
<1> SUFFICES ASSUME IInv, NoHope(c), [Next]_vars PROVE NoHope(c)'
  OBVIOUS
<1> USE TaskAssumption DEF IInv
<1>1. (PortLost \/ Dropped)'
  BY LostForGood DEF NoHope
<1>2. CASE pc'[c] = pc[c] /\ outcome'[c] = outcome[c] /\ job'[c] = job[c] /\ result'[c] = result[c]
           /\ uses'[c] = uses[c]
  <2>1. pc[c] = "exchanging" => uses[c] \in Ports /\ ports[uses[c]] \notin {"unused", "open"}
    BY DEF NoHope, TaskInv, Exchanging, UseInv, Ports, NoPort
  <2>2. pc[c] = "exchanging" => ports'[uses[c]] # "open"
    BY <2>1, PortFinal
  <2> QED BY <1>1, <1>2, <2>2 DEF NoHope
<1>3. CASE pc'[c] = "done" /\ outcome'[c] # "response"
  BY <1>1, <1>3 DEF NoHope
<1>4. CASE pc[c] \in {"idle", "lockWait"} /\ Locked(c) /\ UNCHANGED ports
  <2>1. CASE Exchanges(c, serial) /\ UNCHANGED serial
    <3>1. PortLost
      BY <2>1 DEF NoHope, Exchanges, PortInv, DropInv, Ports, NoPort
    <3>2. pc'[c] = "exchanging" /\ uses'[c] = serial /\ job'[c] = "queued" /\ outcome'[c] = outcome[c]
      BY <2>1 DEF Exchanges, Suspend, TypeOK
    <3> QED BY <1>1, <1>4, <3>1, <3>2 DEF NoHope, PortLost
  <2>2. CASE Returns(c)
    BY <1>3, <2>2 DEF Returns, Exit, TypeOK
  <2>3. ~Opens(c)
    BY DEF NoHope, Opens, PortLost, PortInv, DropInv, Dropped
  <2>4. c \notin Closers
    OBVIOUS
  <2> QED BY <1>4, <2>1, <2>2, <2>3, <2>4, LockedCases DEF ClosesNone, ClosesPort
<1>5. CASE pc'[c] = "lockWait" /\ outcome'[c] = outcome[c]
  BY <1>1, <1>5 DEF NoHope
<1>6. CASE \E t \in Tasks : TaskStep(t)
  <2>1. PICK t \in Tasks : TaskStep(t)
    BY <1>6
  <2>2. CASE t = c /\ Reject(c)
    BY <1>3, <2>2 DEF Reject, TypeOK
  <2>3. CASE t = c /\ (Enter(c) \/ Acquire(c))
    BY <1>4, <1>5, <2>3 DEF Enter, Acquire, TypeOK
  <2>4. CASE t # c
    <3>1. Locked(t) => /\ pc'[c] = pc[c] /\ outcome'[c] = outcome[c] /\ job'[c] = job[c]
                       /\ result'[c] = result[c] /\ uses'[c] = uses[c]
      BY <2>4, LockedCases DEF Returns, Exchanges, Opens, ClosesNone, ClosesPort, Exit, Suspend, TypeOK
    <3> QED BY <1>2, <2>1, <2>4, <3>1 DEF TaskStep, Reject, Enter, Acquire, threadVars, TypeOK
  <2> QED BY <2>1, <2>2, <2>3, <2>4 DEF TaskStep
<1>7. CASE \E t \in Users : UserStep(t)
  <2>1. PICK t \in Users : UserStep(t)
    BY <1>7
  <2>2. CASE OpenResume(t)
    <3>1. t # c
      BY <2>2 DEF OpenResume, NoHope
    <3>2. \/ Returns(t) \/ Exchanges(t, result[t].port)
          \/ Exit(t, "connError") /\ UNCHANGED <<job, uses>>
      BY <2>2, ProceedCases DEF OpenResume, TaskInv, Opening
    <3> QED BY <1>2, <2>2, <3>1, <3>2 DEF OpenResume, Returns, Exchanges, Exit, Suspend, TypeOK
  <2>3. CASE CallerCancel(t)
    BY <1>2, <1>3, <2>3 DEF CallerCancel, TypeOK
  <2>4. CASE OpenFail(t) \/ \E p \in Ports : OpenRun(t, p)
    <3>1. CASE t # c
      BY <1>2, <2>4, <3>1 DEF OpenFail, OpenRun, Ends, loopVars, TypeOK
    <3>2. CASE t = c
      <4>1. pc[c] # "exchanging" /\ UNCHANGED <<pc, outcome>>
        BY <2>4, <3>2 DEF OpenFail, OpenRun, loopVars, TaskInv, Exchanging
      <4> QED BY <1>1, <4>1 DEF NoHope
    <3> QED BY <3>1, <3>2
  <2> QED BY <2>1, <2>2, <2>3, <2>4 DEF UserStep
<1>8. CASE \E d \in Calls : CallStep(d)
  <2>1. PICK d \in Calls : CallStep(d)
    BY <1>8
  <2>2. CASE d # c
    BY <1>2, <2>1, <2>2 DEF CallStep, ExchangeResume, Transmit, WriteTimeout, ReadFrame, ReadTimeout,
                            IoError, Exit, Ends, loopVars, threadVars, TypeOK
  <2>3. CASE d = c /\ ExchangeResume(c)
    <3>1. pc'[c] = "done"
      BY <2>3 DEF ExchangeResume, Exit, TypeOK
    <3> QED BY <1>3, <2>3, <3>1, ExchangeOutcome DEF ExchangeResume, NoHope
  <2>4. CASE pc[c] # "exchanging" /\ UNCHANGED loopVars
    BY <1>1, <2>4 DEF NoHope, loopVars
  <2>5. CASE d = c /\ pc[c] = "exchanging" /\ ~ExchangeResume(c)
    <3>1. IoError(c)
      BY <2>1, <2>5 DEF CallStep, Transmit, WriteTimeout, ReadFrame, ReadTimeout, NoHope
    <3>2. /\ UNCHANGED <<pc, outcome, uses, ports>> /\ job'[c] = "ended"
          /\ result'[c].kind = "connError"
      BY <3>1 DEF IoError, Ends, ErrorResult, NoResult, loopVars, TypeOK
    <3> QED BY <1>1, <2>5, <3>2 DEF NoHope
  <2> QED BY <2>1, <2>2, <2>3, <2>4, <2>5
          DEF CallStep, ExchangeResume, Transmit, WriteTimeout, ReadFrame, ReadTimeout, IoError
<1>9. CASE \E a \in Closers : ClosePort(a)
  BY <1>2, <1>9 DEF ClosePort, Exit, TypeOK
<1>10. CASE (\E p \in Ports : Unplug(p)) \/ Answer \/ Tick \/ UNCHANGED vars
  BY <1>2, <1>10 DEF Unplug, Answer, Tick, vars, loopVars, threadVars
<1> QED BY <1>6, <1>7, <1>8, <1>9, <1>10 DEF Next, Terminated

\* No call that starts once the adapter behind the open port is lost ever
\* returns a response.
THEOREM LossIsFinal == Spec => NoResponseAfterPortLoss
<1> SUFFICES ASSUME NEW c \in Calls
             PROVE  Spec => [](PortLost /\ pc[c] = "idle" => [](outcome[c] # "response"))
  BY DEF NoResponseAfterPortLoss
<1>1. IInv /\ PortLost /\ pc[c] = "idle" => NoHope(c)
  BY DEF IInv, TaskInv, Waiting, NoHope
<1>2. NoHope(c) => outcome[c] # "response"
  BY DEF NoHope
<1>3. IInv /\ NoHope(c) /\ [Next]_vars => NoHope(c)'
  BY NoHopeStep
<1> QED BY <1>1, <1>2, <1>3, Invariance, PTL DEF Spec
=============================================================================
