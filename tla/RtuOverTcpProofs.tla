-------------------------- MODULE RtuOverTcpProofs --------------------------
(***************************************************************************)
(* Proofs about RtuOverTcp for every set of calls, connectors and close()  *)
(* calls, every number of connections and every kind of response frame.    *)
(***************************************************************************)
EXTENDS RtuOverTcp, TLAPS

USE DEF Users, Tasks

-----------------------------------------------------------------------------
(* The inductive invariant *)

\* A task past the lock holds it, so there is one at a time.
Holding == {"dialing", "draining", "reading", "closing"}
LockInv == \A t \in Tasks : pc[t] \in Holding => lock = t

\* What is known of a task where it is suspended: nothing was sent before the
\* dial, a request in progress was sent on the stream the transport still has,
\* and a call that tears the connection down has failed already.
ProgressInv ==
  /\ \A t \in Tasks : pc[t] \in {"idle", "lockWait", "dialing"} =>
       outcome[t] = "none" /\ via[t] = NoConn
  /\ \A t \in Tasks : pc[t] \in {"draining", "reading"} =>
       t \in Calls /\ outcome[t] = "none" /\ via[t] = stream /\ stream # NoConn
  /\ \A t \in Tasks : pc[t] \in {"dialing", "closing"} => stream = NoConn
  /\ \A t \in Tasks : pc[t] = "dialing" => t \in Users
  /\ \A c \in Calls : pc[c] = "closing" => outcome[c] \in {"timeout", "connError"}
  /\ \A c \in Calls : reply[c] # NoTask => pc[c] = "done" /\ outcome[c] = "response"

\* The connections: one that was never dialled carries nothing.
ConnInv ==
  /\ stream # NoConn => conn[stream] # "unused"
  /\ \A k \in Conns : conn[k] = "unused" => owed[k] = {} /\ inbox[k] = <<>>

\* Request r is unanswered on connection k, or its answer is not read yet.
OnWire(r, k) == r \in owed[k] \/ \E i \in 1..Len(inbox[k]) : inbox[k][i].req = r

\* Every request is on the connection it was written to, once.
WireInv ==
  /\ \A k \in Conns, r \in Calls : OnWire(r, k) => via[r] = k
  /\ \A k \in Conns : \A i \in 1..Len(inbox[k]) : inbox[k][i].req \notin owed[k]
  /\ \A k \in Conns : \A i, j \in 1..Len(inbox[k]) :
       inbox[k][i].req = inbox[k][j].req => i = j

\* A request whose call is over and that is still on the stream in use: some
\* call on that stream was abandoned.
LeftoverInv ==
  \A r \in Calls : stream # NoConn /\ pc[r] = "done" /\ OnWire(r, stream) =>
    \E a \in Calls : via[a] = stream /\ Abandoned(a)

StaleInv == /\ LockInv /\ ProgressInv /\ ConnInv /\ WireInv /\ LeftoverInv
            /\ StaleOnlyAfterAbandon

\* Behind ClosedStaysDisconnected: close() sets _closed before it takes the
\* lock, and whoever held the lock until then has finished dialling.
CloseInv ==
  /\ \A a \in Closers : pc[a] # "idle" => closed
  /\ (\E a \in Closers : pc[a] \in {"closing", "done"}) =>
       stream = NoConn /\ \A t \in Tasks : pc[t] # "dialing"

-----------------------------------------------------------------------------
(* Types *)

\* What a step of a task under the lock may leave in the attributes it writes.
lockedTypes ==
  /\ stream \in Conns \cup {NoConn} /\ lock \in Tasks \cup {NoTask}
  /\ pc \in [Tasks -> {"idle", "lockWait", "dialing", "draining", "reading",
                       "closing", "done"}]
  /\ outcome \in [Tasks -> {"none", "response", "protocolError", "timeout", "connError",
                            "cancelled", "closed", "valueError", "connected", "ended"}]
  /\ via \in [Tasks -> Conns \cup {NoConn}]
  /\ conn \in [Conns -> {"unused", "open", "eof", "closing", "lost"}]
  /\ owed \in [Conns -> SUBSET Calls]

\* _teardown_locked keeps every attribute in its type.
LEMMA TeardownTypes ==
  ASSUME TypeOK, NEW t \in Tasks, NEW o \in {"timeout", "connError", "ended"},
         Teardown(t, o), UNCHANGED owed
  PROVE  lockedTypes'
BY DEF TypeOK, lockedTypes, Teardown, Exit

\* So does a task once a connection is up.
LEMMA ProceedTypes ==
  ASSUME TypeOK, NEW t \in Users, NEW k \in Conns,
         NEW state \in [Conns -> {"unused", "open", "eof", "closing", "lost"}],
         Proceed(t, k, state)
  PROVE  lockedTypes'
<1>1. CASE t \in Connectors \cup BadUnit /\ stream' = k /\ conn' = state
             /\ UNCHANGED <<via, owed>> /\ \E o \in {"connected", "valueError"} : Exit(t, o)
  BY <1>1 DEF TypeOK, lockedTypes, Exit
<1>2. CASE Teardown(t, "connError") /\ UNCHANGED owed
  BY <1>2, TeardownTypes
<1>3. CASE /\ t \in Calls
           /\ via' = [via EXCEPT ![t] = k]
           /\ owed' = [owed EXCEPT ![k] = @ \cup {t}]
           /\ \E s \in {"draining", "reading"} : pc' = [pc EXCEPT ![t] = s]
           /\ lock' = t /\ stream' = k /\ conn' = state
           /\ UNCHANGED outcome
  BY <1>3 DEF TypeOK, lockedTypes
<1> QED BY <1>1, <1>2, <1>3 DEF Proceed

\* So does a task that has just taken the lock.
LEMMA LockedTypes ==
  ASSUME TypeOK, NEW t \in Tasks, Locked(t)
  PROVE  lockedTypes'
<1>1. CASE t \in Users /\ stream # NoConn /\ Proceed(t, stream, conn)
  BY <1>1, ProceedTypes DEF TypeOK
<1>2. CASE t \in Closers /\ Teardown(t, "ended") /\ UNCHANGED owed
  BY <1>2, TeardownTypes
<1>3. CASE t \in Users /\ stream = NoConn /\ Locked(t)
  BY <1>3, TaskAssumption DEF Locked, Exit, TypeOK, lockedTypes
<1> QED BY <1>1, <1>2, <1>3 DEF Locked

\* What is left of a stream of frames after one is read is a stream of frames.
LEMMA RemainderTypes ==
  ASSUME NEW s \in Seq(Frames), s # <<>>
  PROVE  /\ Head(s) \in Frames
         /\ Remainder(s) \in Seq(Frames)
<1>1. Head(s) \in Frames /\ Tail(s) \in Seq(Frames)
  OBVIOUS
<1>2. [Head(s) EXCEPT !.kind = "rest"] \in Frames
  BY <1>1 DEF Frames
<1> QED BY <1>1, <1>2 DEF Remainder

\* Every step keeps the types; a reading call needs a connection to read from.
LEMMA TypeOKStep == TypeOK /\ ProgressInv /\ [Next]_vars => TypeOK'
<1> SUFFICES ASSUME TypeOK, ProgressInv, [Next]_vars PROVE TypeOK'
  OBVIOUS
<1>1. CASE \E t \in Tasks : Reject(t)
  BY <1>1 DEF Reject, TypeOK, wire
<1>2. CASE \E t \in Tasks : Enter(t)
  <2>1. PICK t \in Tasks : Enter(t)
    BY <1>2
  <2>2. CASE Locked(t)
    BY <2>1, <2>2, LockedTypes DEF Enter, TypeOK, lockedTypes
  <2>3. CASE ~Locked(t)
    BY <2>1, <2>3 DEF Enter, TypeOK
  <2> QED BY <2>2, <2>3
<1>3. CASE \E t \in Tasks : Acquire(t)
  BY <1>3, LockedTypes DEF Acquire, TypeOK, lockedTypes
<1>4. CASE \E t \in Tasks : DialFail(t) \/ TeardownDone(t)
  BY <1>4 DEF DialFail, TeardownDone, Exit, TypeOK, wire
<1>5. CASE \E t \in Tasks, k \in Conns : DialOk(t, k)
  <2>1. PICK t \in Tasks, k \in Conns : DialOk(t, k)
    BY <1>5
  <2>2. [conn EXCEPT ![k] = "open"] \in [Conns -> {"unused", "open", "eof", "closing", "lost"}]
    BY DEF TypeOK
  <2>3. t \in Users
    BY <2>1, CallAssumption DEF DialOk, Proceed
  <2>4. lockedTypes'
    BY <2>1, <2>2, <2>3, ProceedTypes DEF DialOk
  <2> QED BY <2>1, <2>4 DEF DialOk, TypeOK, lockedTypes
<1>6. CASE \E c \in Calls : DrainOk(c) \/ CallerCancel(c)
  BY <1>6 DEF DrainOk, CallerCancel, TypeOK, wire
<1>7. CASE \E c \in Calls : DrainFail(c) \/ ReadFail(c) \/ ReadTimeout(c)
  <2>1. PICK c \in Calls : DrainFail(c) \/ ReadFail(c) \/ ReadTimeout(c)
    BY <1>7
  <2>2. lockedTypes'
    BY <2>1, TeardownTypes DEF DrainFail, ReadFail, ReadTimeout
  <2> QED BY <2>1, <2>2 DEF DrainFail, ReadFail, ReadTimeout, TypeOK, lockedTypes
<1>8. CASE \E c \in Calls : ReadFrame(c)
  <2>1. PICK c \in Calls : ReadFrame(c)
    BY <1>8
  <2>2. via[c] \in Conns /\ inbox[via[c]] \in Seq(Frames) /\ inbox[via[c]] # <<>>
    BY <2>1 DEF ReadFrame, TypeOK, ProgressInv
  <2>3. Head(inbox[via[c]]) \in Frames /\ Remainder(inbox[via[c]]) \in Seq(Frames)
    BY <2>2, RemainderTypes
  <2>4. inbox' \in [Conns -> Seq(Frames)] /\ reply' \in [Calls -> Calls \cup {NoTask}]
    BY <2>1, <2>2, <2>3 DEF ReadFrame, TypeOK, Frames
  <2>5. Parse(Head(inbox[via[c]])) \in {"response", "protocolError"}
    BY DEF Parse
  <2> QED BY <2>1, <2>4, <2>5 DEF ReadFrame, Exit, TypeOK
<1>9. CASE \E k \in Conns : Answer(k)
  <2>0. PICK k \in Conns : Answer(k)
    BY <1>9
  <2>1. PICK r \in owed[k], f \in FrameKinds :
          /\ owed' = [owed EXCEPT ![k] = @ \ {r}]
          /\ inbox' = [inbox EXCEPT ![k] = Append(@, [req |-> r, kind |-> f])]
          /\ UNCHANGED <<closed, stream, lock, pc, outcome, via, reply, conn>>
    BY <2>0 DEF Answer
  <2>2. [req |-> r, kind |-> f] \in Frames
    BY DEF TypeOK, Frames
  <2> QED BY <2>1, <2>2 DEF TypeOK
<1>10. CASE \E k \in Conns : PeerEof(k) \/ Reset(k) \/ CloseDone(k)
  BY <1>10 DEF PeerEof, Reset, CloseDone, ConnStep, TypeOK
<1>11. CASE UNCHANGED vars
  BY <1>11 DEF vars, wire, TypeOK
<1> QED BY <1>1, <1>2, <1>3, <1>4, <1>5, <1>6, <1>7, <1>8, <1>9, <1>10, <1>11
        DEF Next, TaskStep, CallStep, NetworkStep, Terminated

-----------------------------------------------------------------------------
(* Preservation of StaleInv *)

\* t is the only task past the lock, and nothing has been decided about it.
Alone(t) == /\ \A u \in Tasks : pc[u] \in Holding => u = t
            /\ pc[t] # "done" /\ outcome[t] = "none" /\ via[t] \in {NoConn, stream}

\* The decoder accepts the frames of kind "ok" only.
LEMMA ParseKind ==
  ASSUME NEW f
  PROVE  /\ f.kind = "ok" => Parse(f) = "response"
         /\ f.kind # "ok" => Parse(f) = "protocolError"
BY DEF Parse

\* Dropping the stream leaves nothing for a later call to pick up.
LEMMA StaleTeardown ==
  ASSUME TypeOK, StaleInv, NEW t \in Tasks, NEW o \in {"timeout", "connError", "ended"},
         t \in Calls => o # "ended", Alone(t), Teardown(t, o),
         UNCHANGED <<reply, owed, inbox>>
  PROVE  StaleInv'
<1> USE DEF StaleInv, Alone
<1>0. /\ stream' = NoConn /\ pc'[t] \in {"closing", "done"} /\ outcome'[t] = o
      /\ \A u \in Tasks : u # t => pc'[u] = pc[u] /\ outcome'[u] = outcome[u] /\ via'[u] = via[u]
      /\ via'[t] \in {via[t], stream} /\ (pc'[t] = "closing" => lock' = t)
      /\ via' \in [Tasks -> Conns \cup {NoConn}]
  BY DEF TypeOK, Teardown, Exit
<1>1. LockInv'
  BY <1>0 DEF LockInv, Holding
<1>2. ProgressInv'
  BY <1>0 DEF ProgressInv, Holding
<1>3. ConnInv'
  BY <1>0 DEF ConnInv, Teardown, TypeOK
<1>4. \A r \in Calls, k \in Conns : OnWire(r, k)' <=> OnWire(r, k)
  BY DEF OnWire
<1>5. WireInv'
  BY <1>0, <1>4 DEF WireInv, TypeOK, Conns, NoConn
<1>6. LeftoverInv'
  BY <1>0 DEF LeftoverInv
<1>7. StaleOnlyAfterAbandon'
  BY <1>0 DEF StaleOnlyAfterAbandon, ProgressInv, Abandoned
<1> QED BY <1>1, <1>2, <1>3, <1>5, <1>6, <1>7

\* With a connection up, the one in use or one just dialled.
LEMMA StaleProceed ==
  ASSUME TypeOK, StaleInv, NEW t \in Users, NEW k \in Conns, NEW state,
         \/ k = stream /\ state = conn
         \/ stream = NoConn /\ conn[k] = "unused" /\ state = [conn EXCEPT ![k] = "open"],
         pc[t] \in {"idle", "lockWait", "dialing"},
         Alone(t), Proceed(t, k, state), UNCHANGED <<reply, inbox>>
  PROVE  StaleInv'
<1> USE DEF StaleInv, Alone
<1>1. CASE Teardown(t, "connError") /\ UNCHANGED owed
  BY <1>1, StaleTeardown
<1>0. /\ via[t] = NoConn /\ NoConn \notin Conns
      /\ \A r \in Calls : stream = NoConn => ~OnWire(r, k)
      /\ t \in Calls => \A j \in Conns : ~OnWire(t, j)
  <2>1. via[t] = NoConn /\ NoConn \notin Conns
    BY DEF ProgressInv, Conns, NoConn
  <2>2. \A r \in Calls : stream = NoConn => ~OnWire(r, k)
    BY <2>1 DEF ConnInv, OnWire
  <2>3. t \in Calls => \A j \in Conns : ~OnWire(t, j)
    BY <2>1 DEF WireInv
  <2> QED BY <2>1, <2>2, <2>3
<1>2. CASE /\ stream' = k /\ conn' = state /\ UNCHANGED <<via, owed>>
           /\ \E o \in {"connected", "valueError"} : Exit(t, o)
  <2>0. /\ pc'[t] = "done" /\ outcome'[t] \in {"connected", "valueError"}
        /\ \A u \in Tasks : u # t => pc'[u] = pc[u] /\ outcome'[u] = outcome[u]
    BY <1>2 DEF Exit, TypeOK
  <2>1. LockInv'
    BY <2>0 DEF LockInv, Holding
  <2>2. ProgressInv'
    BY <1>2, <2>0 DEF ProgressInv, Holding
  <2>3. ConnInv'
    BY <1>2, <1>0 DEF ConnInv, TypeOK
  <2>4. \A r \in Calls, j \in Conns : OnWire(r, j)' <=> OnWire(r, j)
    BY <1>2 DEF OnWire
  <2>5. WireInv'
    BY <1>2, <2>4 DEF WireInv
  <2>6. LeftoverInv'
    BY <1>2, <1>0, <2>0, <2>4 DEF LeftoverInv, Abandoned
  <2>7. StaleOnlyAfterAbandon'
    BY <1>2, <2>0 DEF StaleOnlyAfterAbandon, ProgressInv, Abandoned
  <2> QED BY <2>1, <2>2, <2>3, <2>5, <2>6, <2>7
<1>3. CASE /\ t \in Calls
           /\ via' = [via EXCEPT ![t] = k]
           /\ owed' = [owed EXCEPT ![k] = @ \cup {t}]
           /\ \E s \in {"draining", "reading"} : pc' = [pc EXCEPT ![t] = s]
           /\ lock' = t /\ stream' = k /\ conn' = state
           /\ UNCHANGED outcome
  <2>0. /\ pc'[t] \in {"draining", "reading"} /\ via'[t] = k
        /\ \A u \in Tasks : u # t => pc'[u] = pc[u] /\ via'[u] = via[u]
    BY <1>3 DEF TypeOK
  <2>1. LockInv'
    BY <1>3, <2>0 DEF LockInv
  <2>2. ProgressInv'
    BY <1>3, <2>0, <1>0 DEF ProgressInv, Holding
  <2>3. ConnInv'
    BY <1>3, <1>0 DEF ConnInv, TypeOK
  <2>4. /\ \A r \in Calls, j \in Conns : r # t => (OnWire(r, j)' <=> OnWire(r, j))
        /\ \A j \in Conns : OnWire(t, j)' => j = k
    BY <1>3, <1>0 DEF OnWire, TypeOK
  <2>5. WireInv'
    <3>1. \A j \in Conns, r \in Calls : OnWire(r, j)' => via'[r] = j
      BY <2>0, <2>4 DEF WireInv
    <3>2. \A j \in Conns : \A i \in 1..Len(inbox'[j]) : inbox'[j][i].req \notin owed'[j]
      BY <1>3, <1>0 DEF WireInv, OnWire, TypeOK
    <3> QED BY <3>1, <3>2 DEF WireInv
  <2>6. LeftoverInv'
    BY <1>3, <1>0, <2>0, <2>4 DEF LeftoverInv, Abandoned
  <2>7. StaleOnlyAfterAbandon'
    BY <1>3, <2>0 DEF StaleOnlyAfterAbandon, ProgressInv, Abandoned
  <2> QED BY <2>1, <2>2, <2>3, <2>5, <2>6, <2>7
<1> QED BY <1>1, <1>2, <1>3 DEF Proceed

\* A task that takes the lock finds nobody else past it.
LEMMA StaleLocked ==
  ASSUME TypeOK, StaleInv, NEW t \in Tasks, pc[t] \in {"idle", "lockWait"},
         lock = NoTask, Locked(t), UNCHANGED <<reply, inbox>>
  PROVE  StaleInv'
<1>0. Alone(t) /\ via[t] = NoConn
  BY TaskAssumption DEF StaleInv, LockInv, ProgressInv, Alone
<1>1. CASE t \in Users /\ stream # NoConn /\ Proceed(t, stream, conn)
  BY <1>0, <1>1, StaleProceed DEF TypeOK
<1>2. CASE t \in Closers /\ Teardown(t, "ended") /\ UNCHANGED owed
  BY <1>0, <1>2, StaleTeardown, TaskAssumption
<1>3. CASE t \in Users /\ stream = NoConn /\ Locked(t)
  <2>0. /\ stream' = NoConn
        /\ \/ pc'[t] = "dialing" /\ lock' = t /\ outcome' = outcome
           \/ pc'[t] = "done" /\ outcome'[t] = "closed"
        /\ \A u \in Tasks : u # t => pc'[u] = pc[u] /\ outcome'[u] = outcome[u]
        /\ UNCHANGED <<conn, via, owed>>
    BY <1>3, TaskAssumption DEF Locked, Exit, TypeOK
  <2>1. LockInv'
    BY <1>0, <2>0 DEF LockInv, Alone, Holding
  <2>2. ProgressInv'
    BY <1>0, <1>3, <2>0 DEF StaleInv, ProgressInv
  <2>3. ConnInv' /\ WireInv' /\ LeftoverInv'
    BY <1>3, <2>0 DEF StaleInv, ConnInv, WireInv, LeftoverInv, OnWire
  <2>4. StaleOnlyAfterAbandon'
    BY <1>0, <2>0 DEF StaleInv, StaleOnlyAfterAbandon, Abandoned, Alone
  <2> QED BY <2>1, <2>2, <2>3, <2>4 DEF StaleInv
<1> QED BY <1>1, <1>2, <1>3 DEF Locked

\* What reading a frame does to the requests on the wire: none is added, and the
\* one answered by the frame disappears, unless the rest of the frame stays.
LEMMA ReadFrameWire ==
  ASSUME TypeOK, WireInv, NEW c \in Calls, ReadFrame(c), NEW k \in Conns, via[c] = k,
         NEW f, f = Head(inbox[k])
  PROVE  /\ f.req \in Calls /\ OnWire(f.req, k)
         /\ \A r \in Calls, j \in Conns : OnWire(r, j)' => OnWire(r, j)
         /\ f.kind # "unknownFc" => ~OnWire(f.req, k)'
         /\ \A j \in Conns : \A i \in 1..Len(inbox'[j]) : inbox'[j][i].req \notin owed'[j]
         /\ \A j \in Conns : \A h, i \in 1..Len(inbox'[j]) :
              inbox'[j][h].req = inbox'[j][i].req => h = i
<1> DEFINE s == inbox[k]
           rest == [f EXCEPT !.kind = "rest"]
<1>1. s \in Seq(Frames) /\ s # <<>> /\ s[1] = f /\ f \in Frames /\ Len(s) \in Nat \ {0}
      /\ Tail(s) \in Seq(Frames) /\ Len(Tail(s)) = Len(s) - 1
      /\ \A i \in 1..(Len(s) - 1) : Tail(s)[i] = s[i + 1]
  BY DEF ReadFrame, TypeOK
<1>2. f.req \in Calls /\ rest.req = f.req
  BY <1>1 DEF Frames
<1>3. inbox' = [inbox EXCEPT ![k] = Remainder(s)] /\ owed' = owed
  BY DEF ReadFrame
<1>4. CASE f.kind = "unknownFc"
  <2>1. Remainder(s) = <<rest>> \o Tail(s)
    BY <1>4 DEF Remainder
  <2>2. <<rest>> \in Seq({rest} \cup Frames) /\ Tail(s) \in Seq({rest} \cup Frames)
        /\ Len(<<rest>>) = 1 /\ <<rest>>[1] = rest
    BY <1>1
  <2>3. /\ Len(Remainder(s)) = Len(s)
        /\ Remainder(s)[1] = rest
        /\ \A i \in 2..Len(s) : Remainder(s)[i] = Tail(s)[i - 1]
    BY <2>1, <2>2, <1>1
  <2>4. \A i \in 1..Len(s) : Remainder(s)[i].req = s[i].req
    <3> SUFFICES ASSUME NEW i \in 1..Len(s) PROVE Remainder(s)[i].req = s[i].req
      OBVIOUS
    <3>1. CASE i = 1
      BY <3>1, <2>3, <1>1, <1>2
    <3>2. CASE i # 1
      BY <3>2, <2>3, <1>1
    <3> QED BY <3>1, <3>2
  <2>5. /\ \A j \in Conns : Len(inbox'[j]) = Len(inbox[j])
        /\ \A j \in Conns : \A i \in 1..Len(inbox[j]) : inbox'[j][i].req = inbox[j][i].req
    BY <1>3, <2>3, <2>4 DEF TypeOK
  <2>6. \A r \in Calls, j \in Conns : OnWire(r, j)' => OnWire(r, j)
    BY <1>3, <2>5 DEF OnWire
  <2>7. OnWire(f.req, k)
    BY <1>1 DEF OnWire
  <2>8. \A j \in Conns : \A i \in 1..Len(inbox'[j]) : inbox'[j][i].req \notin owed'[j]
    BY <1>3, <2>5 DEF WireInv
  <2>9. \A j \in Conns : \A h, i \in 1..Len(inbox'[j]) :
          inbox'[j][h].req = inbox'[j][i].req => h = i
    BY <2>5 DEF WireInv
  <2> QED BY <1>2, <1>4, <2>6, <2>7, <2>8, <2>9
<1>5. CASE f.kind # "unknownFc"
  <2>1. Remainder(s) = Tail(s)
    BY <1>5 DEF Remainder
  <2>2. /\ \A j \in Conns : j # k => inbox'[j] = inbox[j]
        /\ Len(inbox'[k]) = Len(s) - 1
        /\ \A i \in 1..(Len(s) - 1) : inbox'[k][i] = s[i + 1]
    BY <1>1, <1>3, <2>1 DEF TypeOK
  <2>3. \A r \in Calls, j \in Conns : OnWire(r, j)' => OnWire(r, j)
    <3> SUFFICES ASSUME NEW r \in Calls, NEW j \in Conns, OnWire(r, j)' PROVE OnWire(r, j)
      OBVIOUS
    <3>1. CASE j # k \/ r \in owed[j]
      BY <3>1, <1>3, <2>2 DEF OnWire
    <3>2. CASE j = k /\ r \notin owed[k]
      <4>1. PICK i \in 1..(Len(s) - 1) : s[i + 1].req = r
        BY <3>2, <1>3, <2>2 DEF OnWire
      <4> QED BY <4>1, <3>2, <1>1 DEF OnWire
    <3> QED BY <3>1, <3>2
  <2>4. OnWire(f.req, k)
    BY <1>1 DEF OnWire
  <2>5. \A j \in Conns : \A i \in 1..Len(inbox'[j]) : inbox'[j][i].req \notin owed'[j]
    <3> SUFFICES ASSUME NEW j \in Conns, NEW i \in 1..Len(inbox'[j])
                 PROVE  inbox'[j][i].req \notin owed'[j]
      OBVIOUS
    <3>1. CASE j # k
      BY <3>1, <1>3, <2>2 DEF WireInv
    <3>2. CASE j = k
      BY <3>2, <1>1, <1>3, <2>2 DEF WireInv
    <3> QED BY <3>1, <3>2
  <2>6. \A j \in Conns : \A h, i \in 1..Len(inbox'[j]) :
          inbox'[j][h].req = inbox'[j][i].req => h = i
    <3> SUFFICES ASSUME NEW j \in Conns, NEW h \in 1..Len(inbox'[j]), NEW i \in 1..Len(inbox'[j]),
                        inbox'[j][h].req = inbox'[j][i].req
                 PROVE  h = i
      OBVIOUS
    <3>1. CASE j # k
      BY <3>1, <2>2 DEF WireInv
    <3>2. CASE j = k
      <4>0. h \in 1..(Len(s) - 1) /\ i \in 1..(Len(s) - 1)
        BY <3>2, <2>2
      <4>1. h + 1 \in 1..Len(s) /\ i + 1 \in 1..Len(s) /\ s[h + 1].req = s[i + 1].req
        BY <4>0, <3>2, <1>1, <2>2
      <4>2. h + 1 = i + 1
        BY <4>1 DEF WireInv
      <4> QED BY <4>0, <4>2, <1>1
    <3> QED BY <3>1, <3>2
  <2>7. ~OnWire(f.req, k)'
    <3>1. f.req \notin owed[k]
      BY <1>1 DEF WireInv
    <3>2. ASSUME NEW i \in 1..(Len(s) - 1), s[i + 1].req = f.req PROVE FALSE
      <4>1. i + 1 \in 1..Len(s) /\ 1 \in 1..Len(s) /\ s[i + 1].req = s[1].req
        BY <3>2, <1>1
      <4>2. i + 1 = 1
        BY <4>1 DEF WireInv
      <4> QED BY <4>2, <1>1
    <3> QED BY <3>1, <3>2, <1>3, <2>2 DEF OnWire
  <2> QED BY <1>2, <2>3, <2>4, <2>5, <2>6, <2>7
<1> QED BY <1>4, <1>5

\* A step that leaves the wire alone and ends no call keeps StaleInv if it keeps
\* the part about the tasks.
LEMMA StaleNetwork ==
  ASSUME TypeOK, StaleInv, UNCHANGED <<stream, lock, pc, outcome, via, reply, owed, inbox>>,
         \A k \in Conns : conn'[k] = "unused" => conn[k] = "unused",
         stream # NoConn => conn'[stream] # "unused"
  PROVE  StaleInv'
BY DEF StaleInv, LockInv, ProgressInv, ConnInv, WireInv, LeftoverInv, OnWire,
       StaleOnlyAfterAbandon, Abandoned

\* A call reads a frame off its connection: a frame of another request was
\* left there by a call that gave up.
LEMMA StaleReadFrame ==
  ASSUME TypeOK, StaleInv, NEW c \in Calls, ReadFrame(c)
  PROVE  StaleInv'
<1>a. PICK k \in Conns : k = via[c]
  BY DEF ReadFrame, StaleInv, ProgressInv, TypeOK
<1>b. PICK f : f = Head(inbox[k])
  OBVIOUS
<1>0. /\ via[c] = k /\ k = stream /\ outcome[c] = "none" /\ pc[c] = "reading"
      /\ \A u \in Tasks : pc[u] \in Holding => u = c
  BY <1>a DEF ReadFrame, StaleInv, ProgressInv, LockInv, Holding, TypeOK
<1>1. /\ f.req \in Calls /\ OnWire(f.req, k)
      /\ \A r \in Calls, j \in Conns : OnWire(r, j)' => OnWire(r, j)
      /\ f.kind # "unknownFc" => ~OnWire(f.req, k)'
      /\ \A j \in Conns : \A i \in 1..Len(inbox'[j]) : inbox'[j][i].req \notin owed'[j]
      /\ \A j \in Conns : \A h, i \in 1..Len(inbox'[j]) :
           inbox'[j][h].req = inbox'[j][i].req => h = i
  BY <1>a, <1>b, ReadFrameWire DEF StaleInv
<1>2. /\ pc'[c] = "done" /\ outcome'[c] \in {"response", "protocolError"}
      /\ f.kind = "unknownFc" => outcome'[c] = "protocolError"
      /\ reply'[c] = IF outcome'[c] = "response" THEN f.req ELSE NoTask
      /\ \A u \in Tasks : u # c => pc'[u] = pc[u] /\ outcome'[u] = outcome[u]
      /\ \A d \in Calls : d # c => reply'[d] = reply[d]
      /\ UNCHANGED <<stream, via, conn, owed>>
  <2>1. /\ f.kind = "ok" => Parse(f) = "response"
        /\ f.kind # "ok" => Parse(f) = "protocolError"
    BY ParseKind
  <2> QED BY <1>0, <1>b, <2>1 DEF ReadFrame, Exit, TypeOK
<1>3. LockInv'
  BY <1>0, <1>2 DEF LockInv, Holding
<1>4. ProgressInv'
  BY <1>0, <1>2 DEF StaleInv, ProgressInv
<1>5. ConnInv'
  <2>1. \A j \in Conns : j # k => inbox'[j] = inbox[j]
    BY <1>0 DEF ReadFrame, TypeOK
  <2>2. conn[k] # "unused"
    BY <1>0 DEF StaleInv, ConnInv, Conns, NoConn
  <2> QED BY <1>2, <2>1, <2>2 DEF StaleInv, ConnInv
<1>6. WireInv'
  BY <1>1, <1>2 DEF StaleInv, WireInv
\* The frame answers another call: that call is over, and some call was abandoned.
<1>7. f.req # c => \E a \in Calls : a # c /\ via[a] = k /\ Abandoned(a)
  <2> SUFFICES ASSUME f.req # c PROVE \E a \in Calls : a # c /\ via[a] = k /\ Abandoned(a)
    OBVIOUS
  <2>1. via[f.req] = k /\ k # NoConn
    BY <1>0, <1>1 DEF StaleInv, WireInv, Conns, NoConn
  <2>2. pc[f.req] = "done"
    BY <1>0, <1>1, <2>1 DEF StaleInv, ProgressInv, Holding, TypeOK
  <2>3. \E a \in Calls : via[a] = k /\ Abandoned(a)
    BY <1>0, <1>1, <2>1, <2>2 DEF StaleInv, LeftoverInv
  <2> QED BY <1>0, <2>3 DEF Abandoned
<1>8. \A a \in Calls : a # c /\ Abandoned(a) => Abandoned(a)'
  BY <1>2 DEF Abandoned
<1>9. LeftoverInv'
  <2> SUFFICES ASSUME NEW r \in Calls, stream' # NoConn, pc'[r] = "done", OnWire(r, stream)'
               PROVE  \E a \in Calls : via'[a] = stream' /\ Abandoned(a)'
    BY DEF LeftoverInv
  <2>1. OnWire(r, k)' /\ OnWire(r, k)
    BY <1>0, <1>1, <1>2
  <2>2. CASE r # c
    <3>1. PICK a \in Calls : via[a] = stream /\ Abandoned(a)
      BY <1>0, <1>2, <2>1, <2>2 DEF StaleInv, LeftoverInv
    <3> QED BY <1>0, <1>2, <1>8, <3>1 DEF Abandoned
  <2>3. CASE r = c /\ f.req # c
    BY <1>0, <1>2, <1>7, <1>8, <2>3
  <2>4. CASE r = c /\ f.req = c
    BY <1>0, <1>1, <1>2, <2>1, <2>4 DEF Abandoned
  <2> QED BY <2>2, <2>3, <2>4
<1>10. StaleOnlyAfterAbandon'
  <2> SUFFICES ASSUME NEW d \in Calls, reply'[d] \notin {d, NoTask}
               PROVE  \E r \in Calls : r # d /\ via'[r] = via'[d] /\ Abandoned(r)'
    BY DEF StaleOnlyAfterAbandon
  <2>1. CASE d = c
    BY <1>0, <1>2, <1>7, <1>8, <2>1
  <2>2. CASE d # c
    <3>1. PICK r \in Calls : r # d /\ via[r] = via[d] /\ Abandoned(r)
      BY <1>2, <2>2 DEF StaleInv, StaleOnlyAfterAbandon
    <3> QED BY <1>0, <1>2, <1>8, <3>1 DEF Abandoned
  <2> QED BY <2>1, <2>2
<1> QED BY <1>3, <1>4, <1>5, <1>6, <1>9, <1>10 DEF StaleInv

\* A cancelled call leaves the connection, and so counts as abandoned.
LEMMA StaleCancel ==
  ASSUME TypeOK, StaleInv, NEW c \in Calls, CallerCancel(c)
  PROVE  StaleInv'
<1>0. /\ pc[c] \in {"lockWait", "dialing", "draining", "reading", "closing"}
      /\ pc'[c] = "done" /\ outcome'[c] = "cancelled"
      /\ \A u \in Tasks : u # c => pc'[u] = pc[u] /\ outcome'[u] = outcome[u]
      /\ pc[c] = "lockWait" => lock' = lock
      /\ UNCHANGED <<stream, via, reply, conn, owed, inbox>>
  BY DEF CallerCancel, TypeOK, wire
<1>1. LockInv'
  BY <1>0 DEF StaleInv, LockInv, Holding
<1>2. ProgressInv'
  BY <1>0 DEF StaleInv, ProgressInv
<1>3. ConnInv' /\ WireInv'
  BY <1>0 DEF StaleInv, ConnInv, WireInv, OnWire
<1>4. Abandoned(c)' /\ \A a \in Calls : Abandoned(a) => Abandoned(a)'
  BY <1>0 DEF Abandoned
<1>5. LeftoverInv'
  <2> SUFFICES ASSUME NEW r \in Calls, stream # NoConn, pc'[r] = "done", OnWire(r, stream)
               PROVE  \E a \in Calls : via[a] = stream /\ Abandoned(a)'
    BY <1>0 DEF LeftoverInv, OnWire
  <2>1. via[r] = stream
    BY DEF StaleInv, WireInv, TypeOK
  <2> QED BY <1>0, <1>4, <2>1 DEF StaleInv, LeftoverInv
<1>6. StaleOnlyAfterAbandon'
  BY <1>0, <1>4 DEF StaleInv, StaleOnlyAfterAbandon
<1> QED BY <1>1, <1>2, <1>3, <1>5, <1>6 DEF StaleInv

\* An answer moves a request from the slave to the input buffer.
LEMMA StaleAnswer ==
  ASSUME TypeOK, StaleInv, NEW k \in Conns, Answer(k)
  PROVE  StaleInv'
<1>1. PICK r \in owed[k], f \in FrameKinds :
        /\ owed' = [owed EXCEPT ![k] = @ \ {r}]
        /\ inbox' = [inbox EXCEPT ![k] = Append(@, [req |-> r, kind |-> f])]
        /\ UNCHANGED <<closed, stream, lock, pc, outcome, via, reply, conn>>
  BY DEF Answer
<1> DEFINE s == inbox[k]
<1>2. /\ s \in Seq(Frames) /\ Len(s) \in Nat /\ r \in Calls
      /\ Len(inbox'[k]) = Len(s) + 1 /\ inbox'[k][Len(s) + 1].req = r
      /\ \A i \in 1..Len(s) : inbox'[k][i] = s[i]
      /\ \A j \in Conns : j # k => inbox'[j] = inbox[j] /\ owed'[j] = owed[j]
      /\ owed'[k] = owed[k] \ {r}
  BY <1>1 DEF TypeOK
<1>3. \A x \in Calls, j \in Conns : OnWire(x, j)' <=> OnWire(x, j)
  <2> SUFFICES ASSUME NEW x \in Calls, NEW j \in Conns PROVE OnWire(x, j)' <=> OnWire(x, j)
    OBVIOUS
  <2>1. CASE j # k
    BY <1>2, <2>1 DEF OnWire
  <2>2. CASE j = k
    <3>1. (\E i \in 1..Len(inbox'[k]) : inbox'[k][i].req = x)
            <=> (x = r \/ \E i \in 1..Len(s) : s[i].req = x)
      BY <1>2
    <3> QED BY <1>2, <2>2, <3>1 DEF OnWire
  <2> QED BY <2>1, <2>2
<1>4. LockInv' /\ ProgressInv'
  BY <1>1 DEF StaleInv, LockInv, ProgressInv
<1>5. ConnInv'
  BY <1>1, <1>2 DEF StaleInv, ConnInv, Answer
<1>6. WireInv'
  <2>1. \A i \in 1..Len(s) : s[i].req # r
    BY DEF StaleInv, WireInv
  <2>2. \A j \in Conns : \A i \in 1..Len(inbox'[j]) : inbox'[j][i].req \notin owed'[j]
    <3>1. \A i \in 1..Len(inbox'[k]) : inbox'[k][i].req = r \/ i \in 1..Len(s)
      BY <1>2
    <3>2. \A i \in 1..Len(inbox'[k]) : inbox'[k][i].req \notin owed'[k]
      BY <1>2, <3>1 DEF StaleInv, WireInv
    <3> QED BY <1>2, <3>2 DEF StaleInv, WireInv
  <2>3. \A j \in Conns : \A h, i \in 1..Len(inbox'[j]) :
          inbox'[j][h].req = inbox'[j][i].req => h = i
    <3>1. ASSUME NEW h \in 1..Len(inbox'[k]), NEW i \in 1..Len(inbox'[k]),
                 inbox'[k][h].req = inbox'[k][i].req
          PROVE  h = i
      <4>1. h \in 1..(Len(s) + 1) /\ i \in 1..(Len(s) + 1)
        BY <1>2
      <4>2. CASE h \in 1..Len(s) /\ i \in 1..Len(s)
        BY <1>2, <3>1, <4>2 DEF StaleInv, WireInv
      <4>3. \A g \in 1..(Len(s) + 1) : g \in 1..Len(s) \/ g = Len(s) + 1
        BY <1>2
      <4>4. \A g \in 1..Len(s) : inbox'[k][g].req # inbox'[k][Len(s) + 1].req
        BY <1>2, <2>1
      <4> QED BY <3>1, <4>1, <4>2, <4>3, <4>4
    <3>2. ASSUME NEW j \in Conns, j # k, NEW h \in 1..Len(inbox'[j]), NEW i \in 1..Len(inbox'[j]),
                 inbox'[j][h].req = inbox'[j][i].req
          PROVE  h = i
      BY <1>2, <3>2 DEF StaleInv, WireInv
    <3> QED BY <3>1, <3>2
  <2> QED BY <1>1, <1>3, <2>2, <2>3 DEF StaleInv, WireInv
<1>7. LeftoverInv' /\ StaleOnlyAfterAbandon'
  BY <1>1, <1>3 DEF StaleInv, LeftoverInv, StaleOnlyAfterAbandon, Abandoned, TypeOK
<1> QED BY <1>4, <1>5, <1>6, <1>7 DEF StaleInv

\* A step of one task t, past the lock or before it, that leaves the wire alone.
LEMMA StaleEnds ==
  ASSUME TypeOK, StaleInv, NEW t \in Tasks,
         \/ Reject(t)
         \/ pc[t] = "idle" /\ pc' = [pc EXCEPT ![t] = "lockWait"] /\ UNCHANGED <<lock, outcome>>
         \/ pc[t] = "dialing" /\ Exit(t, "connError")
         \/ pc[t] = "closing" /\ Exit(t, outcome[t])
         \/ pc[t] = "draining" /\ pc' = [pc EXCEPT ![t] = "reading"] /\ UNCHANGED <<lock, outcome>>,
         UNCHANGED <<stream, via, reply, conn, owed, inbox>>
  PROVE  StaleInv'
<1>0. /\ \A u \in Tasks : u # t => pc'[u] = pc[u] /\ outcome'[u] = outcome[u]
      /\ \/ pc[t] = "idle" /\ pc'[t] = "done" /\ UNCHANGED lock
            /\ outcome'[t] \in {"closed", "valueError"}
         \/ pc[t] = "idle" /\ pc'[t] = "lockWait" /\ UNCHANGED <<lock, outcome>>
         \/ pc[t] = "dialing" /\ pc'[t] = "done" /\ outcome'[t] = "connError"
         \/ pc[t] = "closing" /\ pc'[t] = "done" /\ outcome'[t] = outcome[t]
         \/ pc[t] = "draining" /\ pc'[t] = "reading" /\ UNCHANGED <<lock, outcome>>
  BY DEF Reject, Exit, TypeOK
<1>1. LockInv'
  BY <1>0 DEF StaleInv, LockInv, Holding
<1>2. ProgressInv'
  BY <1>0 DEF StaleInv, ProgressInv
<1>3. ConnInv' /\ WireInv'
  BY DEF StaleInv, ConnInv, WireInv, OnWire
<1>4. \A a \in Calls : Abandoned(a) => Abandoned(a)'
  BY <1>0 DEF Abandoned, StaleInv, ProgressInv
<1>5. LeftoverInv'
  <2> SUFFICES ASSUME NEW r \in Calls, stream # NoConn, pc'[r] = "done", OnWire(r, stream)
               PROVE  \E a \in Calls : via[a] = stream /\ Abandoned(a)
    BY <1>4 DEF LeftoverInv, OnWire
  <2>1. via[r] = stream /\ stream \in Conns
    BY DEF StaleInv, WireInv, TypeOK
  <2>2. pc[r] # "closing"
    BY DEF StaleInv, ProgressInv
  <2> QED BY <1>0, <2>1, <2>2 DEF StaleInv, LeftoverInv, ProgressInv
<1>6. StaleOnlyAfterAbandon'
  BY <1>4 DEF StaleInv, StaleOnlyAfterAbandon
<1> QED BY <1>1, <1>2, <1>3, <1>5, <1>6 DEF StaleInv

\* Every step leaves the requests and frames of each connection accounted for.
LEMMA StaleStep == TypeOK /\ StaleInv /\ [Next]_vars => StaleInv'
<1> SUFFICES ASSUME TypeOK, StaleInv, [Next]_vars PROVE StaleInv'
  OBVIOUS
<1>1. CASE \E t \in Tasks : Reject(t) \/ DialFail(t) \/ TeardownDone(t)
  BY <1>1, StaleEnds DEF Reject, DialFail, TeardownDone, wire
<1>2. CASE \E t \in Tasks : Enter(t)
  <2>1. PICK t \in Tasks : Enter(t)
    BY <1>2
  <2>2. CASE LockFree
    BY <2>1, <2>2, StaleLocked DEF Enter, LockFree
  <2>3. CASE ~LockFree
    BY <2>1, <2>3, StaleEnds DEF Enter
  <2> QED BY <2>2, <2>3
<1>3. CASE \E t \in Tasks : Acquire(t)
  BY <1>3, StaleLocked DEF Acquire
<1>4. CASE \E t \in Tasks, k \in Conns : DialOk(t, k)
  <2>1. PICK t \in Tasks, k \in Conns : DialOk(t, k)
    BY <1>4
  <2>2. Alone(t) /\ stream = NoConn
    BY <2>1 DEF DialOk, Alone, Holding, StaleInv, LockInv, ProgressInv
  <2>3. t \in Users
    BY <2>1, CallAssumption DEF DialOk, Proceed
  <2> QED BY <2>1, <2>2, <2>3, StaleProceed DEF DialOk
<1>5. CASE \E c \in Calls : DrainOk(c)
  BY <1>5, StaleEnds DEF DrainOk, wire
<1>6. CASE \E c \in Calls : DrainFail(c) \/ ReadFail(c) \/ ReadTimeout(c)
  <2>1. PICK c \in Calls : DrainFail(c) \/ ReadFail(c) \/ ReadTimeout(c)
    BY <1>6
  <2>2. Alone(c)
    BY <2>1 DEF Alone, Holding, StaleInv, LockInv, ProgressInv, DrainFail, ReadFail, ReadTimeout
  <2> QED BY <2>1, <2>2, StaleTeardown DEF DrainFail, ReadFail, ReadTimeout
<1>7. CASE \E c \in Calls : ReadFrame(c)
  BY <1>7, StaleReadFrame
<1>8. CASE \E c \in Calls : CallerCancel(c)
  BY <1>8, StaleCancel
<1>9. CASE \E k \in Conns : Answer(k)
  BY <1>9, StaleAnswer
<1>10. CASE \E k \in Conns : PeerEof(k) \/ Reset(k) \/ CloseDone(k)
  <2>1. /\ UNCHANGED <<stream, lock, pc, outcome, via, reply, owed, inbox>>
        /\ \A k \in Conns : conn'[k] = "unused" => conn[k] = "unused"
    BY <1>10 DEF PeerEof, Reset, CloseDone, ConnStep, TypeOK
  <2> QED BY <2>1, StaleNetwork DEF StaleInv, ConnInv, TypeOK
<1>11. CASE UNCHANGED vars
  BY <1>11, StaleNetwork DEF vars, wire, StaleInv, ConnInv
<1> QED BY <1>1, <1>2, <1>3, <1>4, <1>5, <1>6, <1>7, <1>8, <1>9, <1>10, <1>11
        DEF Next, TaskStep, CallStep, NetworkStep, Terminated

\* A new transport satisfies the invariants.
LEMMA InitInv == Init => TypeOK /\ StaleInv /\ CloseInv
<1> SUFFICES ASSUME Init PROVE TypeOK /\ StaleInv /\ CloseInv
  OBVIOUS
<1>1. TypeOK
  <2>1. <<>> \in Seq(Frames)
    OBVIOUS
  <2> QED BY <2>1 DEF Init, TypeOK
<1>2. LockInv /\ ProgressInv /\ CloseInv
  BY DEF Init, LockInv, ProgressInv, CloseInv, Holding
<1>3. ConnInv /\ StaleOnlyAfterAbandon
  BY DEF Init, ConnInv, StaleOnlyAfterAbandon
<1>4. WireInv /\ LeftoverInv
  BY DEF Init, WireInv, LeftoverInv, OnWire
<1> QED BY <1>1, <1>2, <1>3, <1>4 DEF StaleInv

\* Every reachable state of the RTU-over-TCP transport is well typed.
THEOREM TypeCorrect == Spec => []TypeOK
<1>1. Init => TypeOK /\ StaleInv
  BY InitInv
<1>2. TypeOK /\ StaleInv /\ [Next]_vars => (TypeOK /\ StaleInv)'
  BY TypeOKStep, StaleStep DEF StaleInv
<1> QED BY <1>1, <1>2, PTL DEF Spec

\* RtuOverTcpTransport.send_and_receive returns the response to another call's
\* request only if an earlier call on that connection was cancelled or raised a
\* protocol error.
THEOREM NoStaleResponse == Spec => []StaleOnlyAfterAbandon
<1>1. Init => TypeOK /\ StaleInv
  BY InitInv
<1>2. TypeOK /\ StaleInv /\ [Next]_vars => (TypeOK /\ StaleInv)'
  BY TypeOKStep, StaleStep DEF StaleInv
<1>3. StaleInv => StaleOnlyAfterAbandon
  BY DEF StaleInv
<1> QED BY <1>1, <1>2, <1>3, PTL DEF Spec

-----------------------------------------------------------------------------
(* After close() *)

\* No step gives a closed transport a stream again.
LEMMA CloseStep == TypeOK /\ StaleInv /\ CloseInv /\ [Next]_vars => CloseInv'
<1> SUFFICES ASSUME TypeOK, StaleInv, CloseInv, [Next]_vars PROVE CloseInv'
  OBVIOUS
<1> USE TaskAssumption DEF CloseInv
\* A task with the lock: dialling is refused once closed, close() drops the stream.
<1>1. ASSUME NEW t \in Tasks, pc[t] \in {"idle", "lockWait"}, lock = NoTask, Locked(t),
             closed' = (closed \/ t \in Closers), t \in Closers => closed'
      PROVE  CloseInv'
  <2>0. \A u \in Tasks : pc[u] \notin Holding
    BY <1>1 DEF StaleInv, LockInv
  <2>1. CASE t \in Closers
    <3>1. stream' = NoConn /\ \A u \in Tasks : pc'[u] # "dialing"
      BY <1>1, <2>0, <2>1 DEF Locked, Teardown, Exit, TypeOK, Holding
    <3> QED BY <1>1, <2>1, <3>1
  <2>2. CASE t \in Users
    <3>1. closed' = closed /\ \A a \in Closers : pc'[a] = pc[a]
      BY <1>1, <2>2 DEF Locked, Proceed, Teardown, Exit, TypeOK
    <3>2. stream = NoConn /\ closed => stream' = NoConn /\ \A u \in Tasks : pc'[u] # "dialing"
      BY <1>1, <2>0, <2>2 DEF Locked, Exit, TypeOK, Holding
    <3> QED BY <3>1, <3>2
  <2> QED BY <2>1, <2>2
<1>2. CASE \E t \in Tasks : Reject(t) \/ DialFail(t) \/ TeardownDone(t)
  <2>1. PICK t \in Tasks : Reject(t) \/ DialFail(t) \/ TeardownDone(t)
    BY <1>2
  <2>2. /\ UNCHANGED <<closed, stream>> /\ pc' = [pc EXCEPT ![t] = "done"]
        /\ t \in Closers => pc[t] = "closing"
    BY <2>1 DEF Reject, DialFail, TeardownDone, Exit, StaleInv, ProgressInv
  <2> QED BY <2>2 DEF TypeOK
<1>3. CASE \E t \in Tasks : Enter(t)
  <2>1. PICK t \in Tasks : Enter(t)
    BY <1>3
  <2>2. CASE LockFree
    BY <1>1, <2>1, <2>2 DEF Enter, LockFree
  <2>3. CASE ~LockFree
    <3>1. /\ closed \/ t \in Closers => closed'
          /\ stream' = stream
          /\ pc[t] = "idle" /\ pc'[t] = "lockWait"
          /\ \A u \in Tasks : u # t => pc'[u] = pc[u]
      BY <2>1, <2>3 DEF Enter, TypeOK
    <3> QED BY <3>1
  <2> QED BY <2>2, <2>3
<1>4. CASE \E t \in Tasks : Acquire(t)
  <2>1. PICK t \in Tasks : Acquire(t)
    BY <1>4
  <2>2. t \in Closers => closed
    BY <2>1 DEF Acquire
  <2> QED BY <1>1, <2>1, <2>2 DEF Acquire, TypeOK
<1>5. CASE \E t \in Tasks, k \in Conns : DialOk(t, k)
  <2>1. PICK t \in Tasks, k \in Conns : DialOk(t, k)
    BY <1>5
  <2>2. \A a \in Closers : pc[a] \notin {"closing", "done"}
    BY <2>1 DEF DialOk
  <2>3. t \in Users /\ closed' = closed /\ \A a \in Closers : pc'[a] = pc[a]
    BY <2>1, CallAssumption DEF DialOk, Proceed, Teardown, Exit, TypeOK
  <2> QED BY <2>2, <2>3
<1>6. CASE \E c \in Calls : DrainOk(c) \/ CallerCancel(c) \/ ReadFrame(c)
  BY <1>6 DEF DrainOk, CallerCancel, ReadFrame, Exit, TypeOK
<1>7. CASE \E c \in Calls : DrainFail(c) \/ ReadFail(c) \/ ReadTimeout(c)
  BY <1>7 DEF DrainFail, ReadFail, ReadTimeout, Teardown, Exit, TypeOK
<1>8. CASE \E k \in Conns : NetworkStep(k)
  BY <1>8 DEF NetworkStep, Answer, PeerEof, Reset, CloseDone, ConnStep
<1>9. CASE UNCHANGED vars
  BY <1>9 DEF vars
<1> QED BY <1>2, <1>3, <1>4, <1>5, <1>6, <1>7, <1>8, <1>9
        DEF Next, TaskStep, CallStep, Terminated

\* Once RtuOverTcpTransport.close() has returned, no call, connect() or dial that
\* was under way brings a connection back.
THEOREM ClosedForGood == Spec => []ClosedStaysDisconnected
<1>1. Init => TypeOK /\ StaleInv /\ CloseInv
  BY InitInv
<1>2. TypeOK /\ StaleInv /\ CloseInv /\ [Next]_vars => (TypeOK /\ StaleInv /\ CloseInv)'
  BY TypeOKStep, StaleStep, CloseStep DEF StaleInv
<1>3. CloseInv => ClosedStaysDisconnected
  BY DEF CloseInv, ClosedStaysDisconnected
<1> QED BY <1>1, <1>2, <1>3, PTL DEF Spec
=============================================================================
