------------------------- MODULE TcpTransportProofs -------------------------
(***************************************************************************)
(* Proofs about TcpTransport for every number of calls, connectors and     *)
(* close() calls, every TID space and both pipeline modes, and that it     *)
(* keeps the promise of the abstract Transport.  Closes may be arbitrarily *)
(* slow, except in the two theorems about prompt closes.                   *)
(***************************************************************************)
EXTENDS TcpTransport, FiniteSetTheorems, TLAPS

USE DEF Tasks, Actors

\* _next_tid and the TIDs probed from it stay inside the TID space.
LEMMA WrapStaysInTids ==
  ASSUME NEW m \in Tids, NEW n \in Tids
  PROVE  /\ Wrap(m + n) \in Tids /\ Wrap(m + n + 1) \in Tids
         /\ Laps(m + n) \in Nat /\ Laps(m + n + 1) \in Nat
  BY TidSpaceAssumption DEF Wrap, Laps, Tids

\* What the steps of a sending task leave of the type invariant.
callTypes == /\ nextTid \in Tids /\ wraps \in Nat
             /\ pending \in [Tids -> Calls \cup {NoTask}]
             /\ connLock \in Tasks \cup {NoTask} /\ serialLock \in Calls \cup {NoTask}
             /\ pc \in [Tasks -> PcStates]
             /\ tid \in [Calls -> Tids \cup {NoTid}] /\ gen \in [Calls -> Nat]
             /\ via \in [Calls -> Conns \cup {NoConn}]
             /\ fut \in [Calls -> FutStates]
             /\ reply \in [Calls -> Calls \cup {NoTask}]
             /\ outcome \in [Tasks -> Outcomes]

\* Sending keeps every attribute in its type.
LEMMA SendTypes ==
  ASSUME TypeOK, NEW c \in Calls, NEW k \in Conns \cup {NoConn}, NEW alive \in BOOLEAN,
         Send(c, k, alive), connLock' \in Tasks \cup {NoTask}, HoldSerial(c)
  PROVE  callTypes'
<1>1. CASE \A t \in Tids : pending[t] # NoTask
  BY <1>1, WrapStaysInTids DEF Send, Exit, HoldSerial, callTypes, TypeOK, FirstFree,
     PcStates, Outcomes, tidVars, futVars
<1>2. CASE ~ \A t \in Tids : pending[t] # NoTask
  <2>1. PICK n \in Tids : AllocateTid(c, n) /\ FirstFree(n) /\
          \/ /\ \E o \in {"valueError", "connError"} : Exit(c, o)
             /\ UNCHANGED <<pending, via, futVars>>
          \/ /\ pending' = [pending EXCEPT ![Wrap(nextTid + n)] = c]
             /\ fut' = [fut EXCEPT ![c] = "pending"]
             /\ via' = [via EXCEPT ![c] = k]
             /\ \E s \in {"draining", "waiting"} : pc' = [pc EXCEPT ![c] = s]
             /\ UNCHANGED <<reply, outcome>>
    BY <1>2 DEF Send
  <2>0. /\ Wrap(nextTid + n) \in Tids /\ Wrap(nextTid + n + 1) \in Tids
        /\ Laps(nextTid + n) \in Nat /\ Laps(nextTid + n + 1) \in Nat
    BY WrapStaysInTids DEF TypeOK
  <2>2. nextTid' \in Tids /\ wraps' \in Nat /\ tid' \in [Calls -> Tids \cup {NoTid}]
        /\ gen' \in [Calls -> Nat]
    BY <2>1, <2>0 DEF AllocateTid, TypeOK
  <2>3. /\ pending' \in [Tids -> Calls \cup {NoTask}]
        /\ pc' \in [Tasks -> PcStates] /\ via' \in [Calls -> Conns \cup {NoConn}]
        /\ fut' \in [Calls -> FutStates] /\ reply' \in [Calls -> Calls \cup {NoTask}]
        /\ outcome' \in [Tasks -> Outcomes]
    BY <2>1, <2>0 DEF Exit, TypeOK, PcStates, FutStates, Outcomes, futVars
  <2>4. serialLock' \in Calls \cup {NoTask}
    BY DEF HoldSerial, TypeOK
  <2> QED BY <2>2, <2>3, <2>4 DEF callTypes
<1> QED BY <1>1, <1>2

\* The part of the type invariant that _teardown touches.
teardownTypes == /\ connected \in BOOLEAN /\ stream \in Conns \cup {NoConn}
                 /\ readTask \in Conns \cup {NoConn}
                 /\ pending \in [Tids -> Calls \cup {NoTask}]
                 /\ fut \in [Calls -> FutStates]
                 /\ conn \in [Conns -> ConnStates]
                 /\ tpc \in [Actors -> ActorStates]
                 /\ waitOn \in [Actors -> Conns \cup {NoConn}]

\* Cancelling a task leaves it in one of the states of a task.
LEMMA CancelledTypes ==
  ASSUME NEW s \in ActorStates PROVE Cancelled(s) \in ActorStates
  BY DEF Cancelled, ActorStates

\* The two tails of _teardown keep every attribute in its type.
LEMMA ReapReaderTypes ==
  ASSUME TypeOK, NEW a \in Actors, ReapReader(a) \/ FailPending(a),
         UNCHANGED <<connected, stream, conn>>
  PROVE  teardownTypes'
<1>1. CASE FailPending(a)
  BY <1>1 DEF FailPending, TypeOK, teardownTypes, FutStates, ActorStates
<1>2. CASE ReapReader(a) /\ ~FailPending(a)
  <2>1. readTask \in Conns /\ Cancelled(tpc[readTask]) \in ActorStates
    BY <1>2, CancelledTypes DEF ReapReader, TypeOK
  <2> QED BY <1>2, <2>1 DEF ReapReader, TypeOK, teardownTypes, ActorStates
<1> QED BY <1>1, <1>2

\* So does _teardown up to its first suspension.
LEMMA TeardownTypes ==
  ASSUME TypeOK, NEW a \in Actors, Teardown(a)
  PROVE  teardownTypes'
<1>0. connected' \in BOOLEAN /\ stream' \in Conns \cup {NoConn}
  BY DEF Teardown
<1>1. CASE stream # NoConn /\ conn[stream] # "lost"
  BY <1>0, <1>1 DEF Teardown, TypeOK, teardownTypes, ActorStates, ConnStates
<1>2. CASE ~(stream # NoConn /\ conn[stream] # "lost")
  <2>1. CASE FailPending(a)
    BY <1>0, <1>2, <2>1 DEF Teardown, FailPending, TypeOK, teardownTypes, FutStates, ActorStates
  <2>2. CASE ReapReader(a) /\ ~FailPending(a)
    <3>1. readTask \in Conns /\ Cancelled(tpc[readTask]) \in ActorStates
      BY <2>2, CancelledTypes DEF ReapReader, TypeOK
    <3> QED BY <1>0, <1>2, <2>2, <3>1 DEF Teardown, ReapReader, TypeOK, teardownTypes, ActorStates
  <2> QED BY <1>2, <2>1, <2>2 DEF Teardown
<1> QED BY <1>1, <1>2

\* A task that goes on once the connection is up keeps the types.
LEMMA ProceedTypes ==
  ASSUME TypeOK, NEW t \in Tasks, NEW k \in Conns \cup {NoConn}, NEW alive \in BOOLEAN,
         Proceed(t, k, alive), connLock' \in Tasks \cup {NoTask}, HoldSerial(t)
  PROVE  callTypes'
<1>1. CASE t \in Calls
  BY <1>1, SendTypes DEF Proceed
<1>2. CASE t \notin Calls
  BY <1>2 DEF Proceed, Exit, HoldSerial, callTypes, TypeOK, PcStates, Outcomes, tidVars, futVars
<1> QED BY <1>1, <1>2

\* So does a task inside _ensure_connected.
LEMMA LockedTypes ==
  ASSUME TypeOK, NEW t \in Tasks, Locked(t), HoldSerial(t)
  PROVE  callTypes'
<1>1. CASE connected /\ Proceed(t, stream, conn[stream] # "lost") /\ UNCHANGED connLock
  <2>1. stream \in Conns \cup {NoConn} /\ connLock' \in Tasks \cup {NoTask}
    BY <1>1 DEF TypeOK
  <2> QED BY <1>1, <2>1, ProceedTypes
<1>2. CASE ~connected /\ closed /\ Locked(t)
  BY <1>2 DEF Locked, Exit, HoldSerial, callTypes, TypeOK, PcStates, Outcomes, tidVars, futVars
<1>3. CASE ~connected /\ ~closed /\ Locked(t)
  BY <1>3 DEF Locked, HoldSerial, callTypes, TypeOK, PcStates, tidVars, futVars
<1> QED BY <1>1, <1>2, <1>3 DEF Locked

\* _ensure_connected, with or without waiting for the lock, keeps the types.
LEMMA EnsureConnectedTypes ==
  ASSUME TypeOK, NEW t \in Tasks, EnsureConnected(t), HoldSerial(t)
  PROVE  callTypes'
<1>1. CASE Locked(t)
  BY <1>1, LockedTypes
<1>2. CASE ~Locked(t)
  BY <1>2 DEF EnsureConnected, HoldSerial, callTypes, TypeOK, PcStates, tidVars, futVars
<1> QED BY <1>1, <1>2

\* TypeOK is inductive: one step per action of Next.
LEMMA TypeOKStep == TypeOK /\ [Next]_vars => TypeOK'
<1> SUFFICES ASSUME TypeOK, [Next]_vars PROVE TypeOK'
  OBVIOUS
<1> USE DEF sharedVars, tidVars, futVars, lockVars, callVars, connOnly
<1>1. ASSUME NEW c \in Calls, CallStep(c) PROVE TypeOK'
  <2>1. CASE QueueSerial(c)
    BY <2>1 DEF QueueSerial, TypeOK, PcStates
  <2>2. CASE SerialAcquire(c)
    BY <2>2, EnsureConnectedTypes DEF SerialAcquire, TypeOK, callTypes
  <2>3. CASE DrainOk(c)
    BY <2>3 DEF DrainOk, TypeOK, PcStates
  <2>4. CASE DrainFail(c)
    BY <2>4 DEF DrainFail, Exit, PopTid, HoldSerial, TypeOK, PcStates, Outcomes
  <2>5. CASE Timeout(c)
    BY <2>5 DEF Timeout, TypeOK, FutStates
  <2>6. CASE Wake(c)
    <3>1. OutcomeOf(fut[c]) \in Outcomes
      BY <2>6 DEF Wake, OutcomeOf, Outcomes, TypeOK, FutStates
    <3> QED BY <2>6, <3>1 DEF Wake, Exit, PopTid, HoldSerial, TypeOK, PcStates
  <2>7. CASE CallerCancel(c)
    BY <2>7 DEF CallerCancel, Exit, PopTid, HoldSerial, TypeOK, PcStates, Outcomes, FutStates
  <2> QED BY <1>1, <2>1, <2>2, <2>3, <2>4, <2>5, <2>6, <2>7 DEF CallStep
<1>2. ASSUME NEW t \in Tasks, TaskStep(t) PROVE TypeOK'
  <2>1. CASE Reject(t)
    BY <2>1 DEF Reject, Exit, TypeOK, PcStates, Outcomes
  <2>2. CASE Enter(t)
    BY <2>2, EnsureConnectedTypes DEF Enter, TypeOK, callTypes
  <2>3. CASE ConnAcquire(t)
    BY <2>3, LockedTypes DEF ConnAcquire, TypeOK, callTypes
  <2>4. CASE DialFail(t)
    BY <2>4 DEF DialFail, Exit, HoldSerial, TypeOK, PcStates, Outcomes
  <2>5. ASSUME NEW k \in Conns, DialOk(t, k) PROVE TypeOK'
    <3>1. callTypes'
      BY <2>5, ProceedTypes DEF DialOk
    <3> QED BY <2>5, <3>1 DEF DialOk, TypeOK, callTypes, ConnStates, ActorStates
  <2> QED BY <1>2, <2>1, <2>2, <2>3, <2>4, <2>5 DEF TaskStep
<1>3. ASSUME NEW a \in Actors, TeardownStep(a) PROVE TypeOK'
  <2>1. teardownTypes'
    BY <1>3, ReapReaderTypes, TeardownTypes
       DEF TeardownStep, Close, WaitClosedDone, AwaitTaskDone
  <2> QED BY <1>3, <2>1 DEF TeardownStep, Close, WaitClosedDone, AwaitTaskDone,
             TypeOK, teardownTypes
<1>4. ASSUME NEW k \in Conns, ReadLoopStep(k) PROVE TypeOK'
  <2>1. CASE RLStart(k)
    BY <2>1 DEF RLStart, TypeOK, ActorStates
  <2>2. ASSUME NEW r \in Calls, RLFrame(k, r) PROVE TypeOK'
    <3>1. pending[tid[r]] \in Calls => TypeOK'
      BY <2>2 DEF RLFrame, TypeOK, FutStates
    <3>2. pending[tid[r]] \notin Calls => TypeOK'
      BY <2>2 DEF RLFrame, TypeOK
    <3> QED BY <3>1, <3>2
  <2>3. CASE RLEnd(k)
    BY <2>3, TeardownTypes DEF RLEnd, TypeOK, teardownTypes
  <2>4. CASE tpc[k] = "interrupted" /\ RLCancelled(k)
    BY <2>4, TeardownTypes DEF RLCancelled, TypeOK, teardownTypes
  <2>5. CASE tpc[k] # "interrupted" /\ RLCancelled(k)
    BY <2>5 DEF RLCancelled, TypeOK, ActorStates
  <2> QED BY <1>4, <2>1, <2>2, <2>3, <2>4, <2>5 DEF ReadLoopStep
<1>5. ASSUME NEW k \in Conns, NetworkStep(k) PROVE TypeOK'
  BY <1>5 DEF NetworkStep, PeerEof, Reset, CloseDone, TypeOK, ConnStates
<1>6. CASE Terminated \/ UNCHANGED vars
  BY <1>6 DEF Terminated, vars, TypeOK
<1> QED BY <1>1, <1>2, <1>3, <1>4, <1>5, <1>6 DEF Next

\* The attributes of the transport and its tasks keep their types, whatever the
\* interleaving of calls, reconnects, cancellations and close().
THEOREM TypeCorrect == Spec => []TypeOK
<1>1. ASSUME Init PROVE TypeOK
  <2>1. 0 \in Tids /\ nextTid = 0 /\ wraps = 0
    BY <1>1, TidSpaceAssumption DEF Tids, Init
  <2>2. gen \in [Calls -> Nat] /\ tid \in [Calls -> Tids \cup {NoTid}]
    BY <1>1 DEF Init
  <2>3. /\ connected \in BOOLEAN /\ closed \in BOOLEAN
        /\ stream \in Conns \cup {NoConn} /\ readTask \in Conns \cup {NoConn}
        /\ connLock \in Tasks \cup {NoTask} /\ serialLock \in Calls \cup {NoTask}
        /\ pending \in [Tids -> Calls \cup {NoTask}]
        /\ via \in [Calls -> Conns \cup {NoConn}]
        /\ reply \in [Calls -> Calls \cup {NoTask}]
        /\ waitOn \in [Actors -> Conns \cup {NoConn}]
    BY <1>1 DEF Init
  <2>4. /\ pc \in [Tasks -> PcStates] /\ fut \in [Calls -> FutStates]
        /\ outcome \in [Tasks -> Outcomes] /\ conn \in [Conns -> ConnStates]
        /\ tpc \in [Actors -> ActorStates]
    BY <1>1 DEF Init, PcStates, FutStates, Outcomes, ConnStates, ActorStates
  <2> QED BY <2>1, <2>2, <2>3, <2>4 DEF TypeOK
<1> QED BY <1>1, TypeOKStep, PTL DEF Spec

-----------------------------------------------------------------------------
(* Demultiplexing *)

Before == {"idle", "serialWait", "lockWait", "dialing"}
After == {"draining", "waiting"}

\* A TID handed out by a probe is later, in (turn, TID) order, than every TID
\* handed out before it, and earlier than every TID handed out after it.
LEMMA AllocationOrder ==
  ASSUME TypeOK, TidsInOrder, NEW n \in Tids
  PROVE  LET T == Wrap(nextTid + n)  G == wraps + Laps(nextTid + n)
             N == Wrap(nextTid + n + 1)  W == wraps + Laps(nextTid + n + 1) IN
         /\ G < W \/ (G = W /\ T < N)
         /\ \A r \in Calls : tid[r] # NoTid =>
              /\ gen[r] < W \/ (gen[r] = W /\ tid[r] < N)
              /\ tid[r] = T => gen[r] < G
<1> DEFINE T == Wrap(nextTid + n)  G == wraps + Laps(nextTid + n)
           N == Wrap(nextTid + n + 1)  W == wraps + Laps(nextTid + n + 1)
<1>1. nextTid \in 0..(TidSpace - 1) /\ wraps \in Nat /\ n \in 0..(TidSpace - 1) /\ TidSpace \in Nat
  BY TidSpaceAssumption DEF TypeOK, Tids
<1>2. G < W \/ (G = W /\ T < N)
  BY <1>1 DEF Wrap, Laps
<1>3. ASSUME NEW r \in Calls, tid[r] # NoTid
      PROVE  /\ gen[r] < W \/ (gen[r] = W /\ tid[r] < N)
             /\ tid[r] = T => gen[r] < G
  <2>1. gen[r] \in Nat /\ tid[r] \in 0..(TidSpace - 1)
    BY <1>3 DEF TypeOK, Tids
  <2>2. gen[r] < wraps \/ (gen[r] = wraps /\ tid[r] < nextTid)
    BY <1>3 DEF TidsInOrder
  <2> QED BY <1>1, <2>1, <2>2 DEF Wrap, Laps
<1> QED BY <1>2, <1>3

\* A call that sends: it registers under a TID nobody holds, younger than every
\* call that had it before.
LEMMA DemuxSend ==
  ASSUME TypeOK, DemuxInv, NEW c \in Calls, NEW k \in Conns \cup {NoConn},
         NEW alive \in BOOLEAN, pc[c] \in Before, Send(c, k, alive)
  PROVE  DemuxInv'
<1> USE DEF Before
<1>1. tid[c] = NoTid /\ fut[c] = "none" /\ via[c] = NoConn
  BY DEF DemuxInv, NothingBeforeSend
<1>2. NoTid \notin Tids
  BY DEF NoTid, Tids
<1>3. \A t \in Tids : pending[t] # c
  BY <1>1, <1>2, TaskAssumption DEF DemuxInv, NoLeakedRegistration, TypeOK
<1>4. \A d \in Calls : fut[d] = "result" => d # c /\ reply[d] # c
  BY <1>1 DEF DemuxInv, SentHaveTids
<1>5. CASE \A t \in Tids : pending[t] # NoTask
  <2>1. Exit(c, "exhausted") /\ UNCHANGED <<tidVars, pending, via, futVars>>
    BY <1>5, WrapStaysInTids DEF Send, FirstFree, TypeOK
  <2> QED BY <2>1, <1>1, <1>3 DEF Exit, tidVars, futVars, TypeOK, DemuxInv, NothingBeforeSend,
          TidsInOrder, YoungestRegistered, SentHaveTids, NoLeakedRegistration,
          CrossTalkOnlyAfterWrap, RegisteredWhileWaiting
<1>6. CASE ~ \A t \in Tids : pending[t] # NoTask
  <2>1. PICK n \in Tids : AllocateTid(c, n) /\ FirstFree(n) /\
          \/ /\ \E o \in {"valueError", "connError"} : Exit(c, o)
             /\ UNCHANGED <<pending, via, futVars>>
          \/ /\ pending' = [pending EXCEPT ![Wrap(nextTid + n)] = c]
             /\ fut' = [fut EXCEPT ![c] = "pending"]
             /\ via' = [via EXCEPT ![c] = k]
             /\ \E s \in {"draining", "waiting"} : pc' = [pc EXCEPT ![c] = s]
             /\ UNCHANGED <<reply, outcome>>
    BY <1>6 DEF Send
  <2> DEFINE T == Wrap(nextTid + n)  G == wraps + Laps(nextTid + n)
  <2>2. T \in Tids /\ G \in Nat /\ T # NoTid
    BY WrapStaysInTids, <1>2 DEF TypeOK
  <2>3. tid' = [tid EXCEPT ![c] = T] /\ gen' = [gen EXCEPT ![c] = G] /\ pending[T] = NoTask
    BY <2>1 DEF AllocateTid, FirstFree
  <2>4. G < wraps' \/ (G = wraps' /\ T < nextTid')
    BY <2>1, AllocationOrder DEF AllocateTid, DemuxInv
  <2>5. \A r \in Calls : tid[r] # NoTid =>
          /\ gen[r] < wraps' \/ (gen[r] = wraps' /\ tid[r] < nextTid')
          /\ tid[r] = T => gen[r] < G
    BY <2>1, AllocationOrder DEF AllocateTid, DemuxInv
  <2> HIDE DEF T, G
  <2>6. TidsInOrder'
    BY <2>2, <2>3, <2>4, <2>5 DEF TidsInOrder, TypeOK
  <2>7. NothingBeforeSend'
    BY <2>1, <2>3, <1>1 DEF Exit, futVars, TypeOK, DemuxInv, NothingBeforeSend
  <2>8. SentHaveTids'
    BY <2>1, <2>2, <2>3, <1>1, <1>4 DEF Exit, futVars, TypeOK, DemuxInv, SentHaveTids
  <2>9. CrossTalkOnlyAfterWrap'
    BY <2>1, <2>3, <1>4 DEF Exit, futVars, TypeOK, DemuxInv, CrossTalkOnlyAfterWrap, SentHaveTids
  <2>10. CASE pending' = [pending EXCEPT ![T] = c] /\ fut' = [fut EXCEPT ![c] = "pending"]
              /\ \E s \in {"draining", "waiting"} : pc' = [pc EXCEPT ![c] = s]
    <3>1. NoLeakedRegistration'
      BY <2>10, <2>2, <2>3, <1>3 DEF TypeOK, DemuxInv, NoLeakedRegistration
    <3>2. YoungestRegistered'
      <4>1. ASSUME NEW t \in Tids, NEW r \in Calls, pending'[t] # NoTask, tid'[r] = t, r # pending'[t]
            PROVE  gen'[r] < gen'[pending'[t]]
        <5>1. CASE t = T
          BY <5>1, <4>1, <2>2, <2>3, <2>5, <2>10, <1>2 DEF TypeOK
        <5>2. CASE t # T
          BY <5>2, <4>1, <2>2, <2>3, <2>10, <1>3 DEF TypeOK, DemuxInv, YoungestRegistered
        <5> QED BY <5>1, <5>2
      <4> QED BY <4>1 DEF YoungestRegistered
    <3>3. RegisteredWhileWaiting'
      <4>1. ASSUME NEW d \in Calls, pc'[d] \in {"draining", "waiting"}, fut'[d] = "pending"
            PROVE  \/ pending'[tid'[d]] = d
                   \/ \E e \in Calls : tid'[e] = tid'[d] /\ gen'[e] < gen'[d]
        <5>1. CASE d = c
          BY <5>1, <2>2, <2>3, <2>10 DEF TypeOK
        <5>2. CASE d # c
          <6>1. pc[d] \in {"draining", "waiting"} /\ fut[d] = "pending" /\ tid[d] # NoTid
                /\ tid'[d] = tid[d] /\ gen'[d] = gen[d]
            BY <5>2, <4>1, <2>3, <2>10 DEF TypeOK, DemuxInv, SentHaveTids
          <6>2. CASE pending[tid[d]] = d
            <7>1. tid[d] # T
              BY <6>2, <2>3, TaskAssumption
            <7> QED BY <7>1, <6>1, <6>2, <2>10 DEF TypeOK
          <6>3. ASSUME NEW e \in Calls, tid[e] = tid[d], gen[e] < gen[d]
                PROVE  tid'[e] = tid'[d] /\ gen'[e] < gen'[d]
            BY <6>1, <6>3, <2>3, <1>1 DEF TypeOK
          <6> QED BY <6>1, <6>2, <6>3 DEF DemuxInv, RegisteredWhileWaiting
        <5> QED BY <5>1, <5>2
      <4> QED BY <4>1 DEF RegisteredWhileWaiting
    <3> QED BY <3>1, <3>2, <3>3, <2>6, <2>7, <2>8, <2>9 DEF DemuxInv
  <2>11. CASE UNCHANGED <<pending, fut>> /\ \E o \in {"valueError", "connError"} : Exit(c, o)
    <3>1. NoLeakedRegistration'
      BY <2>11, <2>2, <2>3, <1>3 DEF Exit, TypeOK, DemuxInv, NoLeakedRegistration
    <3>2. YoungestRegistered'
      <4>1. ASSUME NEW t \in Tids, NEW r \in Calls, pending'[t] # NoTask, tid'[r] = t, r # pending'[t]
            PROVE  gen'[r] < gen'[pending'[t]]
        <5>1. t # T /\ pending[t] # c
          BY <2>11, <4>1, <2>3, <1>3
        <5> QED BY <5>1, <4>1, <2>11, <2>2, <2>3 DEF TypeOK, DemuxInv, YoungestRegistered
      <4> QED BY <4>1 DEF YoungestRegistered
    <3>3. RegisteredWhileWaiting'
      <4>1. ASSUME NEW d \in Calls, pc'[d] \in {"draining", "waiting"}, fut'[d] = "pending"
            PROVE  \/ pending'[tid'[d]] = d
                   \/ \E e \in Calls : tid'[e] = tid'[d] /\ gen'[e] < gen'[d]
        <5>1. d # c /\ pc[d] \in {"draining", "waiting"} /\ fut[d] = "pending" /\ tid[d] # NoTid
              /\ tid'[d] = tid[d] /\ gen'[d] = gen[d]
          BY <4>1, <2>3, <2>11 DEF Exit, TypeOK, DemuxInv, SentHaveTids
        <5>2. ASSUME NEW e \in Calls, tid[e] = tid[d], gen[e] < gen[d]
              PROVE  tid'[e] = tid'[d] /\ gen'[e] < gen'[d]
          BY <5>1, <5>2, <2>3, <1>1 DEF TypeOK
        <5> QED BY <5>1, <5>2, <2>11 DEF DemuxInv, RegisteredWhileWaiting
      <4> QED BY <4>1 DEF RegisteredWhileWaiting
    <3> QED BY <3>1, <3>2, <3>3, <2>6, <2>7, <2>8, <2>9 DEF DemuxInv
  <2> QED BY <2>1, <2>10, <2>11 DEF futVars, T
<1> QED BY <1>5, <1>6

\* A task that moves on before sending, or ends without having sent.
LEMMA DemuxBefore ==
  ASSUME TypeOK, DemuxInv, NEW t \in Tasks, pc[t] \in Before, NEW s \in Before \cup {"done"},
         pc' = [pc EXCEPT ![t] = s], UNCHANGED <<tidVars, pending, via, futVars>>
  PROVE  DemuxInv'
<1>1. \A u \in Tids : pending[u] # NoTask => pending[u] \in Calls /\ pending[u] # t
  BY DEF TypeOK, DemuxInv, NoLeakedRegistration, Before
<1> QED BY <1>1 DEF tidVars, futVars, TypeOK, DemuxInv, NothingBeforeSend, TidsInOrder,
        YoungestRegistered, SentHaveTids, NoLeakedRegistration, CrossTalkOnlyAfterWrap,
        RegisteredWhileWaiting, Before

\* A task that goes on with a connection.
LEMMA DemuxProceed ==
  ASSUME TypeOK, DemuxInv, NEW t \in Tasks, NEW k \in Conns \cup {NoConn},
         NEW alive \in BOOLEAN, pc[t] \in Before, Proceed(t, k, alive)
  PROVE  DemuxInv'
  BY DemuxSend, DemuxBefore DEF Proceed, Exit

\* The body of the connection lock keeps the demultiplexing invariant.
LEMMA DemuxLocked ==
  ASSUME TypeOK, DemuxInv, NEW t \in Tasks, pc[t] \in Before, Locked(t)
  PROVE  DemuxInv'
<1>1. CASE Proceed(t, stream, conn[stream] # "lost")
  BY <1>1, DemuxProceed DEF TypeOK
<1>2. CASE UNCHANGED <<tidVars, pending, via, futVars>> /\ Exit(t, "closed")
  BY <1>2, DemuxBefore DEF Exit
<1>3. CASE UNCHANGED <<tidVars, pending, via, futVars>> /\ pc' = [pc EXCEPT ![t] = "dialing"]
  <2>1. "dialing" \in Before \cup {"done"}
    BY DEF Before
  <2> QED BY <1>3, <2>1, DemuxBefore
<1> QED BY <1>1, <1>2, <1>3 DEF Locked

\* So does _ensure_connected as a whole.
LEMMA DemuxEnsureConnected ==
  ASSUME TypeOK, DemuxInv, NEW t \in Tasks, pc[t] \in Before, EnsureConnected(t)
  PROVE  DemuxInv'
<1>1. CASE Locked(t)
  BY <1>1, DemuxLocked
<1>2. CASE ~Locked(t)
  <2>1. "lockWait" \in Before \cup {"done"}
    BY DEF Before
  <2> QED BY <1>2, <2>1, DemuxBefore DEF EnsureConnected
<1> QED BY <1>1, <1>2

\* A call that leaves through its finally clause.  The entry it pops may be a
\* younger call's; that call then has an elder with its TID.
LEMMA DemuxPop ==
  ASSUME TypeOK, DemuxInv, NEW c \in Calls, pc[c] \in After,
         pc' = [pc EXCEPT ![c] = "done"], PopTid(c),
         UNCHANGED <<tidVars, via, futVars>>
  PROVE  DemuxInv'
<1> USE DEF After
<1>1. tid[c] \in Tids
  BY DEF DemuxInv, SentHaveTids, TypeOK
<1>2. pending' = [pending EXCEPT ![tid[c]] = NoTask] /\ UNCHANGED <<tid, gen, wraps, nextTid, via, fut, reply>>
  BY DEF PopTid, tidVars, futVars
<1>3. NothingBeforeSend' /\ TidsInOrder' /\ SentHaveTids' /\ CrossTalkOnlyAfterWrap'
  BY <1>2 DEF TypeOK, DemuxInv, NothingBeforeSend, TidsInOrder, SentHaveTids, CrossTalkOnlyAfterWrap
<1>4. NoLeakedRegistration' /\ YoungestRegistered'
  BY <1>1, <1>2 DEF TypeOK, DemuxInv, NoLeakedRegistration, YoungestRegistered
<1>5. ASSUME NEW d \in Calls, pc'[d] \in {"draining", "waiting"}, fut'[d] = "pending"
      PROVE  \/ pending'[tid'[d]] = d
             \/ \E e \in Calls : tid'[e] = tid'[d] /\ gen'[e] < gen'[d]
  <2>1. d # c /\ pc[d] \in {"draining", "waiting"} /\ fut[d] = "pending" /\ tid[d] \in Tids
    BY <1>2, <1>5 DEF TypeOK, DemuxInv, SentHaveTids
  <2>2. CASE pending[tid[d]] = d /\ tid[d] = tid[c]
    <3>1. gen[c] < gen[d]
      BY <2>1, <2>2, TaskAssumption DEF DemuxInv, YoungestRegistered
    <3> QED BY <2>2, <3>1, <1>2
  <2>3. CASE pending[tid[d]] = d /\ tid[d] # tid[c]
    BY <2>1, <2>3, <1>2 DEF TypeOK
  <2>4. CASE \E e \in Calls : tid[e] = tid[d] /\ gen[e] < gen[d]
    BY <2>4, <1>2
  <2> QED BY <2>1, <2>2, <2>3, <2>4 DEF DemuxInv, RegisteredWhileWaiting
<1> QED BY <1>3, <1>4, <1>5 DEF DemuxInv, RegisteredWhileWaiting

\* A future that stops being pending without an answer.
LEMMA DemuxFutEnds ==
  ASSUME TypeOK, DemuxInv, NEW c \in Calls, NEW f \in {"timeout", "cancelled"},
         fut[c] = "pending", fut' = [fut EXCEPT ![c] = f],
         UNCHANGED <<pc, tidVars, pending, via, reply>>
  PROVE  DemuxInv'
  BY DEF tidVars, TypeOK, DemuxInv, NothingBeforeSend, TidsInOrder,
        YoungestRegistered, SentHaveTids, NoLeakedRegistration, CrossTalkOnlyAfterWrap,
        RegisteredWhileWaiting

\* A teardown fails the registered calls, or changes nothing of them yet.
LEMMA DemuxTeardown ==
  ASSUME TypeOK, DemuxInv, UNCHANGED callVars,
         \/ UNCHANGED <<fut, pending>>
         \/ /\ fut' = [c \in Calls |-> IF Registered(c) /\ fut[c] = "pending"
                                       THEN "lost" ELSE fut[c]]
            /\ pending' = [t \in Tids |-> NoTask]
  PROVE  DemuxInv'
<1> USE DEF callVars, tidVars, lockVars
<1>1. CASE UNCHANGED <<fut, pending>>
  BY <1>1 DEF DemuxInv, NothingBeforeSend, TidsInOrder,
        YoungestRegistered, SentHaveTids, NoLeakedRegistration, CrossTalkOnlyAfterWrap,
        RegisteredWhileWaiting
<1>2. CASE /\ fut' = [c \in Calls |-> IF Registered(c) /\ fut[c] = "pending"
                                      THEN "lost" ELSE fut[c]]
           /\ pending' = [t \in Tids |-> NoTask]
  <2>1. \A c \in Calls : /\ fut'[c] = "result" => fut[c] = "result"
                         /\ fut[c] = "none" => fut'[c] = "none"
                         /\ fut'[c] = "pending" => fut[c] = "pending" /\ ~Registered(c)
    BY <1>2 DEF TypeOK
  <2>2. NothingBeforeSend' /\ TidsInOrder' /\ SentHaveTids' /\ CrossTalkOnlyAfterWrap'
    BY <2>1 DEF DemuxInv, NothingBeforeSend, TidsInOrder, SentHaveTids, CrossTalkOnlyAfterWrap
  <2>3. NoLeakedRegistration' /\ YoungestRegistered'
    BY <1>2 DEF NoLeakedRegistration, YoungestRegistered
  <2>4. RegisteredWhileWaiting'
    <3>1. \A c \in Calls : pc[c] \in {"draining", "waiting"} => tid[c] \in Tids
      BY DEF DemuxInv, SentHaveTids, TypeOK
    <3> QED BY <2>1, <3>1 DEF DemuxInv, RegisteredWhileWaiting, Registered
  <2> QED BY <2>2, <2>3, <2>4 DEF DemuxInv
<1> QED BY <1>1, <1>2

\* A response resolves the registered future: its own, or that of a call that
\* got the TID in a later turn.
LEMMA DemuxFrame ==
  ASSUME TypeOK, DemuxInv, NEW k \in Conns, NEW r \in Calls, RLFrame(k, r)
  PROVE  DemuxInv'
<1> DEFINE d == pending[tid[r]]
<1>1. tid[r] \in Tids
  <2>1. via[r] # NoConn
    BY DEF RLFrame, NoConn, Conns
  <2> QED BY <2>1 DEF DemuxInv, SentHaveTids, TypeOK
<1>2. d \in Calls /\ fut[d] = "pending" /\ tid[d] = tid[r]
  BY <1>1 DEF RLFrame, TypeOK, DemuxInv, NoLeakedRegistration
<1>3. r = d \/ gen[r] < gen[d]
  BY <1>1, <1>2, TaskAssumption DEF DemuxInv, YoungestRegistered
<1>4. /\ fut' = [fut EXCEPT ![d] = "result"] /\ reply' = [reply EXCEPT ![d] = r]
      /\ UNCHANGED <<pc, tidVars, pending, via>>
  BY DEF RLFrame
<1> HIDE DEF d
<1>5. SentHaveTids' /\ CrossTalkOnlyAfterWrap'
  <2>1. NoTid \notin Tids
    BY DEF NoTid, Tids
  <2> QED BY <1>1, <1>2, <1>3, <1>4, <2>1 DEF tidVars, TypeOK, DemuxInv, SentHaveTids, CrossTalkOnlyAfterWrap
<1>6. NothingBeforeSend' /\ TidsInOrder' /\ YoungestRegistered' /\ NoLeakedRegistration' /\ RegisteredWhileWaiting'
  BY <1>2, <1>4 DEF tidVars, TypeOK, DemuxInv, NothingBeforeSend, TidsInOrder, YoungestRegistered,
     NoLeakedRegistration, RegisteredWhileWaiting
<1> QED BY <1>5, <1>6 DEF DemuxInv

\* A new transport satisfies the demultiplexing invariant.
LEMMA DemuxInit == Init => DemuxInv
  BY DEF Init, DemuxInv, NothingBeforeSend, TidsInOrder, YoungestRegistered, SentHaveTids,
     NoLeakedRegistration, CrossTalkOnlyAfterWrap, RegisteredWhileWaiting

\* Every step of calls, teardowns, read loops and the network preserves it.
LEMMA DemuxStep == TypeOK /\ DemuxInv /\ [Next]_vars => DemuxInv'
<1> SUFFICES ASSUME TypeOK, DemuxInv, [Next]_vars PROVE DemuxInv'
  OBVIOUS
<1>1. ASSUME NEW c \in Calls, CallStep(c) PROVE DemuxInv'
  <2>1. CASE QueueSerial(c)
    BY <2>1, DemuxBefore DEF QueueSerial, Before
  <2>2. CASE SerialAcquire(c)
    BY <2>2, DemuxEnsureConnected DEF SerialAcquire, Before
  <2>3. CASE DrainOk(c)
    BY <2>3 DEF DrainOk, tidVars, futVars, TypeOK, DemuxInv, NothingBeforeSend, TidsInOrder,
        YoungestRegistered, SentHaveTids, NoLeakedRegistration, CrossTalkOnlyAfterWrap,
        RegisteredWhileWaiting
  <2>4. CASE DrainFail(c)
    BY <2>4, DemuxPop DEF DrainFail, Exit, After
  <2>5. CASE Timeout(c)
    BY <2>5, DemuxFutEnds DEF Timeout
  <2>6. CASE Wake(c)
    BY <2>6, DemuxPop DEF Wake, Exit, After
  <2>7. CASE CallerCancel(c)
    <3>1. CASE pc[c] \in Before
      BY <3>1, <2>7, DemuxBefore DEF CallerCancel, Exit, Before, futVars
    <3>2. CASE pc[c] = "draining"
      BY <3>2, <2>7, DemuxPop DEF CallerCancel, Exit, After, futVars
    <3>3. CASE pc[c] = "waiting"
      BY <3>3, <2>7, DemuxFutEnds DEF CallerCancel
    <3> QED BY <2>7, <3>1, <3>2, <3>3 DEF CallerCancel, Before
  <2> QED BY <1>1, <2>1, <2>2, <2>3, <2>4, <2>5, <2>6, <2>7 DEF CallStep
<1>2. ASSUME NEW t \in Tasks, TaskStep(t) PROVE DemuxInv'
  <2>1. CASE Reject(t) \/ DialFail(t)
    BY <2>1, DemuxBefore DEF Reject, DialFail, Exit, Before
  <2>2. CASE Enter(t)
    BY <2>2, DemuxEnsureConnected DEF Enter, Before
  <2>3. CASE ConnAcquire(t)
    BY <2>3, DemuxLocked DEF ConnAcquire, Before
  <2>4. ASSUME NEW k \in Conns, DialOk(t, k) PROVE DemuxInv'
    BY <2>4, DemuxProceed DEF DialOk, Before
  <2> QED BY <1>2, <2>1, <2>2, <2>3, <2>4 DEF TaskStep
<1>3. ASSUME NEW a \in Actors, TeardownStep(a) PROVE DemuxInv'
  BY <1>3, DemuxTeardown DEF TeardownStep, Close, WaitClosedDone, AwaitTaskDone, Teardown,
     ReapReader, FailPending
<1>4. ASSUME NEW k \in Conns, ReadLoopStep(k) PROVE DemuxInv'
  <2>1. ASSUME NEW r \in Calls, RLFrame(k, r) PROVE DemuxInv'
    BY <2>1, DemuxFrame
  <2>2. CASE RLStart(k) \/ RLEnd(k) \/ RLCancelled(k)
    BY <2>2, DemuxTeardown DEF RLStart, RLEnd, RLCancelled, Teardown, ReapReader, FailPending
  <2> QED BY <1>4, <2>1, <2>2 DEF ReadLoopStep
<1>5. ASSUME NEW k \in Conns, NetworkStep(k) PROVE DemuxInv'
  BY <1>5, DemuxTeardown DEF NetworkStep, PeerEof, Reset, CloseDone, connOnly
<1>6. CASE Terminated \/ UNCHANGED vars
  BY <1>6, DemuxTeardown DEF Terminated, vars, callVars, futVars
<1> QED BY <1>1, <1>2, <1>3, <1>4, <1>5, <1>6 DEF Next

\* Every future is resolved with its own response, or with that of a request a
\* whole turn of the TID space older.
THEOREM Demultiplexing == Spec => []CrossTalkOnlyAfterWrap
<1>2. DemuxInv => CrossTalkOnlyAfterWrap
  BY DEF DemuxInv
<1> QED BY <1>2, DemuxInit, DemuxStep, TypeCorrect, PTL DEF Spec

\* A call that still waits can still be answered, unless a full turn of the TID
\* space has passed.
THEOREM WaitersStayRegistered == Spec => []RegisteredWhileWaiting
<1>2. DemuxInv => RegisteredWhileWaiting
  BY DEF DemuxInv
<1> QED BY <1>2, DemuxInit, DemuxStep, TypeCorrect, PTL DEF Spec

\* No call leaves an entry behind in _pending, however it ends.
THEOREM RegistrationsEnd == Spec => []NoLeakedRegistration
<1>2. DemuxInv => NoLeakedRegistration
  BY DEF DemuxInv
<1> QED BY <1>2, DemuxInit, DemuxStep, TypeCorrect, PTL DEF Spec

-----------------------------------------------------------------------------
(* Serialized mode *)

\* A task inside _ensure_connected keeps its hands off other tasks.
LEMMA OnlyOwnPc ==
  ASSUME NEW t \in Tasks, TypeOK,
         \/ EnsureConnected(t) \/ Locked(t)
         \/ \E k \in Conns \cup {NoConn}, b \in BOOLEAN : Proceed(t, k, b)
  PROVE  \E s \in PcStates : pc' = [pc EXCEPT ![t] = s]
<1>1. ASSUME NEW k, NEW b, Proceed(t, k, b) PROVE \E s \in PcStates : pc' = [pc EXCEPT ![t] = s]
  BY <1>1 DEF Proceed, Send, Exit, PcStates
<1>2. ASSUME Locked(t) PROVE \E s \in PcStates : pc' = [pc EXCEPT ![t] = s]
  BY <1>1, <1>2 DEF Locked, Exit, PcStates
<1> QED BY <1>1, <1>2 DEF EnsureConnected, PcStates

\* A step of one task that then holds the lock, or has left.
LEMMA SerialHeld ==
  ASSUME TypeOK, SerialInv, NEW t \in Tasks, NEW s \in PcStates, pc' = [pc EXCEPT ![t] = s],
         HoldSerial(t), t \in Calls /\ ~Pipeline => serialLock \in {NoTask, t}
  PROVE  SerialInv'
  BY TaskAssumption DEF SerialInv, Inside, HoldSerial, TypeOK

\* Every step keeps the serial lock with the one call that is inside.
LEMMA SerialStep == TypeOK /\ SerialInv /\ [Next]_vars => SerialInv'
<1> SUFFICES ASSUME TypeOK, SerialInv, [Next]_vars PROVE SerialInv'
  OBVIOUS
<1> USE DEF lockVars, callVars, connOnly
<1>1. ASSUME NEW c \in Calls, CallStep(c) PROVE SerialInv'
  <2>1. CASE QueueSerial(c)
    BY <2>1 DEF QueueSerial, TypeOK, SerialInv, Inside
  <2>2. CASE SerialAcquire(c)
    BY <2>2, OnlyOwnPc, SerialHeld DEF SerialAcquire
  <2>3. CASE DrainOk(c)
    BY <2>3 DEF DrainOk, TypeOK, SerialInv, Inside
  <2>4. CASE DrainFail(c) \/ Wake(c)
    BY <2>4, SerialHeld DEF DrainFail, Wake, Exit, PcStates, SerialInv, Inside
  <2>5. CASE Timeout(c)
    BY <2>5 DEF Timeout, SerialInv, Inside
  <2>6. CASE CallerCancel(c)
    <3>1. CASE pc[c] = "serialWait"
      BY <3>1, <2>6 DEF CallerCancel, Exit, TypeOK, SerialInv, Inside
    <3>2. CASE pc[c] \in {"lockWait", "dialing", "draining"}
      BY <3>2, <2>6, SerialHeld DEF CallerCancel, Exit, PcStates, SerialInv, Inside
    <3>3. CASE pc[c] = "waiting"
      BY <3>3, <2>6 DEF CallerCancel, SerialInv, Inside
    <3> QED BY <2>6, <3>1, <3>2, <3>3 DEF CallerCancel
  <2> QED BY <1>1, <2>1, <2>2, <2>3, <2>4, <2>5, <2>6 DEF CallStep
<1>2. ASSUME NEW t \in Tasks, TaskStep(t) PROVE SerialInv'
  <2>1. CASE Reject(t)
    BY <2>1 DEF Reject, Exit, TypeOK, SerialInv, Inside
  <2>2. CASE Enter(t)
    BY <2>2, OnlyOwnPc, SerialHeld, TaskAssumption DEF Enter, SerialFree
  <2>3. CASE ConnAcquire(t)
    BY <2>3, OnlyOwnPc, SerialHeld DEF ConnAcquire, SerialInv, Inside
  <2>4. CASE DialFail(t)
    BY <2>4, SerialHeld DEF DialFail, Exit, PcStates, SerialInv, Inside
  <2>5. ASSUME NEW k \in Conns, DialOk(t, k) PROVE SerialInv'
    BY <2>5, OnlyOwnPc, SerialHeld DEF DialOk, SerialInv, Inside
  <2> QED BY <1>2, <2>1, <2>2, <2>3, <2>4, <2>5 DEF TaskStep
<1>3. CASE UNCHANGED <<pc, serialLock>>
  BY <1>3 DEF SerialInv, Inside
<1>4. ASSUME NEW a \in Actors, TeardownStep(a) PROVE UNCHANGED <<pc, serialLock>>
  BY <1>4 DEF TeardownStep, Close, WaitClosedDone, AwaitTaskDone
<1>5. ASSUME NEW k \in Conns, ReadLoopStep(k) \/ NetworkStep(k) PROVE UNCHANGED <<pc, serialLock>>
  BY <1>5 DEF ReadLoopStep, RLStart, RLFrame, RLEnd, RLCancelled, NetworkStep, PeerEof, Reset, CloseDone
<1>6. ASSUME Terminated \/ UNCHANGED vars PROVE UNCHANGED <<pc, serialLock>>
  BY <1>6 DEF Terminated, vars
<1> QED BY <1>1, <1>2, <1>3, <1>4, <1>5, <1>6 DEF Next

\* With pipeline=False no two calls are ever inside the serialized section.
THEOREM SerialMutex == Spec => []SerialExclusive
<1>1. Init => SerialInv
  BY DEF Init, SerialInv, Inside
<1>2. SerialInv => SerialExclusive
  BY DEF SerialInv, SerialExclusive
<1> QED BY <1>1, <1>2, SerialStep, TypeCorrect, PTL DEF Spec

-----------------------------------------------------------------------------
(* Connections, read loops and teardowns *)

\* The second half of a teardown: a read loop that cancels another read task
\* cancels a younger one.
LEMMA LifecycleReap ==
  ASSUME TypeOK, LifecycleInv, NEW a \in Actors, tpc[a] # "idle" \/ a \in Closers,
         tpc[a] \notin {"init", "doomedInit"},
         ReapReader(a) \/ FailPending(a),
         \/ UNCHANGED <<connected, stream, conn>>
         \/ connected' = FALSE /\ stream' = NoConn /\ UNCHANGED conn
  PROVE  LifecycleInv'
<1>1. NoConn \notin Conns /\ Conns \subseteq Int
  BY MaxConnsAssumption DEF NoConn, Conns
<1>2. CASE FailPending(a)
  BY <1>1, <1>2, TaskAssumption DEF FailPending, TypeOK, LifecycleInv, StreamConsistent, AwaitsYounger
<1>3. CASE ~FailPending(a)
  <2>1. /\ readTask \in Conns /\ readTask # a
        /\ tpc' = [tpc EXCEPT ![readTask] = Cancelled(@), ![a] = "awaitTask"]
        /\ waitOn' = [waitOn EXCEPT ![a] = readTask] /\ UNCHANGED readTask
    BY <1>3 DEF ReapReader, TypeOK
  <2>2. /\ a \in Conns => readTask > a
    BY <1>1, <2>1, TaskAssumption DEF LifecycleInv
  <2>3. \A k \in Conns : k # a => /\ tpc'[k] = "awaitTask" <=> tpc[k] = "awaitTask"
                                  /\ tpc'[k] # "idle" <=> tpc[k] # "idle"
                                  /\ tpc'[k] \in {"init", "doomedInit"} <=> tpc[k] \in {"init", "doomedInit"}
                                  /\ waitOn'[k] = waitOn[k]
    BY <2>1 DEF Cancelled, TypeOK
  <2>4. tpc'[a] = "awaitTask" /\ waitOn'[a] = readTask
    BY <2>1 DEF TypeOK
  <2>5. StreamConsistent'
    BY <2>3, <2>4 DEF LifecycleInv, StreamConsistent
  <2>6. AwaitsYounger'
    BY <2>2, <2>3, <2>4 DEF LifecycleInv, AwaitsYounger
  <2> QED BY <1>1, <2>1, <2>3, <2>4, <2>5, <2>6, TaskAssumption DEF LifecycleInv
<1> QED BY <1>2, <1>3

\* The first half: the current stream is given up.
LEMMA LifecycleTeardown ==
  ASSUME TypeOK, LifecycleInv, NEW a \in Actors, tpc[a] # "idle" \/ a \in Closers,
         tpc[a] \notin {"init", "doomedInit"}, Teardown(a)
  PROVE  LifecycleInv'
<1>1. NoConn \notin Conns /\ Conns \subseteq Int
  BY MaxConnsAssumption DEF NoConn, Conns
<1>2. CASE stream # NoConn /\ conn[stream] # "lost"
  BY <1>1, <1>2, TaskAssumption DEF Teardown, TypeOK, LifecycleInv, StreamConsistent, AwaitsYounger
<1>3. CASE ~(stream # NoConn /\ conn[stream] # "lost")
  BY <1>3, LifecycleReap DEF Teardown
<1> QED BY <1>2, <1>3

\* Every step preserves the lifecycle invariant; only DialOk and _teardown move it.
LEMMA LifecycleStep == TypeOK /\ LifecycleInv /\ [Next]_vars => LifecycleInv'
<1> SUFFICES ASSUME TypeOK, LifecycleInv, [Next]_vars PROVE LifecycleInv'
  OBVIOUS
<1> DEFINE lifeVars == <<sharedVars, conn, tpc, waitOn>>
<1> USE DEF sharedVars, callVars, connOnly
<1>0. NoConn \notin Conns /\ Conns \subseteq Int
  BY MaxConnsAssumption DEF NoConn, Conns
<1>1. ASSUME UNCHANGED lifeVars PROVE LifecycleInv'
  BY <1>1 DEF LifecycleInv, StreamConsistent, AwaitsYounger
<1>2. ASSUME NEW c \in Calls, CallStep(c) PROVE UNCHANGED lifeVars
  BY <1>2 DEF CallStep, QueueSerial, SerialAcquire, DrainOk, DrainFail, Timeout, Wake, CallerCancel
<1>3. ASSUME NEW t \in Tasks, TaskStep(t) PROVE LifecycleInv'
  <2>1. CASE Reject(t) \/ Enter(t) \/ ConnAcquire(t) \/ DialFail(t)
    <3>1. UNCHANGED lifeVars
      BY <2>1 DEF Reject, Enter, ConnAcquire, DialFail
    <3> QED BY <3>1, <1>1
  <2>2. ASSUME NEW k \in Conns, DialOk(t, k) PROVE LifecycleInv'
    <3>1. \A j \in Conns : tpc[j] # "idle" => j < k
      BY <1>0, <2>2 DEF DialOk, LifecycleInv
    <3>2. /\ stream' = k /\ connected' = TRUE /\ readTask' = k
          /\ conn' = [conn EXCEPT ![k] = "open"] /\ tpc' = [tpc EXCEPT ![k] = "init"]
          /\ UNCHANGED waitOn
          /\ \A j \in Conns : tpc[j] \notin {"init", "doomedInit"}
          /\ \A j \in Conns : j < k => conn[j] # "unused"
      BY <2>2 DEF DialOk
    <3>3. StreamConsistent' /\ AwaitsYounger'
      BY <1>0, <3>2 DEF TypeOK, LifecycleInv, StreamConsistent, AwaitsYounger
    <3> QED BY <1>0, <3>1, <3>2, <3>3 DEF TypeOK, LifecycleInv
  <2> QED BY <1>3, <2>1, <2>2 DEF TaskStep
<1>4. ASSUME NEW a \in Actors, TeardownStep(a) PROVE LifecycleInv'
  <2>1. CASE Close(a)
    BY <2>1, LifecycleTeardown DEF Close
  <2>2. CASE WaitClosedDone(a) \/ AwaitTaskDone(a)
    BY <2>2, LifecycleReap DEF WaitClosedDone, AwaitTaskDone
  <2> QED BY <1>4, <2>1, <2>2 DEF TeardownStep
<1>5. ASSUME NEW k \in Conns, ReadLoopStep(k) PROVE LifecycleInv'
  <2>1. CASE RLStart(k)
    BY <1>0, <2>1 DEF RLStart, TypeOK, LifecycleInv, StreamConsistent, AwaitsYounger
  <2>2. ASSUME NEW r \in Calls, RLFrame(k, r) PROVE LifecycleInv'
    BY <1>1, <2>2 DEF RLFrame
  <2>3. CASE RLEnd(k)
    BY <2>3, LifecycleTeardown DEF RLEnd
  <2>4. CASE tpc[k] = "interrupted" /\ RLCancelled(k)
    BY <2>4, LifecycleTeardown DEF RLCancelled
  <2>5. CASE tpc[k] # "interrupted" /\ RLCancelled(k)
    BY <1>0, <2>5 DEF RLCancelled, TypeOK, LifecycleInv, StreamConsistent, AwaitsYounger
  <2> QED BY <1>5, <2>1, <2>2, <2>3, <2>4, <2>5 DEF ReadLoopStep
<1>6. ASSUME NEW k \in Conns, NetworkStep(k) PROVE LifecycleInv'
  BY <1>0, <1>6 DEF NetworkStep, PeerEof, Reset, CloseDone, TypeOK, LifecycleInv,
     StreamConsistent, AwaitsYounger
<1>7. ASSUME Terminated \/ UNCHANGED vars PROVE UNCHANGED lifeVars
  BY <1>7 DEF Terminated, vars
<1> QED BY <1>1, <1>2, <1>3, <1>4, <1>5, <1>6, <1>7 DEF Next

\* A new transport satisfies the lifecycle invariant.
LEMMA LifecycleInit == Init => LifecycleInv
  BY DEF Init, LifecycleInv, StreamConsistent, AwaitsYounger

\* A connected transport has a stream it has not closed: the send path's
\* "connection unavailable" branch is dead code.
THEOREM StreamIsConsistent == Spec => []StreamConsistent
<1>1. LifecycleInv => StreamConsistent
  BY DEF LifecycleInv
<1> QED BY <1>1, LifecycleInit, LifecycleStep, TypeCorrect, PTL DEF Spec

\* Teardowns never wait for each other in a circle.
THEOREM NoAwaitCycle == Spec => []AwaitsYounger
<1>1. LifecycleInv => AwaitsYounger
  BY DEF LifecycleInv
<1> QED BY <1>1, LifecycleInit, LifecycleStep, TypeCorrect, PTL DEF Spec

-----------------------------------------------------------------------------
(* Futures *)

\* What one step may do to the futures.
ResolvedStays == \A c \in Calls : fut[c] \notin {"none", "pending"} =>
                   fut'[c] = fut[c] /\ reply'[c] = reply[c]

\* Only a call that has no future yet creates one.
LEMMA ProceedResolves ==
  ASSUME TypeOK, DemuxInv, NEW t \in Tasks, NEW k \in Conns \cup {NoConn},
         NEW alive \in BOOLEAN, pc[t] \in Before, Proceed(t, k, alive)
  PROVE  ResolvedStays
<1>1. CASE t \in Calls
  <2>1. fut[t] = "none"
    BY <1>1 DEF DemuxInv, NothingBeforeSend, Before
  <2>2. UNCHANGED futVars \/ (fut' = [fut EXCEPT ![t] = "pending"] /\ UNCHANGED reply)
    BY <1>1 DEF Proceed, Send
  <2> QED BY <2>1, <2>2 DEF ResolvedStays, futVars, TypeOK
<1>2. CASE t \notin Calls
  BY <1>2 DEF Proceed, ResolvedStays, futVars
<1> QED BY <1>1, <1>2

\* No step touches a future that is already resolved.
LEMMA ResolveStep == TypeOK /\ DemuxInv /\ Next => ResolvedStays
<1> SUFFICES ASSUME TypeOK, DemuxInv, Next PROVE ResolvedStays
  OBVIOUS
<1> USE DEF futVars, callVars, connOnly
<1>1. ASSUME UNCHANGED futVars PROVE ResolvedStays
  BY <1>1 DEF ResolvedStays
<1>2. ASSUME NEW t \in Tasks, pc[t] \in Before, EnsureConnected(t) \/ Locked(t)
      PROVE  ResolvedStays
  <2>1. CASE Proceed(t, stream, conn[stream] # "lost")
    BY <1>2, <2>1, ProceedResolves DEF TypeOK
  <2>2. CASE ~Proceed(t, stream, conn[stream] # "lost")
    BY <1>1, <1>2, <2>2 DEF EnsureConnected, Locked
  <2> QED BY <2>1, <2>2
<1>3. ASSUME NEW c \in Calls, CallStep(c) PROVE ResolvedStays
  <2>1. CASE SerialAcquire(c)
    BY <2>1, <1>2 DEF SerialAcquire, Before
  <2>2. CASE QueueSerial(c) \/ DrainOk(c) \/ DrainFail(c) \/ Wake(c)
    BY <2>2, <1>1 DEF QueueSerial, DrainOk, DrainFail, Wake
  <2>3. CASE Timeout(c) \/ CallerCancel(c)
    BY <2>3 DEF Timeout, CallerCancel, ResolvedStays, TypeOK
  <2> QED BY <1>3, <2>1, <2>2, <2>3 DEF CallStep
<1>4. ASSUME NEW t \in Tasks, TaskStep(t) PROVE ResolvedStays
  <2>1. CASE Reject(t) \/ DialFail(t)
    BY <2>1, <1>1 DEF Reject, DialFail
  <2>2. CASE Enter(t) \/ ConnAcquire(t)
    BY <2>2, <1>2 DEF Enter, ConnAcquire, Before
  <2>3. ASSUME NEW k \in Conns, DialOk(t, k) PROVE ResolvedStays
    BY <2>3, ProceedResolves DEF DialOk, Before
  <2> QED BY <1>4, <2>1, <2>2, <2>3 DEF TaskStep
<1>5. ASSUME NEW a \in Actors, TeardownStep(a) PROVE ResolvedStays
  BY <1>5 DEF TeardownStep, Close, WaitClosedDone, AwaitTaskDone, Teardown, ReapReader,
     FailPending, ResolvedStays
<1>6. ASSUME NEW k \in Conns, ReadLoopStep(k) PROVE ResolvedStays
  <2>1. ASSUME NEW r \in Calls, RLFrame(k, r) PROVE ResolvedStays
    BY <2>1 DEF RLFrame, ResolvedStays, TypeOK
  <2>2. CASE RLStart(k) \/ RLEnd(k) \/ RLCancelled(k)
    BY <2>2 DEF RLStart, RLEnd, RLCancelled, Teardown, ReapReader, FailPending, ResolvedStays
  <2> QED BY <1>6, <2>1, <2>2 DEF ReadLoopStep
<1>7. ASSUME NEW k \in Conns, NetworkStep(k) PROVE ResolvedStays
  BY <1>7, <1>1 DEF NetworkStep, PeerEof, Reset, CloseDone
<1>8. CASE Terminated
  BY <1>8, <1>1 DEF Terminated, vars
<1> QED BY <1>3, <1>4, <1>5, <1>6, <1>7, <1>8 DEF Next

\* A resolved future is final, so set_result and set_exception never raise
\* InvalidStateError.
THEOREM ResolveOnce == Spec => FuturesResolveOnce
<1>2. TypeOK /\ DemuxInv /\ [Next]_vars => [ResolvedStays]_vars
  BY ResolveStep
<1> QED BY <1>2, DemuxInit, DemuxStep, TypeCorrect, PTL DEF Spec, FuturesResolveOnce, ResolvedStays

-----------------------------------------------------------------------------
(* Prompt closes: no dial ends while a teardown is suspended *)

\* Only the holder of the connection lock dials, and only while disconnected.
DialHolds == \A t \in Tasks : pc[t] = "dialing" => connLock = t /\ ~connected

\* A connection that can still bring data is the stream.
OneOpen == \A k \in Conns : conn[k] \in {"open", "eof"} => stream = k

\* A call with a future has sent on a connection that was opened.
SentOnOpened == \A c \in Calls : fut[c] # "none" => via[c] \in Conns /\ conn[via[c]] # "unused"

DialInv == DialHolds /\ OneOpen /\ SentOnOpened

\* While connected, the stream's reader runs and nobody is inside _teardown.
ReaderInv ==
  connected => /\ tpc[stream] \in {"init", "reading"}
               /\ \A a \in Actors : tpc[a] \notin {"waitClosed", "awaitTask"}

PromptInv == ReaderInv /\ ConnErrorMeansConnLost

\* The steps of tasks on their way to a connection, or past it, that start no
\* dial.
LEMMA HolderKept ==
  ASSUME TypeOK, DialHolds, NEW t \in Tasks, NEW s \in PcStates \ {"dialing"},
         pc' = [pc EXCEPT ![t] = s], UNCHANGED connLock, UNCHANGED connected
  PROVE  DialHolds'
  BY DEF TypeOK, DialHolds

\* The dialling task is the only one: once it stops, none dials.
LEMMA HolderLeaves ==
  ASSUME TypeOK, DialHolds, NEW t \in Tasks, pc[t] = "dialing", NEW s \in PcStates \ {"dialing"},
         pc' = [pc EXCEPT ![t] = s]
  PROVE  \A u \in Tasks : pc'[u] # "dialing"
  BY DEF TypeOK, DialHolds

\* A task inside the connection lock starts to dial only when nobody does.
LEMMA HolderLocked ==
  ASSUME TypeOK, DialHolds, NEW t \in Tasks, UNCHANGED connected,
         \/ EnsureConnected(t)
         \/ Locked(t) /\ connLock = NoTask
  PROVE  DialHolds'
<1>1. CASE \E s \in PcStates \ {"dialing"} : pc' = [pc EXCEPT ![t] = s] /\ UNCHANGED connLock
  BY <1>1, HolderKept
<1>2. CASE connLock = NoTask /\ connLock' = t /\ ~connected /\ pc' = [pc EXCEPT ![t] = "dialing"]
  BY <1>2, TaskAssumption DEF TypeOK, DialHolds
<1>3. ASSUME NEW k, NEW alive, Proceed(t, k, alive)
      PROVE  \E s \in PcStates \ {"dialing"} : pc' = [pc EXCEPT ![t] = s]
  BY <1>3 DEF Proceed, Send, Exit, PcStates
<1>4. ASSUME Locked(t), connected \/ connLock = NoTask PROVE DialHolds'
  <2>1. CASE connected
    BY <1>1, <1>3, <1>4, <2>1 DEF Locked
  <2>2. CASE ~connected
    BY <1>1, <1>2, <1>4, <2>2 DEF Locked, Exit, PcStates
  <2> QED BY <2>1, <2>2
<1>5. "lockWait" \in PcStates \ {"dialing"}
  BY DEF PcStates
<1> QED BY <1>1, <1>4, <1>5 DEF EnsureConnected, ConnLockFree

\* Every step leaves the dial to the holder of the lock.
LEMMA HolderStep == TypeOK /\ DialHolds /\ [Next]_vars => DialHolds'
<1> SUFFICES ASSUME TypeOK, DialHolds, [Next]_vars PROVE DialHolds'
  OBVIOUS
<1> USE DEF sharedVars, lockVars, callVars, connOnly
<1>0. "done" \in PcStates \ {"dialing"} /\ "waiting" \in PcStates \ {"dialing"}
      /\ "serialWait" \in PcStates \ {"dialing"}
  BY DEF PcStates
<1>1. ASSUME NEW c \in Calls, CallStep(c) PROVE DialHolds'
  <2>1. CASE SerialAcquire(c)
    <3>1. EnsureConnected(c) /\ UNCHANGED connected
      BY <2>1 DEF SerialAcquire
    <3> QED BY <3>1, HolderLocked
  <2>2. CASE CallerCancel(c) /\ pc[c] = "dialing"
    <3>1. pc' = [pc EXCEPT ![c] = "done"]
      BY <2>2 DEF CallerCancel, Exit
    <3> QED BY <1>0, <2>2, <3>1, HolderLeaves DEF DialHolds
  <2>3. CASE Timeout(c) \/ (CallerCancel(c) /\ pc[c] = "waiting")
    BY <2>3 DEF Timeout, CallerCancel, DialHolds
  <2>4. CASE \/ QueueSerial(c) \/ DrainOk(c) \/ DrainFail(c) \/ Wake(c)
             \/ CallerCancel(c) /\ pc[c] \notin {"dialing", "waiting"}
    <3>1. UNCHANGED <<connLock, connected>> /\ \E s \in PcStates \ {"dialing"} : pc' = [pc EXCEPT ![c] = s]
      BY <1>0, <2>4 DEF QueueSerial, DrainOk, DrainFail, Wake, CallerCancel, Exit
    <3> QED BY <3>1, HolderKept
  <2> QED BY <1>1, <2>1, <2>2, <2>3, <2>4 DEF CallStep
<1>2. ASSUME NEW t \in Tasks, TaskStep(t) PROVE DialHolds'
  <2>1. CASE Reject(t)
    <3>1. UNCHANGED <<connLock, connected>> /\ pc' = [pc EXCEPT ![t] = "done"]
      BY <2>1 DEF Reject, Exit
    <3> QED BY <1>0, <3>1, HolderKept
  <2>2. CASE DialFail(t)
    <3>1. pc[t] = "dialing" /\ pc' = [pc EXCEPT ![t] = "done"]
      BY <2>2 DEF DialFail, Exit
    <3> QED BY <1>0, <3>1, HolderLeaves DEF DialHolds
  <2>3. CASE Enter(t) \/ ConnAcquire(t)
    <3>1. (EnsureConnected(t) \/ (Locked(t) /\ connLock = NoTask)) /\ UNCHANGED connected
      BY <2>3 DEF Enter, ConnAcquire
    <3> QED BY <3>1, HolderLocked
  <2>4. ASSUME NEW k \in Conns, DialOk(t, k) PROVE DialHolds'
    <3>1. pc[t] = "dialing" /\ \E s \in PcStates \ {"dialing"} : pc' = [pc EXCEPT ![t] = s]
      BY <2>4 DEF DialOk, Proceed, Send, Exit, PcStates
    <3> QED BY <3>1, HolderLeaves DEF DialHolds
  <2> QED BY <1>2, <2>1, <2>2, <2>3, <2>4 DEF TaskStep
<1>3. ASSUME UNCHANGED <<pc, connLock>>, connected' = FALSE \/ UNCHANGED connected PROVE DialHolds'
  BY <1>3 DEF DialHolds
<1>4. ASSUME NEW a \in Actors, TeardownStep(a) PROVE DialHolds'
  BY <1>3, <1>4 DEF TeardownStep, Close, WaitClosedDone, AwaitTaskDone, Teardown
<1>5. ASSUME NEW k \in Conns, ReadLoopStep(k) \/ NetworkStep(k) PROVE DialHolds'
  BY <1>3, <1>5 DEF ReadLoopStep, RLStart, RLFrame, RLEnd, RLCancelled, Teardown, NetworkStep,
     PeerEof, Reset, CloseDone
<1>6. CASE Terminated \/ UNCHANGED vars
  BY <1>3, <1>6 DEF Terminated, vars
<1> QED BY <1>1, <1>2, <1>4, <1>5, <1>6 DEF Next

\* What a step does to connections and futures: no connection goes back to
\* unused, one that opens was unused, and a call gets a future, and the
\* connection of its request, when it sends.
FutStep ==
  /\ \A k \in Conns : /\ conn[k] # "unused" => conn'[k] # "unused"
                      /\ conn'[k] = "open" => conn[k] \in {"open", "unused"}
  /\ \A c \in Calls :
       \/ via'[c] = via[c] /\ (fut'[c] # "none" => fut[c] # "none")
       \/ fut'[c] = "pending" /\ via'[c] \in Conns /\ conn'[via'[c]] # "unused"
  /\ connected' => \A c \in Calls : fut'[c] = "lost" => fut[c] = "lost"

\* Sending on an opened connection.
LEMMA SendFutures ==
  ASSUME TypeOK, NEW c \in Calls, NEW k \in Conns, NEW alive, Send(c, k, alive),
         conn'[k] # "unused"
  PROVE  \A d \in Calls :
           \/ via'[d] = via[d] /\ fut'[d] = fut[d]
           \/ fut'[d] = "pending" /\ via'[d] \in Conns /\ conn'[via'[d]] # "unused"
<1>1. \/ UNCHANGED <<via, fut>>
      \/ fut' = [fut EXCEPT ![c] = "pending"] /\ via' = [via EXCEPT ![c] = k]
  BY DEF Send, futVars
<1>2. DOMAIN fut = Calls /\ DOMAIN via = Calls
  BY DEF TypeOK
<1> QED BY <1>1, <1>2

\* A task on its way to a connection.
LEMMA ProceedFutures ==
  ASSUME TypeOK, StreamConsistent, NEW t \in Tasks,
         \/ (EnsureConnected(t) \/ Locked(t)) /\ UNCHANGED conn
         \/ \E k \in Conns : Proceed(t, k, TRUE) /\ conn'[k] # "unused"
  PROVE  \A d \in Calls :
           \/ via'[d] = via[d] /\ fut'[d] = fut[d]
           \/ fut'[d] = "pending" /\ via'[d] \in Conns /\ conn'[via'[d]] # "unused"
<1> DEFINE Goal == \A d \in Calls :
           \/ via'[d] = via[d] /\ fut'[d] = fut[d]
           \/ fut'[d] = "pending" /\ via'[d] \in Conns /\ conn'[via'[d]] # "unused"
<1>1. ASSUME NEW k \in Conns, NEW alive, Proceed(t, k, alive), conn'[k] # "unused" PROVE Goal
  <2>1. CASE t \in Calls
    BY <1>1, <2>1, SendFutures DEF Proceed
  <2>2. CASE t \notin Calls
    BY <1>1, <2>2 DEF Proceed, futVars
  <2> QED BY <2>1, <2>2
<1>2. UNCHANGED <<via, fut>> => Goal
  OBVIOUS
<1> HIDE DEF Goal
<1>3. ASSUME Locked(t), UNCHANGED conn PROVE Goal
  <2>1. CASE connected
    <3>1. stream \in Conns /\ conn'[stream] # "unused" /\ Proceed(t, stream, conn[stream] # "lost")
      BY <1>3, <2>1 DEF Locked, StreamConsistent, TypeOK
    <3> QED BY <1>1, <3>1
  <2>2. CASE ~connected
    BY <1>2, <1>3, <2>2 DEF Locked, futVars
  <2> QED BY <2>1, <2>2
<1>4. ASSUME EnsureConnected(t), UNCHANGED conn PROVE Goal
  BY <1>2, <1>3, <1>4 DEF EnsureConnected, futVars
<1>5. Goal
  BY <1>1, <1>3, <1>4
<1> QED BY <1>5 DEF Goal

\* A teardown that fails the pending futures leaves the transport disconnected,
\* provided that a suspended one finds it so.
LEMMA TeardownFutures ==
  ASSUME TypeOK, NEW a \in Actors,
         \/ Teardown(a)
         \/ /\ ReapReader(a) \/ FailPending(a)
            /\ UNCHANGED <<connected, conn>>
            /\ ~connected,
         UNCHANGED via
  PROVE  FutStep
<1>1. \A c \in Calls : fut'[c] # "none" => fut[c] # "none"
  BY DEF TypeOK, Teardown, ReapReader, FailPending
<1>2. ~connected'
  BY DEF Teardown
<1>3. UNCHANGED conn \/ (stream \in Conns /\ conn' = [conn EXCEPT ![stream] = "closing"])
  BY DEF TypeOK, Teardown
<1>4. \A k \in Conns : /\ conn[k] # "unused" => conn'[k] # "unused"
                       /\ conn'[k] = "open" => conn[k] \in {"open", "unused"}
  BY <1>3 DEF TypeOK
<1> QED BY <1>1, <1>2, <1>4 DEF FutStep

\* With prompt closes, every step is such a step.
LEMMA PromptFutures ==
  ASSUME TypeOK, StreamConsistent, ReaderInv, [Next]_vars
  PROVE  FutStep
<1> USE DEF sharedVars, futVars, callVars, connOnly
<1>1. ASSUME UNCHANGED <<via, conn>>, \A c \in Calls : fut'[c] \notin {"none", "lost"} \/ fut'[c] = fut[c],
             \A c \in Calls : fut'[c] # "none" => fut[c] # "none"
      PROVE  FutStep
  BY <1>1 DEF FutStep
<1>2. ASSUME NEW t \in Tasks, EnsureConnected(t) \/ Locked(t), UNCHANGED conn PROVE FutStep
  <2>1. \A d \in Calls :
           \/ via'[d] = via[d] /\ fut'[d] = fut[d]
           \/ fut'[d] = "pending" /\ via'[d] \in Conns /\ conn'[via'[d]] # "unused"
    BY <1>2, ProceedFutures
  <2> QED BY <1>2, <2>1 DEF FutStep
<1>3. ASSUME NEW c \in Calls, CallStep(c) PROVE FutStep
  <2>1. CASE SerialAcquire(c)
    <3>1. EnsureConnected(c) /\ UNCHANGED conn
      BY <2>1 DEF SerialAcquire
    <3> QED BY <1>2, <3>1
  <2>2. CASE QueueSerial(c) \/ DrainOk(c) \/ DrainFail(c) \/ Wake(c)
    <3>1. UNCHANGED <<via, conn, fut>>
      BY <2>2 DEF QueueSerial, DrainOk, DrainFail, Wake
    <3> QED BY <1>1, <3>1
  <2>3. CASE Timeout(c) \/ CallerCancel(c)
    <3>1. UNCHANGED <<via, conn>>
      BY <2>3 DEF Timeout, CallerCancel
    <3>2. UNCHANGED fut \/ (fut[c] = "pending" /\ \E f \in {"timeout", "cancelled"} : fut' = [fut EXCEPT ![c] = f])
      BY <2>3 DEF Timeout, CallerCancel
    <3>3. DOMAIN fut = Calls
      BY DEF TypeOK
    <3> QED BY <1>1, <3>1, <3>2, <3>3
  <2> QED BY <1>3, <2>1, <2>2, <2>3 DEF CallStep
<1>4. ASSUME NEW t \in Tasks, TaskStep(t) PROVE FutStep
  <2>1. CASE Reject(t) \/ DialFail(t)
    <3>1. UNCHANGED <<via, conn, fut>>
      BY <2>1 DEF Reject, DialFail
    <3> QED BY <1>1, <3>1
  <2>2. CASE Enter(t) \/ ConnAcquire(t)
    <3>1. (EnsureConnected(t) \/ Locked(t)) /\ UNCHANGED conn
      BY <2>2 DEF Enter, ConnAcquire
    <3> QED BY <1>2, <3>1
  <2>3. ASSUME NEW k \in Conns, DialOk(t, k) PROVE FutStep
    <3>1. Proceed(t, k, TRUE) /\ conn[k] = "unused" /\ conn' = [conn EXCEPT ![k] = "open"]
      BY <2>3 DEF DialOk
    <3>2. conn'[k] = "open" /\ \A j \in Conns : j # k => conn'[j] = conn[j]
      BY <3>1 DEF TypeOK
    <3>3. \A d \in Calls :
           \/ via'[d] = via[d] /\ fut'[d] = fut[d]
           \/ fut'[d] = "pending" /\ via'[d] \in Conns /\ conn'[via'[d]] # "unused"
      BY <3>1, <3>2, ProceedFutures
    <3> QED BY <3>1, <3>2, <3>3 DEF FutStep
  <2> QED BY <1>4, <2>1, <2>2, <2>3 DEF TaskStep
<1>5. ASSUME NEW a \in Actors, TeardownStep(a) PROVE FutStep
  <2>1. UNCHANGED via
    BY <1>5 DEF TeardownStep, Close, WaitClosedDone, AwaitTaskDone
  <2>2. CASE Close(a)
    BY <2>1, <2>2, TeardownFutures DEF Close
  <2>3. CASE WaitClosedDone(a) \/ AwaitTaskDone(a)
    <3>1. ~connected /\ (ReapReader(a) \/ FailPending(a)) /\ UNCHANGED <<connected, conn>>
      BY <2>3 DEF WaitClosedDone, AwaitTaskDone, ReaderInv
    <3> QED BY <2>1, <3>1, TeardownFutures
  <2> QED BY <1>5, <2>2, <2>3 DEF TeardownStep
<1>6. ASSUME NEW k \in Conns, ReadLoopStep(k) PROVE FutStep
  <2>0. UNCHANGED via
    BY <1>6 DEF ReadLoopStep, RLStart, RLFrame, RLEnd, RLCancelled
  <2>1. CASE Teardown(k)
    BY <2>0, <2>1, TeardownFutures
  <2>2. ASSUME NEW r \in Calls, RLFrame(k, r) PROVE FutStep
    <3>1. UNCHANGED <<via, conn>> /\ \E d : fut[d] = "pending" /\ fut' = [fut EXCEPT ![d] = "result"]
      BY <2>2 DEF RLFrame
    <3>2. DOMAIN fut = Calls
      BY DEF TypeOK
    <3> QED BY <1>1, <3>1, <3>2
  <2>3. CASE UNCHANGED <<via, conn, fut>>
    BY <1>1, <2>3
  <2> QED BY <1>6, <2>1, <2>2, <2>3 DEF ReadLoopStep, RLStart, RLEnd, RLCancelled
<1>7. ASSUME NEW k \in Conns, NetworkStep(k) PROVE FutStep
  <2>1. UNCHANGED <<via, fut>> /\ conn[k] # "unused"
        /\ \E s \in {"eof", "lost"} : conn' = [conn EXCEPT ![k] = s]
    BY <1>7 DEF NetworkStep, PeerEof, Reset, CloseDone
  <2>2. \A j \in Conns : /\ conn[j] # "unused" => conn'[j] # "unused"
                         /\ conn'[j] = "open" => conn[j] \in {"open", "unused"}
    BY <2>1 DEF TypeOK
  <2> QED BY <2>1, <2>2 DEF FutStep
<1>8. CASE Terminated \/ UNCHANGED vars
  BY <1>1, <1>8 DEF Terminated, vars
<1> QED BY <1>3, <1>4, <1>5, <1>6, <1>7, <1>8 DEF Next

\* At most one connection is open, and it is the stream.
LEMMA OneOpenStep ==
  ASSUME TypeOK, DialHolds, StreamConsistent, OneOpen, [Next]_vars
  PROVE  OneOpen'
<1> USE DEF sharedVars, callVars, connOnly
<1>0. NoConn \notin Conns /\ conn \in [Conns -> ConnStates]
  BY MaxConnsAssumption DEF NoConn, Conns, TypeOK
<1>1. ASSUME UNCHANGED <<stream, conn>> PROVE OneOpen'
  BY <1>1 DEF OneOpen
<1>2. ASSUME NEW a \in Actors, Teardown(a) PROVE OneOpen'
  BY <1>0, <1>2 DEF Teardown, OneOpen, TypeOK
<1>3. ASSUME NEW t \in Tasks, NEW k \in Conns, DialOk(t, k) PROVE OneOpen'
  <2>1. stream = NoConn /\ stream' = k /\ conn' = [conn EXCEPT ![k] = "open"]
    BY <1>3 DEF DialOk, DialHolds, StreamConsistent
  <2> QED BY <1>0, <2>1 DEF OneOpen
<1>4. ASSUME NEW k \in Conns, NetworkStep(k) PROVE OneOpen'
  BY <1>0, <1>4 DEF NetworkStep, PeerEof, Reset, CloseDone, OneOpen
<1>5. ASSUME NEW c \in Calls, CallStep(c) PROVE OneOpen'
  BY <1>1, <1>5 DEF CallStep, QueueSerial, SerialAcquire, DrainOk, DrainFail, Timeout, Wake,
     CallerCancel
<1>6. ASSUME NEW t \in Tasks, TaskStep(t) PROVE OneOpen'
  BY <1>1, <1>3, <1>6 DEF TaskStep, Reject, Enter, ConnAcquire, DialFail
<1>7. ASSUME NEW a \in Actors, TeardownStep(a) PROVE OneOpen'
  BY <1>1, <1>2, <1>7 DEF TeardownStep, Close, WaitClosedDone, AwaitTaskDone
<1>8. ASSUME NEW k \in Conns, ReadLoopStep(k) PROVE OneOpen'
  <2>1. k \in Actors
    OBVIOUS
  <2> QED BY <1>1, <1>2, <1>8, <2>1 DEF ReadLoopStep, RLStart, RLEnd, RLCancelled, RLFrame
<1>9. CASE Terminated \/ UNCHANGED vars
  BY <1>1, <1>9 DEF Terminated, vars
<1> QED BY <1>4, <1>5, <1>6, <1>7, <1>8, <1>9 DEF Next

\* The reader of a connected transport is left alone.
LEMMA ReaderStep ==
  ASSUME ~SlowClose, TypeOK, StreamConsistent, ReaderInv, [Next]_vars
  PROVE  ReaderInv'
<1> USE DEF sharedVars, callVars, connOnly
<1>0. tpc \in [Actors -> ActorStates] /\ NoConn \notin Conns
  BY MaxConnsAssumption DEF NoConn, Conns, TypeOK
<1>1. ASSUME UNCHANGED <<connected, stream, tpc>> PROVE ReaderInv'
  BY <1>1 DEF ReaderInv
<1>2. ASSUME ~connected' PROVE ReaderInv'
  BY <1>2 DEF ReaderInv
<1>3. ASSUME NEW t \in Tasks, NEW k \in Conns, DialOk(t, k) PROVE ReaderInv'
  BY <1>0, <1>3 DEF DialOk, ReaderInv
<1>4. ASSUME NEW c \in Calls, CallStep(c) PROVE ReaderInv'
  BY <1>1, <1>4 DEF CallStep, QueueSerial, SerialAcquire, DrainOk, DrainFail, Timeout, Wake,
     CallerCancel
<1>5. ASSUME NEW t \in Tasks, TaskStep(t) PROVE ReaderInv'
  BY <1>1, <1>3, <1>5 DEF TaskStep, Reject, Enter, ConnAcquire, DialFail
<1>6. ASSUME NEW a \in Actors, TeardownStep(a) PROVE ReaderInv'
  <2>1. ~connected'
    BY <1>6 DEF TeardownStep, Close, WaitClosedDone, AwaitTaskDone, Teardown, ReaderInv
  <2> QED BY <1>2, <2>1
<1>7. ASSUME NEW k \in Conns, ReadLoopStep(k) PROVE ReaderInv'
  <2>1. CASE Teardown(k)
    BY <1>2, <2>1 DEF Teardown
  <2>2. ASSUME NEW r \in Calls, RLFrame(k, r) PROVE ReaderInv'
    BY <1>1, <2>2 DEF RLFrame
  <2>3. CASE RLStart(k)
    BY <1>0, <2>3 DEF RLStart, ReaderInv, StreamConsistent
  <2>4. CASE RLCancelled(k) /\ ~Teardown(k)
    <3>1. tpc[k] \in {"doomed", "doomedInit"} /\ tpc' = [tpc EXCEPT ![k] = "done"]
          /\ UNCHANGED <<connected, stream>>
      BY <2>4 DEF RLCancelled
    <3> QED BY <1>0, <3>1 DEF ReaderInv
  <2> QED BY <1>7, <2>1, <2>2, <2>3, <2>4 DEF ReadLoopStep, RLEnd
<1>8. ASSUME NEW k \in Conns, NetworkStep(k) PROVE ReaderInv'
  BY <1>1, <1>8 DEF NetworkStep, PeerEof, Reset, CloseDone
<1>9. CASE Terminated \/ UNCHANGED vars
  BY <1>1, <1>9 DEF Terminated, vars
<1> QED BY <1>4, <1>5, <1>6, <1>7, <1>8, <1>9 DEF Next

\* Prompt closes keep the invariant: a future fails with "connection lost" only
\* when the transport is disconnected, and then no connection is open.
LEMMA PromptStep ==
  ASSUME ~SlowClose, TypeOK, LifecycleInv, DialInv, PromptInv, [Next]_vars
  PROVE  DialInv' /\ PromptInv'
<1>1. StreamConsistent /\ StreamConsistent' /\ TypeOK'
  BY LifecycleStep, TypeOKStep DEF LifecycleInv
<1>2. DialHolds' /\ OneOpen' /\ ReaderInv' /\ FutStep
  BY <1>1, HolderStep, OneOpenStep, ReaderStep, PromptFutures DEF DialInv, PromptInv
<1>3. SentOnOpened'
  BY <1>2 DEF FutStep, DialInv, SentOnOpened
<1>4. ASSUME NEW c \in Calls, fut'[c] = "lost" PROVE conn'[via'[c]] # "open"
  <2>0. via'[c] \in Conns
    BY <1>3, <1>4 DEF SentOnOpened
  <2>1. CASE connected'
    <3>1. fut[c] = "lost" /\ via'[c] = via[c]
      BY <1>2, <1>4, <2>1 DEF FutStep
    <3>2. conn[via[c]] \notin {"open", "unused"}
      BY <3>1 DEF PromptInv, ConnErrorMeansConnLost, DialInv, SentOnOpened
    <3> QED BY <1>2, <2>0, <3>1, <3>2 DEF FutStep
  <2>2. CASE ~connected'
    <3>1. stream' = NoConn /\ NoConn \notin Conns
      BY <1>1, <2>2, MaxConnsAssumption DEF StreamConsistent, NoConn, Conns
    <3> QED BY <1>2, <2>0, <3>1 DEF OneOpen
  <2> QED BY <2>1, <2>2
<1> QED BY <1>2, <1>3, <1>4 DEF DialInv, PromptInv, ConnErrorMeansConnLost

\* If teardowns end before the next dial does, a connected transport has a
\* living reader, whatever calls, closes, resets and timeouts interleave.
THEOREM ReaderAlive ==
  ASSUME ~SlowClose
  PROVE  Spec => []ConnectedHasReader
<1>1. Init => DialInv /\ PromptInv
  BY DEF Init, DialInv, DialHolds, OneOpen, SentOnOpened, PromptInv, ReaderInv,
     ConnErrorMeansConnLost
<1>2. PromptInv => ConnectedHasReader
  BY DEF PromptInv, ReaderInv, ConnectedHasReader
<1>3. TypeOK /\ LifecycleInv /\ DialInv /\ PromptInv /\ [Next]_vars => DialInv' /\ PromptInv'
  BY PromptStep
<1> QED BY <1>1, <1>2, <1>3, LifecycleInit, LifecycleStep, TypeCorrect, PTL DEF Spec

\* Under the same condition, "connection lost" is reported only to calls whose
\* own connection is going or gone.
THEOREM LossIsReal ==
  ASSUME ~SlowClose
  PROVE  Spec => []ConnErrorMeansConnLost
<1>1. Init => DialInv /\ PromptInv
  BY DEF Init, DialInv, DialHolds, OneOpen, SentOnOpened, PromptInv, ReaderInv,
     ConnErrorMeansConnLost
<1>2. PromptInv => ConnErrorMeansConnLost
  BY DEF PromptInv
<1>3. TypeOK /\ LifecycleInv /\ DialInv /\ PromptInv /\ [Next]_vars => DialInv' /\ PromptInv'
  BY PromptStep
<1> QED BY <1>1, <1>2, <1>3, LifecycleInit, LifecycleStep, TypeCorrect, PTL DEF Spec

-----------------------------------------------------------------------------
(* The promise of the abstract Transport, for every number of calls up to    *)
(* the size of the TID space: the invariant                                  *)

\* The first turn of the TID space: TIDs are handed out in a row, so those
\* below _next_tid are the TIDs of as many calls.
TurnInv ==
  /\ wraps = 0 \/ (wraps = 1 /\ nextTid = 0)
  /\ \A n \in Tids : wraps = 1 \/ n < nextTid => \E c \in Calls : tid[c] = n
  /\ \A c \in Calls : gen[c] = 0

\* What a call returns comes from its future, and only at its end; a call that
\* waits for a response has sent its request.
ReturnInv ==
  /\ \A t \in Tasks : pc[t] # "done" => outcome[t] = "none"
  /\ \A c \in Calls : outcome[c] = "response" => fut[c] = "result"
  /\ \A c \in Calls : pc[c] \in After => via[c] # NoConn

\* The transport makes no more calls in its life than there are TIDs.
FewCalls == IsFiniteSet(Calls) /\ Cardinality(Calls) <= TidSpace

-----------------------------------------------------------------------------
(* The first turn *)

\* A call that has no TID yet and TIDs that are all taken make more calls than
\* TIDs.
LEMMA TidsLast ==
  ASSUME FewCalls, TypeOK, NEW c \in Calls, tid[c] = NoTid,
         \A n \in Tids : \E d \in Calls : tid[d] = n
  PROVE  FALSE
<1> DEFINE others == Calls \ {c}
           f == [d \in others |-> IF tid[d] \in Tids THEN tid[d] ELSE 0]
<1>1. 0 \in Tids /\ NoTid \notin Tids /\ TidSpace \in Nat \ {0}
  BY TidSpaceAssumption DEF Tids, NoTid
<1>2. IsFiniteSet(others) /\ Cardinality(others) = Cardinality(Calls) - 1
      /\ Cardinality(Calls) \in Nat
  BY FS_RemoveElement, FS_CardinalityType DEF FewCalls
<1>3. f \in [others -> Tids]
  BY <1>1
<1>4. ASSUME NEW n \in Tids PROVE \E d \in others : f[d] = n
  <2>1. PICK d \in Calls : tid[d] = n
    OBVIOUS
  <2>2. d \in others
    BY <1>1, <2>1
  <2> QED BY <2>1, <2>2
<1>5. f \in Surjection(others, Tids)
  BY <1>3, <1>4 DEF Surjection
<1>6. Cardinality(Tids) <= Cardinality(others)
  <2> HIDE DEF f, others
  <2> QED BY <1>2, <1>5, FS_Surjection
<1>7. Cardinality(Tids) = TidSpace
  BY <1>1, FS_Interval DEF Tids
<1> QED BY <1>1, <1>2, <1>6, <1>7 DEF FewCalls

\* Sending keeps to the first turn: while it lasts, the next TID is free.
LEMMA TurnSend ==
  ASSUME FewCalls, TypeOK, DemuxInv, TurnInv, NEW c \in Calls, pc[c] \in Before,
         NEW k, NEW alive, Send(c, k, alive)
  PROVE  TurnInv'
<1>0. TidSpace \in Nat \ {0} /\ nextTid \in Tids /\ tid[c] = NoTid /\ NoTid \notin Tids
      /\ DOMAIN tid = Calls /\ DOMAIN gen = Calls
  BY TidSpaceAssumption DEF TypeOK, DemuxInv, NothingBeforeSend, Before, Tids, NoTid
<1>1. CASE UNCHANGED tidVars
  BY <1>1 DEF tidVars, TurnInv
<1>2. CASE ~ UNCHANGED tidVars
  <2>1. PICK n \in Tids : FirstFree(n) /\ AllocateTid(c, n)
    BY <1>2 DEF Send
  <2>2. wraps = 0
    <3>1. wraps = 1 => \A m \in Tids : \E d \in Calls : tid[d] = m
      BY DEF TurnInv
    <3> QED BY <1>0, <3>1, TidsLast DEF TurnInv
  <2>3. pending[nextTid] = NoTask
    <3>1. ASSUME pending[nextTid] # NoTask PROVE FALSE
      <4>1. pending[nextTid] \in Calls /\ tid[pending[nextTid]] = nextTid
            /\ gen[pending[nextTid]] = 0
        BY <1>0, <3>1 DEF TypeOK, DemuxInv, NoLeakedRegistration, TurnInv
      <4>2. tid[pending[nextTid]] < nextTid
        BY <1>0, <2>2, <4>1 DEF DemuxInv, TidsInOrder
      <4> QED BY <1>0, <4>1, <4>2 DEF Tids
    <3> QED BY <3>1
  <2>4. n = 0
    <3>1. Wrap(nextTid + 0) = nextTid
      BY <1>0 DEF Wrap, Tids
    <3>2. n # 0 => 0 \in 0..(n - 1)
      BY <1>0 DEF Tids
    <3> QED BY <2>1, <2>3, <3>1, <3>2 DEF FirstFree
  <2>5. /\ tid' = [tid EXCEPT ![c] = nextTid] /\ gen' = [gen EXCEPT ![c] = 0]
        /\ nextTid' = Wrap(nextTid + 1) /\ wraps' = Laps(nextTid + 1)
    <3>1. nextTid + n = nextTid /\ nextTid + n + 1 = nextTid + 1
          /\ Wrap(nextTid) = nextTid /\ wraps + Laps(nextTid) = 0
          /\ wraps + Laps(nextTid + 1) = Laps(nextTid + 1)
      BY <1>0, <2>2, <2>4 DEF Wrap, Laps, Tids
    <3> QED BY <2>1, <3>1 DEF AllocateTid
  <2>6. \A d \in Calls : gen'[d] = 0
    BY <1>0, <2>5 DEF TurnInv
  <2>7. tid'[c] = nextTid /\ \A d \in Calls : tid[d] # NoTid => tid'[d] = tid[d]
    BY <1>0, <2>5
  <2>8. \A m \in Tids : m <= nextTid => \E d \in Calls : tid'[d] = m
    <3> SUFFICES ASSUME NEW m \in Tids, m <= nextTid PROVE \E d \in Calls : tid'[d] = m
      OBVIOUS
    <3>1. CASE m = nextTid
      BY <2>7, <3>1
    <3>2. CASE m < nextTid
      <4>1. PICK d \in Calls : tid[d] = m
        BY <3>2 DEF TurnInv
      <4> QED BY <1>0, <2>7, <4>1
    <3> QED BY <1>0, <3>1, <3>2 DEF Tids
  <2>9. CASE nextTid + 1 >= TidSpace
    <3>1. wraps' = 1 /\ nextTid' = 0 /\ \A m \in Tids : m <= nextTid
      BY <1>0, <2>5, <2>9 DEF Wrap, Laps, Tids
    <3> QED BY <2>6, <2>8, <3>1 DEF TurnInv
  <2>10. CASE ~(nextTid + 1 >= TidSpace)
    <3>1. wraps' = 0 /\ nextTid' = nextTid + 1 /\ \A m \in Tids : m < nextTid + 1 => m <= nextTid
      BY <1>0, <2>5, <2>10 DEF Wrap, Laps, Tids
    <3> QED BY <2>6, <2>8, <3>1 DEF TurnInv
  <2> QED BY <2>9, <2>10
<1> QED BY <1>1, <1>2

\* Only sending allocates TIDs.
LEMMA SendAllocates ==
  ASSUME TypeOK, [Next]_vars
  PROVE  UNCHANGED tidVars \/ \E c \in Calls : \E k, alive : pc[c] \in Before /\ Send(c, k, alive)
<1> DEFINE Goal == \/ UNCHANGED tidVars
                   \/ \E c \in Calls : \E k, alive : pc[c] \in Before /\ Send(c, k, alive)
<1>1. ASSUME NEW t \in Tasks, pc[t] \in Before, EnsureConnected(t) \/ Locked(t)
      PROVE  Goal
  BY <1>1 DEF EnsureConnected, Locked, Proceed
<1>2. ASSUME NEW t \in Tasks, NEW k, pc[t] \in Before, Proceed(t, k, TRUE) PROVE Goal
  BY <1>2 DEF Proceed
<1> HIDE DEF Goal
<1>3. ASSUME UNCHANGED tidVars PROVE Goal
  BY <1>3 DEF Goal
<1>4. ASSUME NEW c \in Calls, CallStep(c) PROVE Goal
  <2>1. CASE SerialAcquire(c)
    <3>1. pc[c] \in Before /\ EnsureConnected(c) /\ c \in Tasks
      BY <2>1 DEF SerialAcquire, Before
    <3> QED BY <1>1, <3>1
  <2>2. CASE QueueSerial(c) \/ DrainOk(c) \/ DrainFail(c) \/ Timeout(c) \/ Wake(c)
             \/ CallerCancel(c)
    BY <1>3, <2>2 DEF QueueSerial, DrainOk, DrainFail, Timeout, Wake, CallerCancel
  <2> QED BY <1>4, <2>1, <2>2 DEF CallStep
<1>5. ASSUME NEW t \in Tasks, TaskStep(t) PROVE Goal
  <2>1. CASE Reject(t) \/ DialFail(t)
    BY <1>3, <2>1 DEF Reject, DialFail
  <2>2. CASE Enter(t) \/ ConnAcquire(t)
    BY <1>1, <2>2 DEF Enter, ConnAcquire, Before
  <2>3. ASSUME NEW k \in Conns, DialOk(t, k) PROVE Goal
    <3>1. pc[t] \in Before /\ Proceed(t, k, TRUE)
      BY <2>3 DEF DialOk, Before
    <3> QED BY <1>2, <3>1
  <2> QED BY <1>5, <2>1, <2>2, <2>3 DEF TaskStep
<1>6. ASSUME NEW a \in Actors, TeardownStep(a) PROVE Goal
  BY <1>3, <1>6 DEF TeardownStep, Close, WaitClosedDone, AwaitTaskDone, callVars
<1>7. ASSUME NEW k \in Conns, ReadLoopStep(k) \/ NetworkStep(k) PROVE Goal
  BY <1>3, <1>7 DEF ReadLoopStep, RLStart, RLFrame, RLEnd, RLCancelled, NetworkStep, PeerEof,
     Reset, CloseDone, callVars, connOnly
<1>8. CASE Terminated \/ UNCHANGED vars
  BY <1>3, <1>8 DEF Terminated, vars
<1> QED BY <1>4, <1>5, <1>6, <1>7, <1>8 DEF Next, Goal

\* The first turn lasts as long as there are not more calls than TIDs.
LEMMA TurnStep ==
  ASSUME FewCalls, TypeOK, DemuxInv, TurnInv, [Next]_vars
  PROVE  TurnInv'
<1>1. CASE UNCHANGED tidVars
  BY <1>1 DEF tidVars, TurnInv
<1>2. ASSUME NEW c \in Calls, NEW k, NEW alive, pc[c] \in Before, Send(c, k, alive) PROVE TurnInv'
  BY <1>2, TurnSend
<1> QED BY <1>1, <1>2, SendAllocates

-----------------------------------------------------------------------------
(* Steps of calls, as the contract sees them *)

Keeps == /\ [Contract!TNext]_(Contract!tvars)
         /\ ReturnInv'

\* A call that has not sent yet starts, goes on, sends or fails.
Goes(c) ==
  \E s \in PcStates \ {"idle"}, o \in Outcomes \ {"response"}, k \in Conns \cup {NoConn} :
    /\ pc' = [pc EXCEPT ![c] = s]
    /\ via' = [via EXCEPT ![c] = k]
    /\ outcome' = [outcome EXCEPT ![c] = o]
    /\ s # "done" => o = "none"
    /\ k # NoConn <=> s \in After
    /\ UNCHANGED <<closed, reply>>
    /\ pc[c] = "idle" /\ closed => s = "done"

\* The contract allows what a call does before it has sent its request.
LEMMA GoesKeeps ==
  ASSUME TypeOK, DemuxInv, ReturnInv, NEW c \in Calls, pc[c] \in Before, Goes(c), ResolvedStays
  PROVE  Keeps
<1>0. /\ pc \in [Tasks -> PcStates] /\ via \in [Calls -> Conns \cup {NoConn}]
      /\ outcome \in [Tasks -> Outcomes] /\ reply \in [Calls -> Calls \cup {NoTask}]
      /\ via[c] = NoConn /\ outcome[c] = "none"
  BY DEF TypeOK, DemuxInv, NothingBeforeSend, Before, ReturnInv
<1>1. PICK s \in PcStates \ {"idle"}, o \in Outcomes \ {"response"}, k \in Conns \cup {NoConn} :
        /\ pc' = [pc EXCEPT ![c] = s]
        /\ via' = [via EXCEPT ![c] = k]
        /\ outcome' = [outcome EXCEPT ![c] = o]
        /\ s # "done" => o = "none"
        /\ k # NoConn <=> s \in After
        /\ UNCHANGED <<closed, reply>>
        /\ pc[c] = "idle" /\ closed => s = "done"
  BY DEF Goes
<1> DEFINE u == IF s = "done" THEN "done" ELSE "active"
<1>2. Status' = [Status EXCEPT ![c] = u]
  BY <1>0, <1>1 DEF Status
<1>3. Status[c] = IF pc[c] = "idle" THEN "idle" ELSE "active"
  BY <1>0 DEF Status, Before
<1>4. Answer' = Answer
  BY <1>0, <1>1 DEF Answer
<1>5. c \notin Sent /\ Sent' = IF s \in After THEN Sent \cup {c} ELSE Sent
  BY <1>0, <1>1 DEF Sent
<1>6. Status \in [Calls -> {"idle", "active", "done"}]
  BY <1>0 DEF Status
<1>7. s \in After => u = "active"
  BY DEF After
<1>8. [Contract!TNext]_(Contract!tvars)
  <2> HIDE DEF u
  <2>0. u \in {"active", "done"}
    BY DEF u
  <2>1. CASE pc[c] = "idle" /\ ~closed
    <3>1. Contract!TBegin(c)
      BY <1>1, <1>2, <1>3, <1>4, <1>5, <2>0, <2>1 DEF Contract!TBegin
    <3> QED BY <3>1 DEF Contract!TNext
  <2>2. CASE pc[c] = "idle" /\ closed
    <3>1. u = "done" /\ Sent' = Sent
      BY <1>1, <1>5, <2>2 DEF u, After
    <3>2. Contract!TRefuse(c)
      BY <1>1, <1>2, <1>3, <1>4, <2>2, <3>1 DEF Contract!TRefuse
    <3> QED BY <3>2 DEF Contract!TNext
  <2>3. CASE pc[c] # "idle" /\ s \in After
    <3>1. Status' = Status
      BY <1>2, <1>3, <1>6, <1>7, <2>3
    <3>2. Contract!TTransmit(c)
      BY <1>1, <1>3, <1>4, <1>5, <2>3, <3>1 DEF Contract!TTransmit
    <3> QED BY <3>2 DEF Contract!TNext
  <2>4. CASE pc[c] # "idle" /\ s \notin After /\ u = "done"
    <3>1. Contract!TFail(c)
      BY <1>1, <1>2, <1>3, <1>4, <1>5, <2>4 DEF Contract!TFail
    <3> QED BY <3>1 DEF Contract!TNext
  <2>5. CASE pc[c] # "idle" /\ s \notin After /\ u = "active"
    <3>1. Status' = Status
      BY <1>2, <1>3, <1>6, <2>5
    <3>2. UNCHANGED Contract!tvars
      BY <1>1, <1>4, <1>5, <2>5, <3>1 DEF Contract!tvars
    <3> QED BY <3>2
  <2> QED BY <2>0, <2>1, <2>2, <2>3, <2>4, <2>5
<1>9. ReturnInv'
  BY <1>0, <1>1 DEF ReturnInv, ResolvedStays
<1> QED BY <1>8, <1>9 DEF Keeps

\* A call that has sent its request ends, with the response to that request or
\* with an error.
LEMMA EndKeeps ==
  ASSUME TypeOK, DemuxInv, TurnInv, ReturnInv, ResolvedStays, NEW c \in Calls, pc[c] \in After,
         NEW o \in Outcomes, o = "response" => fut[c] = "result",
         Exit(c, o), UNCHANGED <<closed, via, reply>>
  PROVE  Keeps
<1>0. /\ pc \in [Tasks -> PcStates] /\ via \in [Calls -> Conns \cup {NoConn}]
      /\ outcome \in [Tasks -> Outcomes] /\ reply \in [Calls -> Calls \cup {NoTask}]
      /\ outcome[c] = "none" /\ via[c] # NoConn
      /\ pc' = [pc EXCEPT ![c] = "done"] /\ outcome' = [outcome EXCEPT ![c] = o]
  BY DEF TypeOK, ReturnInv, After, Exit
<1>1. Status' = [Status EXCEPT ![c] = "done"] /\ Status[c] = "active"
  BY <1>0 DEF Status, After
<1>2. Sent' = Sent /\ c \in Sent
  BY <1>0 DEF Sent
<1>3. CASE o = "response"
  <2>1. reply[c] = c
    BY <1>3 DEF DemuxInv, CrossTalkOnlyAfterWrap, TurnInv, SentHaveTids
  <2>2. Answer' = [Answer EXCEPT ![c] = c]
    BY <1>0, <1>3, <2>1 DEF Answer
  <2>3. Contract!TRespond(c)
    BY <1>1, <1>2, <2>2 DEF Contract!TRespond
  <2>4. ReturnInv'
    BY <1>0, <1>3 DEF ReturnInv, ResolvedStays, After
  <2> QED BY <2>3, <2>4 DEF Keeps, Contract!TNext
<1>4. CASE o # "response"
  <2>1. Answer' = Answer
    BY <1>0, <1>4 DEF Answer
  <2>2. Contract!TFail(c)
    BY <1>1, <1>2, <2>1 DEF Contract!TFail
  <2>3. ReturnInv'
    BY <1>0, <1>4 DEF ReturnInv, ResolvedStays, After
  <2> QED BY <2>2, <2>3 DEF Keeps, Contract!TNext
<1> QED BY <1>3, <1>4

\* Steps that no caller sees: futures are resolved, connections come and go.
LEMMA QuietKeeps ==
  ASSUME TypeOK, ReturnInv, ResolvedStays, UNCHANGED <<via, outcome>>,
         closed' = closed \/ closed' = TRUE,
         \/ UNCHANGED pc
         \/ \E c \in Calls : pc[c] \in After /\ pc' = [pc EXCEPT ![c] = "waiting"] /\ UNCHANGED closed
  PROVE  Keeps
<1>0. /\ pc \in [Tasks -> PcStates] /\ outcome \in [Tasks -> Outcomes]
  BY DEF TypeOK
<1>1. Status' = Status
  BY <1>0 DEF Status, After
<1>2. Sent' = Sent
  BY DEF Sent
<1>3. Answer' = Answer
  <2>1. \A c \in Calls : outcome[c] = "response" => reply'[c] = reply[c]
    BY DEF ReturnInv, ResolvedStays
  <2> QED BY <2>1 DEF Answer
<1>4. UNCHANGED closed => UNCHANGED Contract!tvars
  BY <1>1, <1>2, <1>3 DEF Contract!tvars
<1>5. closed' = TRUE => Contract!TNext
  BY <1>1, <1>2, <1>3 DEF Contract!TNext, Contract!TClose
<1>6. ReturnInv'
  BY <1>0 DEF ReturnInv, ResolvedStays, After
<1>7. [Contract!TNext]_(Contract!tvars)
  BY <1>4, <1>5
<1> QED BY <1>6, <1>7 DEF Keeps

\* The contract does not speak of connect().
LEMMA ConnectorKeeps ==
  ASSUME TypeOK, ReturnInv, ResolvedStays, NEW t \in Connectors, NEW s \in PcStates, NEW o \in Outcomes,
         pc' = [pc EXCEPT ![t] = s], outcome' = [outcome EXCEPT ![t] = o],
         s # "done" => o = "none", UNCHANGED <<closed, via, reply>>
  PROVE  Keeps
<1>0. /\ pc \in [Tasks -> PcStates] /\ outcome \in [Tasks -> Outcomes]
  BY DEF TypeOK
<1>1. \A c \in Calls : pc'[c] = pc[c] /\ outcome'[c] = outcome[c]
  BY <1>0, TaskAssumption
<1>2. Status' = Status /\ Sent' = Sent /\ Answer' = Answer
  BY <1>1 DEF Status, Sent, Answer
<1>3. UNCHANGED Contract!tvars
  BY <1>2 DEF Contract!tvars
<1>4. ReturnInv'
  BY <1>0, <1>1 DEF ReturnInv, ResolvedStays
<1> QED BY <1>3, <1>4 DEF Keeps

-----------------------------------------------------------------------------
(* Every step keeps the contract *)

\* A call that sends goes on as the contract allows.
LEMMA SendGoes ==
  ASSUME TypeOK, DemuxInv, ReturnInv, NEW c \in Calls, pc[c] \in Before, NEW k \in Conns,
         NEW alive, Send(c, k, alive), UNCHANGED closed, pc[c] = "idle" => ~closed
  PROVE  Goes(c)
<1>0. via[c] = NoConn /\ outcome[c] = "none" /\ NoConn \notin Conns
      /\ via \in [Calls -> Conns \cup {NoConn}] /\ outcome \in [Tasks -> Outcomes]
  BY MaxConnsAssumption
  DEF TypeOK, DemuxInv, NothingBeforeSend, Before, ReturnInv, NoConn, Conns
<1>1. \/ /\ \E o \in {"exhausted", "valueError", "connError"} : Exit(c, o)
         /\ UNCHANGED <<via, reply>>
      \/ /\ via' = [via EXCEPT ![c] = k]
         /\ \E s \in After : pc' = [pc EXCEPT ![c] = s]
         /\ UNCHANGED <<reply, outcome>>
  BY DEF Send, futVars, After
<1>2. CASE UNCHANGED via
  <2>1. PICK o \in {"exhausted", "valueError", "connError"} : Exit(c, o)
    BY <1>0, <1>1, <1>2
  <2>2. via' = [via EXCEPT ![c] = NoConn] /\ UNCHANGED reply
    BY <1>0, <1>1, <1>2
  <2>3. "done" \in PcStates \ {"idle"} /\ o \in Outcomes \ {"response"} /\ "done" \notin After
    BY DEF PcStates, Outcomes, After
  <2> QED BY <2>1, <2>2, <2>3 DEF Goes, Exit
<1>3. CASE ~ UNCHANGED via
  <2>1. via' = [via EXCEPT ![c] = k] /\ UNCHANGED <<reply, outcome>>
    BY <1>1, <1>3
  <2>2. PICK s \in After : pc' = [pc EXCEPT ![c] = s]
    BY <1>1, <1>3
  <2>3. s \in PcStates \ {"idle"} /\ "none" \in Outcomes \ {"response"}
    BY DEF PcStates, Outcomes, After
  <2>4. outcome' = [outcome EXCEPT ![c] = "none"]
    BY <1>0, <2>1
  <2> QED BY <1>0, <2>1, <2>2, <2>3, <2>4 DEF Goes
<1> QED BY <1>2, <1>3

\* A call that waits for a lock, dials, or ends before it has sent, goes on as
\* the contract allows.
LEMMA WaitGoes ==
  ASSUME TypeOK, DemuxInv, ReturnInv, NEW c \in Calls, pc[c] \in Before,
         UNCHANGED <<closed, via, reply>>,
         \/ /\ \E s \in {"serialWait", "lockWait", "dialing"} : pc' = [pc EXCEPT ![c] = s]
            /\ UNCHANGED outcome
            /\ pc[c] = "idle" => ~closed
         \/ \E o \in Outcomes \ {"response"} : Exit(c, o)
  PROVE  Goes(c)
<1>0. via[c] = NoConn /\ outcome[c] = "none"
      /\ via \in [Calls -> Conns \cup {NoConn}] /\ outcome \in [Tasks -> Outcomes]
  BY DEF TypeOK, DemuxInv, NothingBeforeSend, Before, ReturnInv
<1>1. via' = [via EXCEPT ![c] = NoConn]
  BY <1>0
<1>2. CASE \E o \in Outcomes \ {"response"} : Exit(c, o)
  <2>1. "done" \in PcStates \ {"idle"} /\ "done" \notin After
    BY DEF PcStates, After
  <2> QED BY <1>1, <1>2, <2>1 DEF Goes, Exit
<1>3. CASE /\ \E s \in {"serialWait", "lockWait", "dialing"} : pc' = [pc EXCEPT ![c] = s]
           /\ UNCHANGED outcome
           /\ pc[c] = "idle" => ~closed
  <2>1. PICK s \in {"serialWait", "lockWait", "dialing"} : pc' = [pc EXCEPT ![c] = s]
    BY <1>3
  <2>2. s \in PcStates \ {"idle"} /\ s \notin After /\ s # "done" /\ "none" \in Outcomes \ {"response"}
    BY DEF PcStates, After, Outcomes
  <2>3. outcome' = [outcome EXCEPT ![c] = "none"]
    BY <1>0, <1>3
  <2> QED BY <1>1, <1>3, <2>1, <2>2, <2>3 DEF Goes
<1> QED BY <1>2, <1>3

\* A task on its way to a connection keeps the contract.
LEMMA EnsureKeeps ==
  ASSUME TypeOK, DemuxInv, LifecycleInv, ReturnInv, ResolvedStays, NEW t \in Tasks,
         pc[t] \in Before, UNCHANGED closed, pc[t] = "idle" => ~closed,
         EnsureConnected(t) \/ Locked(t) \/ \E k \in Conns : Proceed(t, k, TRUE)
  PROVE  Keeps
<1>0. connected => stream \in Conns
  BY DEF TypeOK, LifecycleInv, StreamConsistent
<1>1. ASSUME NEW k \in Conns, NEW alive, Proceed(t, k, alive) PROVE Keeps
  <2>1. CASE t \in Calls
    <3>1. Goes(t)
      BY <1>1, <2>1, SendGoes DEF Proceed
    <3> QED BY <2>1, <3>1, GoesKeeps
  <2>2. CASE t \notin Calls
    <3>1. t \in Connectors /\ Exit(t, "connected") /\ UNCHANGED <<via, reply>>
      BY <1>1, <2>2 DEF Proceed, futVars
    <3>2. "done" \in PcStates /\ "connected" \in Outcomes
      BY DEF PcStates, Outcomes
    <3> QED BY <3>1, <3>2, ConnectorKeeps DEF Exit
  <2> QED BY <2>1, <2>2
<1>2. ASSUME UNCHANGED <<via, reply>>,
             \/ /\ \E s \in {"lockWait", "dialing"} : pc' = [pc EXCEPT ![t] = s]
                /\ UNCHANGED outcome
             \/ Exit(t, "closed")
      PROVE  Keeps
  <2>1. CASE t \in Calls
    <3>1. "closed" \in Outcomes \ {"response"}
      BY DEF Outcomes
    <3>2. Goes(t)
      BY <1>2, <2>1, <3>1, WaitGoes
    <3> QED BY <2>1, <3>2, GoesKeeps
  <2>2. CASE t \in Connectors
    <3>1. PICK s \in {"lockWait", "dialing", "done"} :
            pc' = [pc EXCEPT ![t] = s] /\ (s # "done" => UNCHANGED outcome)
            /\ (s = "done" => outcome' = [outcome EXCEPT ![t] = "closed"])
      BY <1>2 DEF Exit
    <3>2. outcome \in [Tasks -> Outcomes] /\ outcome[t] = "none"
      BY DEF TypeOK, ReturnInv, Before
    <3>3. \E o \in Outcomes : outcome' = [outcome EXCEPT ![t] = o] /\ (s # "done" => o = "none")
      BY <3>1, <3>2 DEF Outcomes
    <3>4. s \in PcStates
      BY DEF PcStates
    <3> QED BY <1>2, <2>2, <3>1, <3>3, <3>4, ConnectorKeeps
  <2> QED BY <2>1, <2>2
<1>3. CASE Locked(t)
  <2>1. CASE connected
    BY <1>0, <1>1, <1>3, <2>1 DEF Locked
  <2>2. CASE ~connected
    BY <1>2, <1>3, <2>2 DEF Locked, futVars
  <2> QED BY <2>1, <2>2
<1>4. CASE EnsureConnected(t)
  BY <1>2, <1>3, <1>4 DEF EnsureConnected, futVars
<1> QED BY <1>1, <1>3, <1>4

\* A step of the transport is a step the contract allows, or none of its
\* business.
LEMMA ContractStep ==
  ASSUME TypeOK, DemuxInv, LifecycleInv, TurnInv, ReturnInv, [Next]_vars
  PROVE  Keeps
<1> USE DEF sharedVars, lockVars, futVars, callVars, connOnly
<1>1. ResolvedStays
  <2>1. CASE Next
    BY <2>1, ResolveStep
  <2>2. CASE UNCHANGED vars
    BY <2>2 DEF vars, ResolvedStays
  <2> QED BY <2>1, <2>2
<1>2. ASSUME NEW c \in Calls, CallStep(c) PROVE Keeps
  <2>1. CASE QueueSerial(c)
    <3>1. pc[c] \in Before /\ Goes(c)
      BY <2>1, WaitGoes DEF QueueSerial, Before
    <3> QED BY <1>1, <3>1, GoesKeeps
  <2>2. CASE SerialAcquire(c)
    <3>1. pc[c] \in Before /\ pc[c] # "idle" /\ EnsureConnected(c) /\ UNCHANGED closed
      BY <2>2 DEF SerialAcquire, Before
    <3> QED BY <1>1, <3>1, EnsureKeeps
  <2>3. CASE DrainOk(c)
    BY <1>1, <2>3, QuietKeeps DEF DrainOk, After
  <2>4. CASE DrainFail(c)
    <3>1. "connError" \in Outcomes
      BY DEF Outcomes
    <3> QED BY <1>1, <2>4, <3>1, EndKeeps DEF DrainFail, After
  <2>5. CASE Timeout(c)
    BY <1>1, <2>5, QuietKeeps DEF Timeout
  <2>6. CASE Wake(c)
    <3>1. OutcomeOf(fut[c]) \in Outcomes /\ (OutcomeOf(fut[c]) = "response" => fut[c] = "result")
      BY <2>6 DEF Wake, OutcomeOf, TypeOK, FutStates, Outcomes
    <3> QED BY <1>1, <2>6, <3>1, EndKeeps DEF Wake, After
  <2>7. CASE CallerCancel(c)
    <3>0. "cancelled" \in Outcomes \ {"response"}
      BY DEF Outcomes
    <3>1. CASE pc[c] \in {"serialWait", "lockWait", "dialing"}
      <4>1. pc[c] \in Before /\ Exit(c, "cancelled") /\ UNCHANGED <<closed, via, reply>>
        BY <2>7, <3>1 DEF CallerCancel, Before
      <4>2. Goes(c)
        BY <3>0, <4>1, WaitGoes
      <4> QED BY <1>1, <4>1, <4>2, GoesKeeps
    <3>2. CASE pc[c] = "draining"
      <4>1. pc[c] \in After /\ Exit(c, "cancelled") /\ UNCHANGED <<closed, via, reply>>
        BY <2>7, <3>2 DEF CallerCancel, After
      <4> QED BY <1>1, <3>0, <4>1, EndKeeps
    <3>3. CASE pc[c] = "waiting"
      BY <1>1, <2>7, <3>3, QuietKeeps DEF CallerCancel
    <3> QED BY <2>7, <3>1, <3>2, <3>3 DEF CallerCancel
  <2> QED BY <1>2, <2>1, <2>2, <2>3, <2>4, <2>5, <2>6, <2>7 DEF CallStep
<1>3. ASSUME NEW t \in Tasks, TaskStep(t) PROVE Keeps
  <2>1. CASE Reject(t) \/ DialFail(t)
    <3>1. PICK o \in {"closed", "connError"} : Exit(t, o)
      BY <2>1 DEF Reject, DialFail
    <3>2. pc[t] \in Before /\ UNCHANGED <<closed, via, reply>> /\ o \in Outcomes \ {"response"}
          /\ "done" \in PcStates
      BY <2>1 DEF Reject, DialFail, Before, Outcomes, PcStates
    <3>3. CASE t \in Calls
      <4>1. Goes(t)
        BY <3>1, <3>2, <3>3, WaitGoes
      <4> QED BY <1>1, <3>2, <3>3, <4>1, GoesKeeps
    <3>4. CASE t \in Connectors
      BY <1>1, <3>1, <3>2, <3>4, ConnectorKeeps DEF Exit
    <3> QED BY <3>3, <3>4
  <2>2. CASE Enter(t)
    <3>1. pc[t] \in Before /\ ~closed /\ EnsureConnected(t) /\ UNCHANGED closed
      BY <2>2 DEF Enter, Before
    <3> QED BY <1>1, <3>1, EnsureKeeps
  <2>3. CASE ConnAcquire(t)
    <3>1. pc[t] \in Before /\ pc[t] # "idle" /\ Locked(t) /\ UNCHANGED closed
      BY <2>3 DEF ConnAcquire, Before
    <3> QED BY <1>1, <3>1, EnsureKeeps
  <2>4. ASSUME NEW k \in Conns, DialOk(t, k) PROVE Keeps
    <3>1. pc[t] \in Before /\ pc[t] # "idle" /\ Proceed(t, k, TRUE) /\ UNCHANGED closed
      BY <2>4 DEF DialOk, Before
    <3> QED BY <1>1, <3>1, EnsureKeeps
  <2> QED BY <1>3, <2>1, <2>2, <2>3, <2>4 DEF TaskStep
<1>4. ASSUME NEW a \in Actors, TeardownStep(a) PROVE Keeps
  BY <1>1, <1>4, QuietKeeps DEF TeardownStep, Close, WaitClosedDone, AwaitTaskDone
<1>5. ASSUME NEW k \in Conns, ReadLoopStep(k) \/ NetworkStep(k) PROVE Keeps
  <2>1. UNCHANGED <<via, outcome, closed, pc>>
    BY <1>5 DEF ReadLoopStep, RLStart, RLFrame, RLEnd, RLCancelled, NetworkStep, PeerEof,
       Reset, CloseDone
  <2> QED BY <1>1, <2>1, QuietKeeps
<1>6. CASE Terminated \/ UNCHANGED vars
  BY <1>1, <1>6, QuietKeeps DEF Terminated, vars
<1> QED BY <1>2, <1>3, <1>4, <1>5, <1>6 DEF Next

\* The TCP transport implements the contract, whatever the interleaving of its
\* calls, connects, closes, read loops and reconnections, as long as it is not
\* asked for more calls than there are TIDs (65536): a request goes out at most
\* once and only within its call, a response is that of the call's own request,
\* and no call starts once close() has begun.
THEOREM Refinement ==
  ASSUME FewCalls
  PROVE  Spec => ImplementsTransport
<1>1. Init => Contract!TInit /\ TurnInv /\ ReturnInv
  <2> SUFFICES ASSUME Init PROVE Contract!TInit /\ TurnInv /\ ReturnInv
    OBVIOUS
  <2>1. Status = [c \in Calls |-> "idle"] /\ Sent = {} /\ Answer = [c \in Calls |-> NoTask]
    BY DEF Init, Status, Sent, Answer
  <2>2. Contract!TInit
    BY <2>1 DEF Init, Contract!TInit
  <2>3. \A n \in Tids : ~(n < 0)
    BY TidSpaceAssumption DEF Tids
  <2>4. TurnInv /\ ReturnInv
    BY <2>3 DEF Init, TurnInv, ReturnInv, After
  <2> QED BY <2>2, <2>4
<1>2. TypeOK /\ DemuxInv /\ TurnInv /\ [Next]_vars => TurnInv'
  BY TurnStep
<1>3. TypeOK /\ DemuxInv /\ LifecycleInv /\ TurnInv /\ ReturnInv /\ [Next]_vars
      => ReturnInv' /\ [Contract!TNext]_(Contract!tvars)
  BY ContractStep DEF Keeps
<1> QED BY <1>1, <1>2, <1>3, DemuxInit, DemuxStep, LifecycleInit, LifecycleStep, TypeCorrect, PTL
        DEF Spec, ImplementsTransport, Contract!TSpec
=============================================================================
