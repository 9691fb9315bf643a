----------------------------- MODULE RtuOverTcp -----------------------------
(***************************************************************************)
(* pymod.transport.rtu_over_tcp.RtuOverTcpTransport: RTU frames over one   *)
(* TCP connection, one transaction at a time behind an asyncio.Lock.  RTU  *)
(* frames carry no transaction id, so a response is matched to a request   *)
(* by nothing but its place in the byte stream.                            *)
(*                                                                         *)
(* An action is the run of one task from one suspension to the next.  The  *)
(* bytes still to be read from connection k are inbox[k], a sequence of    *)
(* frames; owed[k] are the requests the peer has not answered yet.         *)
(***************************************************************************)
EXTENDS Integers, Sequences, FiniteSets

CONSTANTS Calls, Connectors, Closers,
          MaxConns,     \* bound: connections dialled in one behaviour
          EmptyPdu,     \* calls refused before the lock is taken
          BadUnit,      \* calls whose unit id cannot be encoded
          Cancellable,  \* calls whose task the user may cancel
          FrameKinds,   \* what a response frame can look like, see Parse
          NoTask

Conns == 1..MaxConns
NoConn == 0
Users == Calls \cup Connectors
Tasks == Users \cup Closers
Frames == [req : Calls, kind : FrameKinds \cup {"rest"}]

ASSUME MaxConnsAssumption == MaxConns \in Nat
ASSUME TaskAssumption == /\ Calls \cap Connectors = {} /\ Users \cap Closers = {}
                         /\ NoTask \notin Tasks
ASSUME CallAssumption == /\ EmptyPdu \subseteq Calls /\ BadUnit \subseteq Calls
                         /\ Cancellable \subseteq Calls
ASSUME KindAssumption == FrameKinds \subseteq {"ok", "badCrc", "otherUnit", "unknownFc"}

VARIABLES
  closed,   \* _closed
  stream,   \* the connection behind _reader and _writer; _connected iff there is one
  lock,     \* holder of _lock
  pc,       \* where each task is suspended
  outcome,  \* what it returned or raised, known when its teardown starts
  via,      \* connection a call wrote to, or a teardown waits for
  reply,    \* the request answered by the PDU a call returned
  conn,     \* state of each connection
  owed,     \* requests the peer has received and not answered
  inbox     \* response frames not yet read

wire == <<conn, owed, inbox>>
vars == <<closed, stream, lock, pc, outcome, via, reply, wire>>

Init ==
  /\ closed = FALSE /\ stream = NoConn /\ lock = NoTask
  /\ pc = [t \in Tasks |-> "idle"]
  /\ outcome = [t \in Tasks |-> "none"]
  /\ via = [t \in Tasks |-> NoConn]
  /\ reply = [c \in Calls |-> NoTask]
  /\ conn = [k \in Conns |-> "unused"]
  /\ owed = [k \in Conns |-> {}]
  /\ inbox = [k \in Conns |-> <<>>]

-----------------------------------------------------------------------------
(* Helpers *)

\* asyncio.Lock is fair: a newcomer queues behind the tasks already waiting.
LockFree == lock = NoTask /\ \A t \in Tasks : pc[t] # "lockWait"

\* Fault: the lock is not released.
Exit_KeepsLock(t, o) == /\ pc' = [pc EXCEPT ![t] = "done"]
                        /\ outcome' = [outcome EXCEPT ![t] = o]
                        /\ UNCHANGED lock

\* The task leaves `async with self._lock` with outcome o.
Exit(t, o) == /\ pc' = [pc EXCEPT ![t] = "done"]
              /\ outcome' = [outcome EXCEPT ![t] = o]
              /\ lock' = NoTask

\* _teardown_locked, then the exception o: the stream is dropped at once, the
\* task suspends until the connection is closed.
Teardown(t, o) ==
  /\ stream' = NoConn
  /\ IF stream # NoConn /\ conn[stream] # "lost"
     THEN /\ conn' = [conn EXCEPT ![stream] = "closing"]
          /\ via' = [via EXCEPT ![t] = stream]
          /\ pc' = [pc EXCEPT ![t] = "closing"]
          /\ outcome' = [outcome EXCEPT ![t] = o]
          /\ lock' = t
     ELSE /\ Exit(t, o)
          /\ UNCHANGED <<conn, via>>

\* With a connection up: connect() returns, a call encodes, writes and drains.
Proceed(t, k, state) ==
  \/ /\ t \in Connectors
     /\ Exit(t, "connected")
     /\ stream' = k /\ conn' = state
     /\ UNCHANGED <<via, owed>>
  \/ /\ t \in BadUnit
     /\ Exit(t, "valueError")
     /\ stream' = k /\ conn' = state
     /\ UNCHANGED <<via, owed>>
  \/ /\ t \in Calls \ BadUnit /\ state[k] = "lost"
     /\ Teardown(t, "connError")
     /\ UNCHANGED owed
  \/ /\ t \in Calls \ BadUnit /\ state[k] # "lost"
     /\ via' = [via EXCEPT ![t] = k]
     /\ owed' = [owed EXCEPT ![k] = @ \cup {t}]
     /\ \E s \in {"draining", "reading"} : pc' = [pc EXCEPT ![t] = s]
     /\ lock' = t /\ stream' = k /\ conn' = state
     /\ UNCHANGED outcome

\* Fault: _closed is not looked at again once the lock is held.
Locked_NoRecheck(t) ==
  \/ /\ t \in Users /\ stream # NoConn
     /\ Proceed(t, stream, conn)
  \/ /\ t \in Users /\ stream = NoConn
     /\ lock' = t
     /\ pc' = [pc EXCEPT ![t] = "dialing"]
     /\ UNCHANGED <<stream, outcome, conn, via, owed>>
  \/ /\ t \in Closers
     /\ Teardown(t, "ended")
     /\ UNCHANGED owed

\* With the lock: _open_locked, then the rest.  close() tears down.
Locked(t) ==
  \/ /\ t \in Users /\ stream # NoConn
     /\ Proceed(t, stream, conn)
  \/ /\ t \in Users /\ stream = NoConn /\ closed
     /\ Exit(t, "closed")
     /\ UNCHANGED <<stream, conn, via, owed>>
  \/ /\ t \in Users /\ stream = NoConn /\ ~closed
     /\ lock' = t
     /\ pc' = [pc EXCEPT ![t] = "dialing"]
     /\ UNCHANGED <<stream, outcome, conn, via, owed>>
  \/ /\ t \in Closers
     /\ Teardown(t, "ended")
     /\ UNCHANGED owed

\* What read_rtu_response_async and decode_rtu_frame make of the next frame.
\* An unknown function code is raised after two bytes: the rest of the frame
\* stays in the stream and is what the next call parses.
Parse(f) == CASE f.kind = "ok" -> "response"
              [] OTHER -> "protocolError"

Remainder(s) == IF Head(s).kind = "unknownFc"
                THEN <<[Head(s) EXCEPT !.kind = "rest"]>> \o Tail(s)
                ELSE Tail(s)

-----------------------------------------------------------------------------
(* Steps of the tasks *)

Reject(t) ==
  /\ t \in Users /\ pc[t] = "idle"
  /\ closed \/ t \in EmptyPdu
  /\ pc' = [pc EXCEPT ![t] = "done"]
  /\ outcome' = [outcome EXCEPT ![t] = IF closed THEN "closed" ELSE "valueError"]
  /\ UNCHANGED <<closed, stream, lock, via, reply, wire>>

Enter(t) ==
  /\ pc[t] = "idle"
  /\ t \in Closers \/ (~closed /\ t \notin EmptyPdu)
  /\ closed' = (closed \/ t \in Closers)
  /\ IF LockFree
     THEN Locked(t)
     ELSE /\ pc' = [pc EXCEPT ![t] = "lockWait"]
          /\ UNCHANGED <<stream, lock, outcome, via, conn, owed>>
  /\ UNCHANGED <<reply, inbox>>

Acquire(t) ==
  /\ pc[t] = "lockWait" /\ lock = NoTask
  /\ Locked(t)
  /\ UNCHANGED <<closed, reply, inbox>>

DialOk(t, k) ==
  /\ pc[t] = "dialing"
  /\ conn[k] = "unused" /\ \A j \in Conns : j < k => conn[j] # "unused"
  /\ Proceed(t, k, [conn EXCEPT ![k] = "open"])
  /\ UNCHANGED <<closed, reply, inbox>>

DialFail(t) ==
  /\ pc[t] = "dialing"
  /\ Exit(t, "connError")
  /\ UNCHANGED <<closed, stream, via, reply, wire>>

DrainOk(c) ==
  /\ pc[c] = "draining"
  /\ pc' = [pc EXCEPT ![c] = "reading"]
  /\ UNCHANGED <<closed, stream, lock, outcome, via, reply, wire>>

DrainFail(c) ==
  /\ pc[c] = "draining" /\ conn[via[c]] = "lost"
  /\ Teardown(c, "connError")
  /\ UNCHANGED <<closed, reply, owed, inbox>>

\* A complete frame is read; nothing is torn down, whatever it holds.
ReadFrame(c) ==
  /\ pc[c] = "reading" /\ inbox[via[c]] # <<>>
  /\ LET f == Head(inbox[via[c]]) IN
       /\ Exit(c, Parse(f))
       /\ reply' = [reply EXCEPT ![c] = IF Parse(f) = "response" THEN f.req ELSE NoTask]
  /\ inbox' = [inbox EXCEPT ![via[c]] = Remainder(@)]
  /\ UNCHANGED <<closed, stream, via, conn, owed>>

\* IncompleteReadError or a reset.
ReadFail(c) ==
  /\ pc[c] = "reading"
  /\ \/ conn[via[c]] = "eof" /\ inbox[via[c]] = <<>>
     \/ conn[via[c]] = "lost"
  /\ Teardown(c, "connError")
  /\ UNCHANGED <<closed, reply, owed, inbox>>

\* Fault: the connection is kept after a timeout.
ReadTimeout_KeepsStream(c) ==
  /\ pc[c] = "reading"
  /\ Exit(c, "timeout")
  /\ UNCHANGED <<closed, stream, via, reply, wire>>

ReadTimeout(c) ==
  /\ pc[c] = "reading"
  /\ Teardown(c, "timeout")
  /\ UNCHANGED <<closed, reply, owed, inbox>>

TeardownDone(t) ==
  /\ pc[t] = "closing" /\ conn[via[t]] = "lost"
  /\ Exit(t, outcome[t])
  /\ UNCHANGED <<closed, stream, via, reply, wire>>

\* The user cancels the calling task: no handler catches CancelledError, so the
\* connection stays as it is.
CallerCancel(c) ==
  /\ c \in Cancellable
  /\ pc[c] \in {"lockWait", "dialing", "draining", "reading", "closing"}
  /\ pc' = [pc EXCEPT ![c] = "done"]
  /\ outcome' = [outcome EXCEPT ![c] = "cancelled"]
  /\ lock' = IF pc[c] = "lockWait" THEN lock ELSE NoTask
  /\ UNCHANGED <<closed, stream, via, reply, wire>>

-----------------------------------------------------------------------------
(* The peer and the network *)

Answer(k) ==
  /\ conn[k] = "open"
  /\ \E r \in owed[k], f \in FrameKinds :
       /\ owed' = [owed EXCEPT ![k] = @ \ {r}]
       /\ inbox' = [inbox EXCEPT ![k] = Append(@, [req |-> r, kind |-> f])]
  /\ UNCHANGED <<closed, stream, lock, pc, outcome, via, reply, conn>>

ConnStep(k, from, to) ==
  /\ conn[k] \in from
  /\ conn' = [conn EXCEPT ![k] = to]
  /\ UNCHANGED <<closed, stream, lock, pc, outcome, via, reply, owed, inbox>>

PeerEof(k) == ConnStep(k, {"open"}, "eof")
Reset(k) == ConnStep(k, {"open", "eof"}, "lost")
CloseDone(k) == ConnStep(k, {"closing"}, "lost")

-----------------------------------------------------------------------------
TaskStep(t) == \/ Reject(t) \/ Enter(t) \/ Acquire(t) \/ DialFail(t) \/ TeardownDone(t)
               \/ \E k \in Conns : DialOk(t, k)

CallStep(c) == \/ DrainOk(c) \/ DrainFail(c) \/ ReadFrame(c) \/ ReadFail(c)
               \/ ReadTimeout(c) \/ CallerCancel(c)

NetworkStep(k) == Answer(k) \/ PeerEof(k) \/ Reset(k) \/ CloseDone(k)

Terminated == (\A t \in Tasks : pc[t] = "done") /\ UNCHANGED vars

Next == \/ \E t \in Tasks : TaskStep(t)
        \/ \E c \in Calls : CallStep(c)
        \/ \E k \in Conns : NetworkStep(k)
        \/ Terminated

Spec == Init /\ [][Next]_vars

\* The lock is FIFO, dial and read have timeouts and a lost connection wakes the
\* tasks suspended in drain() and wait_closed().  Peers owe nothing: one that
\* stops reading keeps both waiting.
Fairness ==
  /\ \A t \in Tasks : /\ WF_vars(DialFail(t) \/ \E k \in Conns : DialOk(t, k))
                      /\ WF_vars(TeardownDone(t)) /\ SF_vars(Acquire(t))
  /\ \A c \in Calls : WF_vars(DrainFail(c)) /\ WF_vars(ReadTimeout(c))

LiveSpec == Spec /\ Fairness

-----------------------------------------------------------------------------
(* Properties *)

\* The values the attributes, the suspended tasks and the wire can have.
TypeOK ==
  /\ closed \in BOOLEAN /\ stream \in Conns \cup {NoConn}
  /\ lock \in Tasks \cup {NoTask}
  /\ pc \in [Tasks -> {"idle", "lockWait", "dialing", "draining", "reading",
                       "closing", "done"}]
  /\ outcome \in [Tasks -> {"none", "response", "protocolError", "timeout", "connError",
                            "cancelled", "closed", "valueError", "connected", "ended"}]
  /\ via \in [Tasks -> Conns \cup {NoConn}]
  /\ reply \in [Calls -> Calls \cup {NoTask}]
  /\ conn \in [Conns -> {"unused", "open", "eof", "closing", "lost"}]
  /\ owed \in [Conns -> SUBSET Calls]
  /\ inbox \in [Conns -> Seq(Frames)]

\* A call that ended without reading its response and without a teardown.
Abandoned(r) == outcome[r] \in {"cancelled", "protocolError"}

\* A call returns another call's response only if, on the same connection, some
\* earlier call was cancelled or raised a protocol error: timeouts, resets,
\* half-closed peers and send failures never leave a stale frame for the next
\* call, because they drop the connection.
StaleOnlyAfterAbandon ==
  \A c \in Calls : reply[c] \notin {c, NoTask} =>
    \E r \in Calls : r # c /\ via[r] = via[c] /\ Abandoned(r)

\* The lock covers the dial, so once close() has returned nothing reconnects.
ClosedStaysDisconnected ==
  (\E a \in Closers : pc[a] = "done") => stream = NoConn

\* The peer of k has stopped reading: a call is suspended in drain() on it, or
\* its socket cannot finish closing.
PeerStalls(k) ==
  \/ conn[k] = "closing"
  \/ \E c \in Calls : via[c] = k /\ pc[c] = "draining"

\* Calls, connects and closes end, with one way out: drain() and wait_closed()
\* are awaited under the lock and outside wait_for, so a peer that never reads
\* again may hold one call, and with it every later one and close().
OnlyPeerHoldsTasks ==
  \/ \E k \in Conns : <>[]PeerStalls(k)
  \/ <>[](\A t \in Tasks : pc[t] \in {"idle", "done"})
=============================================================================
