------------------------------- MODULE Server -------------------------------
(***************************************************************************)
(* pymod.server.Server: a Modbus TCP server with user callbacks.  start()  *)
(* and stop() calls run beside one _on_client handler task per accepted    *)
(* connection; an action is the run of one task from one suspension to the *)
(* next (asyncio of Python 3.11).                                          *)
(*                                                                         *)
(* A listener is named after the start() that opened it, a connection and  *)
(* its handler after the client.                                           *)
(***************************************************************************)
EXTENDS Integers, Sequences, FiniteSets

CONSTANTS Clients, Starters, Stoppers,
          MaxConnections,  \* the constructor's max_connections
          HasOnWrite,      \* was an on_write callback given?
          Ephemeral,       \* port=0: two listeners never collide
          Kinds,           \* what a request can look like, see AllKinds
          Talkers,         \* bound: clients that send requests,
          MaxRequests,     \*        and how many each
          NoServer

\* read, write: well formed, for this unit; illValue: its PDU does not decode;
\* unknown: no known function code; otherUnit: not for unit_id; badMbap:
\* decode_mbap_frame raises, for a frame without a PDU among others.
AllKinds == {"read", "write", "illValue", "unknown", "otherUnit", "badMbap"}

ASSUME LimitAssumption == MaxConnections \in Nat \ {0} /\ MaxRequests \in Nat
ASSUME ServerTaskAssumption == Starters \cap Stoppers = {} /\ NoServer \notin Starters
ASSUME OptionAssumption == /\ HasOnWrite \in BOOLEAN /\ Ephemeral \in BOOLEAN
                           /\ Kinds \subseteq AllKinds /\ Talkers \subseteq Clients

VARIABLES
  server,       \* _server: the start() that made it, or NoServer
  connections,  \* _connections
  clientTasks,  \* _client_tasks
  open,         \* listeners that accept connections
  pc,           \* where each start() / stop() is suspended
  writers,      \* stop()'s snapshot of the connections
  tasks,        \* stop()'s snapshot of the handler tasks
  rivals,       \* history: start() calls under way when this one set _server
  hpc,          \* where each handler is suspended
  conn,         \* state of each client's connection
  asked,        \* history: the requests each client sent
  taken,        \* how many of them its handler has read
  answers,      \* the responses handed to an open connection
  late          \* history: stop() calls past their task snapshot when the
                \* handler took its first step

lifeVars == <<server, open, pc, writers, tasks, rivals>>
wireVars == <<asked, taken, answers>>
vars == <<lifeVars, connections, clientTasks, hpc, conn, wireVars, late>>

Init ==
  /\ server = NoServer /\ open = {}
  /\ connections = {} /\ clientTasks = {}
  /\ pc = [t \in Starters \cup Stoppers |-> "idle"]
  /\ writers = [p \in Stoppers |-> {}] /\ tasks = [p \in Stoppers |-> {}]
  /\ rivals = [s \in Starters |-> {}]
  /\ hpc = [k \in Clients |-> "none"]
  /\ conn = [k \in Clients |-> "none"]
  /\ asked = [k \in Clients |-> <<>>]
  /\ taken = [k \in Clients |-> 0]
  /\ answers = [k \in Clients |-> <<>>]
  /\ late = [k \in Clients |-> {}]

-----------------------------------------------------------------------------
(* start() *)

Starting(s) == pc[s] \in {"binding", "listening"}

Start(s) ==
  /\ pc[s] = "idle"
  /\ pc' = [pc EXCEPT ![s] = IF server # NoServer THEN "done" ELSE "binding"]
  /\ UNCHANGED <<server, open, writers, tasks, rivals, connections, clientTasks, hpc,
                 conn, wireVars, late>>

\* asyncio.start_server listens, then yields once before it returns.
Bind(s) ==
  /\ pc[s] = "binding" /\ (Ephemeral \/ open = {})
  /\ open' = open \cup {s}
  /\ pc' = [pc EXCEPT ![s] = "listening"]
  /\ UNCHANGED <<server, writers, tasks, rivals, connections, clientTasks, hpc, conn,
                 wireVars, late>>

BindFail(s) ==
  /\ pc[s] = "binding"
  /\ pc' = [pc EXCEPT ![s] = "done"]
  /\ UNCHANGED <<server, open, writers, tasks, rivals, connections, clientTasks, hpc,
                 conn, wireVars, late>>

StartDone(s) ==
  /\ pc[s] = "listening"
  /\ server' = s
  /\ rivals' = [rivals EXCEPT ![s] = {r \in Starters \ {s} : Starting(r)}]
  /\ pc' = [pc EXCEPT ![s] = "done"]
  /\ UNCHANGED <<open, writers, tasks, connections, clientTasks, hpc, conn, wireVars, late>>

-----------------------------------------------------------------------------
(* stop(): three stretches of code; one follows the other without suspending
   when there is nothing to wait for.  Its locals end with it. *)

\* Fault: the listener is dropped without being closed.
ShutListener_Open(p) ==
  /\ clientTasks' = {}
  /\ server' = NoServer
  /\ writers' = [writers EXCEPT ![p] = {}] /\ tasks' = [tasks EXCEPT ![p] = {}]
  /\ pc' = [pc EXCEPT ![p] = "done"]
  /\ UNCHANGED open

\* `_client_tasks.clear()` and the listener.  wait_closed() does not suspend.
ShutListener(p) ==
  /\ clientTasks' = {}
  /\ open' = open \ {server}
  /\ server' = NoServer
  /\ writers' = [writers EXCEPT ![p] = {}] /\ tasks' = [tasks EXCEPT ![p] = {}]
  /\ pc' = [pc EXCEPT ![p] = "done"]

\* Faults: handler tasks are left alone; they are awaited but not cancelled.
CancelTasks_Skip(p) == ShutListener(p) /\ UNCHANGED hpc
CancelTasks_OnlyAwait(p) ==
  /\ pc' = [pc EXCEPT ![p] = "awaitTasks"]
  /\ tasks' = [tasks EXCEPT ![p] = clientTasks]
  /\ UNCHANGED <<hpc, writers, clientTasks, open, server>>

\* Cancel every handler task and await them.
CancelTasks(p) ==
  /\ hpc' = [k \in Clients |-> IF k \in clientTasks THEN "cancelled" ELSE hpc[k]]
  /\ IF clientTasks = {}
     THEN ShutListener(p)
     ELSE /\ pc' = [pc EXCEPT ![p] = "awaitTasks"]
          /\ tasks' = [tasks EXCEPT ![p] = clientTasks]
          /\ UNCHANGED <<writers, clientTasks, open, server>>

CloseWriter(c, k) == IF c[k] \in {"open", "eof"} THEN "closing" ELSE c[k]

Stop(p) ==
  /\ pc[p] = "idle"
  /\ connections' = {}
  /\ conn' = [k \in Clients |-> IF k \in connections THEN CloseWriter(conn, k)
                                ELSE conn[k]]
  /\ IF \A k \in connections : conn[k] = "lost"
     THEN CancelTasks(p)
     ELSE /\ pc' = [pc EXCEPT ![p] = "waitWriters"]
          /\ writers' = [writers EXCEPT ![p] = connections]
          /\ UNCHANGED <<tasks, hpc, clientTasks, open, server>>
  /\ UNCHANGED <<rivals, wireVars, late>>

WritersClosed(p) ==
  /\ pc[p] = "waitWriters" /\ \A k \in writers[p] : conn[k] = "lost"
  /\ CancelTasks(p)
  /\ UNCHANGED <<rivals, connections, conn, wireVars, late>>

TasksDone(p) ==
  /\ pc[p] = "awaitTasks" /\ \A k \in tasks[p] : hpc[k] = "done"
  /\ ShutListener(p)
  /\ UNCHANGED <<rivals, connections, hpc, conn, wireVars, late>>

-----------------------------------------------------------------------------
(* _on_client *)

\* Fault: the writer stays in _connections.
Finish_StaysCounted(k) ==
  /\ clientTasks' = clientTasks \ {k}
  /\ conn' = [conn EXCEPT ![k] = CloseWriter(conn, k)]
  /\ hpc' = [hpc EXCEPT ![k] = "done"]
  /\ UNCHANGED connections

\* Its finally clause.
Finish(k) ==
  /\ connections' = connections \ {k}
  /\ clientTasks' = clientTasks \ {k}
  /\ conn' = [conn EXCEPT ![k] = CloseWriter(conn, k)]
  /\ hpc' = [hpc EXCEPT ![k] = "done"]

\* The handler task's first step: over the limit the client is turned away.
Begin(k) ==
  /\ hpc[k] = "accepted"
  /\ IF Cardinality(connections) >= MaxConnections
     THEN /\ conn' = [conn EXCEPT ![k] = CloseWriter(conn, k)]
          /\ hpc' = [hpc EXCEPT ![k] = "rejecting"]
          /\ UNCHANGED <<connections, clientTasks, late>>
     ELSE /\ late' = [late EXCEPT ![k] = {p \in Stoppers : pc[p] \in {"awaitTasks", "done"}}]
          /\ connections' = connections \cup {k}
          /\ clientTasks' = clientTasks \cup {k}
          /\ hpc' = [hpc EXCEPT ![k] = "reading"]
          /\ UNCHANGED conn
  /\ UNCHANGED <<lifeVars, wireVars>>

Rejected(k) ==
  /\ hpc[k] = "rejecting" /\ conn[k] = "lost"
  /\ hpc' = [hpc EXCEPT ![k] = "done"]
  /\ UNCHANGED <<lifeVars, connections, clientTasks, conn, wireVars, late>>

\* _dispatch and _handle: the requests that reach a callback, and the code of
\* the response with (r) or without its help.  A callback's ModbusException is
\* passed on; anything else it raises, and a result of the wrong length or
\* range, is a device failure.
ReachesCallback(q) == q = "read" \/ (q = "write" /\ HasOnWrite)
CallbackResults(q) == {"ok", "modbusError", "otherError"}
                        \cup (IF q = "read" THEN {"badResult"} ELSE {})

Dispatch(q, r) ==
  CASE q = "otherUnit" -> "targetFailedToRespond"
    [] q = "illValue" -> "illegalDataValue"
    [] q = "unknown" \/ (q = "write" /\ ~HasOnWrite) -> "illegalFunction"
    [] r \in {"ok", "modbusError"} -> r
    [] OTHER -> "deviceFailure"

\* Write the response to request n and drain.  A closed transport drops the
\* bytes; drain() suspends on it, and on a full buffer.
Respond(k, n, code) ==
  /\ answers' = [answers EXCEPT ![k] = IF conn[k] \in {"open", "eof"}
                                       THEN Append(@, [req |-> n, code |-> code])
                                       ELSE @]
  /\ \E s \in (IF conn[k] \in {"open", "eof"} THEN {"reading"} ELSE {}) \cup {"draining"} :
       hpc' = [hpc EXCEPT ![k] = s]

ReadRequest(k) ==
  /\ hpc[k] = "reading" /\ taken[k] < Len(asked[k])
  /\ taken' = [taken EXCEPT ![k] = @ + 1]
  /\ LET q == asked[k][taken[k] + 1] IN
       \/ q = "badMbap" /\ UNCHANGED <<hpc, answers>>
       \/ /\ ReachesCallback(q)
          /\ hpc' = [hpc EXCEPT ![k] = "callback"]
          /\ UNCHANGED answers
       \/ /\ q # "badMbap" /\ ~ReachesCallback(q)
          /\ Respond(k, taken[k] + 1, Dispatch(q, "ok"))
  /\ UNCHANGED <<lifeVars, connections, clientTasks, conn, asked, late>>

\* Fault: nothing is answered when the callback raises.
CallbackDone_Silent(k) ==
  /\ hpc[k] = "callback"
  /\ hpc' = [hpc EXCEPT ![k] = "reading"]
  /\ UNCHANGED <<lifeVars, connections, clientTasks, conn, wireVars, late>>

CallbackDone(k) ==
  /\ hpc[k] = "callback"
  /\ \E r \in CallbackResults(asked[k][taken[k]]) :
       Respond(k, taken[k], Dispatch(asked[k][taken[k]], r))
  /\ UNCHANGED <<lifeVars, connections, clientTasks, conn, asked, taken, late>>

DrainDone(k) ==
  /\ hpc[k] = "draining"
  /\ \/ /\ hpc' = [hpc EXCEPT ![k] = "reading"]
        /\ UNCHANGED <<connections, clientTasks, conn>>
     \/ /\ conn[k] = "lost"
        /\ Finish(k)
  /\ UNCHANGED <<lifeVars, wireVars, late>>

\* IncompleteReadError or ConnectionResetError.
ReadEnd(k) ==
  /\ hpc[k] = "reading" /\ taken[k] = Len(asked[k]) /\ conn[k] \in {"eof", "lost"}
  /\ Finish(k)
  /\ UNCHANGED <<lifeVars, wireVars, late>>

\* CancelledError from stop().
HandlerCancelled(k) ==
  /\ hpc[k] = "cancelled"
  /\ Finish(k)
  /\ UNCHANGED <<lifeVars, wireVars, late>>

-----------------------------------------------------------------------------
(* Clients and the network *)

Accept(k) ==
  /\ open # {} /\ hpc[k] = "none"
  /\ hpc' = [hpc EXCEPT ![k] = "accepted"]
  /\ conn' = [conn EXCEPT ![k] = "open"]
  /\ UNCHANGED <<lifeVars, connections, clientTasks, wireVars, late>>

ClientSend(k) ==
  /\ k \in Talkers /\ conn[k] = "open" /\ Len(asked[k]) < MaxRequests
  /\ \E q \in Kinds : asked' = [asked EXCEPT ![k] = Append(@, q)]
  /\ UNCHANGED <<lifeVars, connections, clientTasks, hpc, conn, taken, answers, late>>

ClientEof(k) ==
  /\ conn[k] = "open"
  /\ conn' = [conn EXCEPT ![k] = "eof"]
  /\ UNCHANGED <<lifeVars, connections, clientTasks, hpc, wireVars, late>>

\* A reset also discards what the handler has not read yet.
Reset(k) ==
  /\ conn[k] \in {"open", "eof"}
  /\ conn' = [conn EXCEPT ![k] = "lost"]
  /\ asked' = [asked EXCEPT ![k] = SubSeq(@, 1, taken[k])]
  /\ UNCHANGED <<lifeVars, connections, clientTasks, hpc, taken, answers, late>>

CloseDone(k) ==
  /\ conn[k] = "closing"
  /\ conn' = [conn EXCEPT ![k] = "lost"]
  /\ UNCHANGED <<lifeVars, connections, clientTasks, hpc, wireVars, late>>

-----------------------------------------------------------------------------
HandlerStep(k) == \/ Begin(k) \/ Rejected(k) \/ ReadRequest(k) \/ CallbackDone(k)
                  \/ DrainDone(k) \/ ReadEnd(k) \/ HandlerCancelled(k)

NetworkStep(k) == \/ Accept(k) \/ ClientSend(k) \/ ClientEof(k) \/ Reset(k)
                  \/ CloseDone(k)

Terminated == /\ \A t \in Starters \cup Stoppers : pc[t] = "done"
              /\ UNCHANGED vars

Next == \/ \E s \in Starters : Start(s) \/ Bind(s) \/ BindFail(s) \/ StartDone(s)
        \/ \E p \in Stoppers : Stop(p) \/ WritersClosed(p) \/ TasksDone(p)
        \/ \E k \in Clients : HandlerStep(k) \/ NetworkStep(k)
        \/ Terminated

Spec == Init /\ [][Next]_vars

\* The event loop runs every ready task.  Callbacks may hang, and clients owe
\* nothing: one that stops reading keeps drain() and wait_closed() waiting.
Fairness ==
  /\ \A s \in Starters : WF_vars(Bind(s) \/ BindFail(s)) /\ WF_vars(StartDone(s))
  /\ \A p \in Stoppers : WF_vars(WritersClosed(p)) /\ WF_vars(TasksDone(p))
  /\ \A k \in Clients : WF_vars(HandlerCancelled(k)) /\ WF_vars(ReadEnd(k))

LiveSpec == Spec /\ Fairness

-----------------------------------------------------------------------------
(* Properties *)

Responses == {"ok", "modbusError", "targetFailedToRespond", "illegalDataValue",
              "illegalFunction", "deviceFailure"}

\* The values the attributes, the suspended tasks and the wire can have.
TypeOK ==
  /\ server \in Starters \cup {NoServer} /\ open \subseteq Starters
  /\ connections \subseteq Clients /\ clientTasks \subseteq Clients
  /\ pc \in [Starters \cup Stoppers -> {"idle", "binding", "listening", "waitWriters",
                                        "awaitTasks", "done"}]
  /\ writers \in [Stoppers -> SUBSET Clients] /\ tasks \in [Stoppers -> SUBSET Clients]
  /\ rivals \in [Starters -> SUBSET Starters]
  /\ hpc \in [Clients -> {"none", "accepted", "rejecting", "reading", "callback",
                          "draining", "cancelled", "done"}]
  /\ conn \in [Clients -> {"none", "open", "eof", "closing", "lost"}]
  /\ asked \in [Clients -> Seq(Kinds)] /\ taken \in [Clients -> Nat]
  /\ answers \in [Clients -> Seq([req : Nat, code : Responses])]
  /\ late \in [Clients -> SUBSET Stoppers]

\* A handler that serves a client, or is about to be unwound by stop().
Live(k) == hpc[k] \in {"reading", "callback", "draining", "cancelled"}

\* active_connections never counts a handler that is gone, never exceeds
\* max_connections, and misses a live handler only after stop() closed its
\* connection: a handler that forgot to deregister, or one that survived
\* uncounted on an open connection, would make the limit wrong forever.
ConnectionsTracked ==
  /\ \A k \in connections : Live(k)
  /\ \A k \in Clients : Live(k) /\ k \notin connections => conn[k] \in {"closing", "lost"}
  /\ Cardinality(connections) <= MaxConnections

\* When stop() has returned, a handler that is still alive took its first step
\* after some stop() had already listed the tasks to cancel.
SurvivorStartedLate ==
  (\E p \in Stoppers : pc[p] = "done") =>
    \A k \in Clients : Live(k) => late[k] # {}

\* A listener is left open without _server to close it only if a second
\* start() was under way when the first set _server.
ListenerLostOnlyByRace ==
  \A s \in open : \/ s = server \/ pc[s] = "listening"
                  \/ rivals[s] # {}

\* The requests among the first n that deserve an answer.
WellFormedBefore(k, n) == {i \in 1..n : asked[k][i] # "badMbap"}

\* The responses a client receives answer its well-formed requests, each once
\* and in the order they were sent: a malformed frame is skipped without
\* shifting the rest, and after a response is lost to stop() none follows.
ResponsesInOrder ==
  \A k \in Clients :
    LET served == WellFormedBefore(k, taken[k])
        n == Len(answers[k]) IN
    /\ n <= Cardinality(served)
    /\ \A i \in 1..n : /\ answers[k][i].req \in served
                       /\ Cardinality(WellFormedBefore(k, answers[k][i].req)) = i
    /\ conn[k] \in {"open", "eof"} /\ hpc[k] = "reading" => n = Cardinality(served)

\* start() and stop() return even if callbacks hang, with one way out: stop()
\* awaits wait_closed() of each connection without a timeout, before it cancels
\* anything, so a client that never reads its responses may hold it.
OnlyClientsHoldStop ==
  \/ \E k \in Clients : <>[](conn[k] = "closing")
  \/ <>[](\A t \in Starters \cup Stoppers : pc[t] \in {"idle", "done"})
=============================================================================
