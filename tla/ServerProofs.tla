---------------------------- MODULE ServerProofs ----------------------------
(***************************************************************************)
(* Proofs about Server for every set of clients, start() and stop() calls, *)
(* every connection limit and every mix of requests.                       *)
(***************************************************************************)
EXTENDS Server, FiniteSetTheorems, TLAPS

-----------------------------------------------------------------------------
(* The inductive invariants *)

\* The handlers stop() would cancel are alive, and the connections counted are
\* a finite set within the limit.
HandlerInv ==
  /\ \A k \in clientTasks : Live(k)
  /\ \A k \in Clients : conn[k] = "none" => hpc[k] = "none"
  /\ IsFiniteSet(connections)
  /\ ConnectionsTracked

\* A live handler that no stop() missed is known to the server, and to every
\* stop() that is waiting for the handlers.
LateInv ==
  /\ \A k \in Clients : Live(k) /\ late[k] = {} => k \in clientTasks
  /\ \A p \in Stoppers : pc[p] = "awaitTasks" =>
       \A k \in Clients : Live(k) /\ late[k] = {} => k \in tasks[p]
  /\ SurvivorStartedLate

\* While an unrivalled start() owns _server, no other start() is under way.
ListenerInv ==
  /\ server # NoServer /\ rivals[server] = {} => \A s \in Starters : ~Starting(s)
  /\ ListenerLostOnlyByRace

\* The bytes of client k still get through.
Connected(k) == conn[k] \in {"open", "eof"}

\* Where client k's responses stand: every well-formed request its handler has
\* read is answered, but for the one in the callback.
ProgressInv(k) ==
  LET served == Cardinality(WellFormedBefore(k, taken[k]))
      n == Len(answers[k]) IN
  /\ taken[k] <= Len(asked[k])
  /\ hpc[k] \in {"none", "accepted"} => taken[k] = 0 /\ n = 0
  /\ hpc[k] = "callback" => taken[k] \in 1..Len(asked[k]) /\ asked[k][taken[k]] # "badMbap"
  /\ Connected(k) /\ hpc[k] \in {"reading", "draining"} => n = served
  /\ Connected(k) /\ hpc[k] = "callback" => n + 1 = served

OrderInv == ResponsesInOrder /\ \A k \in Clients : ProgressInv(k)

IInv == TypeOK /\ HandlerInv /\ LateInv /\ ListenerInv /\ OrderInv

-----------------------------------------------------------------------------
(* Types *)

\* The types of the requests and responses on the wire, and all the others.
WireTypes ==
  /\ asked \in [Clients -> Seq(Kinds)] /\ taken \in [Clients -> Nat]
  /\ answers \in [Clients -> Seq([req : Nat, code : Responses])]
TaskStates == {"idle", "binding", "listening", "waitWriters", "awaitTasks", "done"}
HandlerStates == {"none", "accepted", "rejecting", "reading", "callback", "draining", "cancelled", "done"}
ConnStates == {"none", "open", "eof", "closing", "lost"}
LifeTypes ==
  /\ server \in Starters \cup {NoServer} /\ open \subseteq Starters
  /\ connections \subseteq Clients /\ clientTasks \subseteq Clients
  /\ pc \in [Starters \cup Stoppers -> TaskStates]
  /\ writers \in [Stoppers -> SUBSET Clients] /\ tasks \in [Stoppers -> SUBSET Clients]
  /\ rivals \in [Starters -> SUBSET Starters]
  /\ hpc \in [Clients -> HandlerStates] /\ conn \in [Clients -> ConnStates]
  /\ late \in [Clients -> SUBSET Stoppers]

\* Together they are the type invariant.
LEMMA TypeParts == /\ TypeOK <=> LifeTypes /\ WireTypes
                   /\ TypeOK' <=> LifeTypes' /\ WireTypes'
BY DEF TypeOK, LifeTypes, WireTypes, TaskStates, HandlerStates, ConnStates

\* Whatever a request is and whatever its callback does, the response has one
\* of the codes of the protocol.
LEMMA DispatchTypes ==
  ASSUME NEW q \in Kinds, q # "badMbap",
         NEW r \in {"ok", "modbusError", "otherError", "badResult"}
  PROVE  Dispatch(q, r) \in Responses
BY OptionAssumption DEF Dispatch, Responses, AllKinds

\* A response is appended to what the client has received, if it still can.
LEMMA RespondTypes ==
  ASSUME LifeTypes, WireTypes, NEW k \in Clients, NEW n \in Nat, NEW code \in Responses, Respond(k, n, code)
  PROVE  /\ answers' \in [Clients -> Seq([req : Nat, code : Responses])]
         /\ hpc' \in [Clients -> HandlerStates]
<1>1. answers[k] \in Seq([req : Nat, code : Responses])
  BY DEF WireTypes
<1>2. [req |-> n, code |-> code] \in [req : Nat, code : Responses]
  OBVIOUS
<1>3. Append(answers[k], [req |-> n, code |-> code]) \in Seq([req : Nat, code : Responses])
  BY <1>1, <1>2
<1> QED BY <1>3 DEF Respond, LifeTypes, WireTypes, HandlerStates

\* Every step keeps the types.
LEMMA TypeOKStep == TypeOK /\ OrderInv /\ [Next]_vars => TypeOK'
<1> SUFFICES ASSUME LifeTypes, WireTypes, OrderInv, [Next]_vars PROVE LifeTypes' /\ WireTypes'
  BY TypeParts
<1>0. UNCHANGED wireVars => WireTypes'
  BY DEF WireTypes, wireVars
<1>1. CASE \E s \in Starters : Start(s) \/ Bind(s) \/ BindFail(s) \/ StartDone(s)
  BY <1>0, <1>1 DEF Start, Bind, BindFail, StartDone, LifeTypes, TaskStates, HandlerStates, ConnStates
<1>2. ASSUME NEW p \in Stoppers, ShutListener(p)
      PROVE  /\ server' \in Starters \cup {NoServer} /\ open' \subseteq Starters /\ clientTasks' = {}
             /\ pc' \in [Starters \cup Stoppers -> TaskStates]
             /\ writers' \in [Stoppers -> SUBSET Clients] /\ tasks' \in [Stoppers -> SUBSET Clients]
  BY <1>2 DEF ShutListener, LifeTypes, TaskStates, HandlerStates, ConnStates
<1>3. ASSUME NEW p \in Stoppers, CancelTasks(p), UNCHANGED <<rivals, late>>,
             connections' \subseteq Clients, conn' \in [Clients -> ConnStates]
      PROVE  LifeTypes'
  <2>1. hpc' \in [Clients -> HandlerStates]
    BY <1>3 DEF CancelTasks, LifeTypes, TaskStates, HandlerStates, ConnStates
  <2>2. CASE clientTasks = {}
    BY <1>2, <1>3, <2>1, <2>2 DEF CancelTasks, LifeTypes, TaskStates, HandlerStates, ConnStates
  <2>3. CASE clientTasks # {}
    BY <1>3, <2>1, <2>3 DEF CancelTasks, LifeTypes, TaskStates, HandlerStates, ConnStates
  <2> QED BY <2>2, <2>3
<1>4. CASE \E p \in Stoppers : Stop(p)
  <2>1. PICK p \in Stoppers : Stop(p)
    BY <1>4
  <2>2. connections' = {} /\ conn' \in [Clients -> ConnStates]
    BY <2>1 DEF Stop, CloseWriter, LifeTypes, ConnStates
  <2>3. CASE \A k \in connections : conn[k] = "lost"
    BY <1>0, <1>3, <2>1, <2>2, <2>3 DEF Stop
  <2>4. CASE ~ \A k \in connections : conn[k] = "lost"
    BY <1>0, <2>1, <2>2, <2>4 DEF Stop, LifeTypes, TaskStates, HandlerStates, ConnStates
  <2> QED BY <2>3, <2>4
<1>5. CASE \E p \in Stoppers : WritersClosed(p)
  BY <1>0, <1>3, <1>5 DEF WritersClosed, LifeTypes
<1>6. CASE \E p \in Stoppers : TasksDone(p)
  BY <1>0, <1>2, <1>6 DEF TasksDone, LifeTypes, TaskStates, HandlerStates, ConnStates
<1>7. CASE \E k \in Clients : Begin(k) \/ Rejected(k) \/ DrainDone(k) \/ ReadEnd(k) \/ HandlerCancelled(k)
  <2>1. PICK k \in Clients : Begin(k) \/ Rejected(k) \/ DrainDone(k) \/ ReadEnd(k) \/ HandlerCancelled(k)
    BY <1>7
  <2>2. conn' \in [Clients -> ConnStates]
    BY <2>1 DEF Begin, Rejected, DrainDone, ReadEnd, HandlerCancelled, Finish, CloseWriter, LifeTypes, ConnStates
  <2> QED BY <1>0, <2>1, <2>2
          DEF Begin, Rejected, DrainDone, ReadEnd, HandlerCancelled, Finish, lifeVars, LifeTypes, TaskStates, HandlerStates, ConnStates
<1>8. CASE \E k \in Clients : ReadRequest(k)
  <2>1. PICK k \in Clients : ReadRequest(k)
    BY <1>8
  <2>2. asked[k] \in Seq(Kinds) /\ taken[k] \in Nat /\ taken[k] + 1 \in 1..Len(asked[k])
    BY <2>1 DEF ReadRequest, WireTypes
  <2>3. PICK q \in Kinds : q = asked[k][taken[k] + 1]
    BY <2>2
  <2>4. taken' \in [Clients -> Nat]
    BY <2>1, <2>2 DEF ReadRequest, WireTypes
  <2>5. CASE q # "badMbap" /\ Respond(k, taken[k] + 1, Dispatch(q, "ok"))
    <3>1. Dispatch(q, "ok") \in Responses
      BY <2>5, DispatchTypes
    <3> QED BY <2>1, <2>2, <2>4, <2>5, <3>1, RespondTypes DEF ReadRequest, LifeTypes, WireTypes, lifeVars
  <2>6. CASE UNCHANGED answers /\ (UNCHANGED hpc \/ hpc' = [hpc EXCEPT ![k] = "callback"])
    BY <2>1, <2>4, <2>6 DEF ReadRequest, WireTypes, lifeVars, LifeTypes, TaskStates, HandlerStates, ConnStates
  <2> QED BY <2>1, <2>3, <2>5, <2>6 DEF ReadRequest
<1>9. CASE \E k \in Clients : CallbackDone(k)
  <2>1. PICK k \in Clients : CallbackDone(k)
    BY <1>9
  <2>2. asked[k] \in Seq(Kinds) /\ taken[k] \in 1..Len(asked[k]) /\ asked[k][taken[k]] # "badMbap"
    BY <2>1 DEF CallbackDone, WireTypes, OrderInv, ProgressInv
  <2>3. PICK q \in Kinds : q = asked[k][taken[k]]
    BY <2>2
  <2>4. PICK r \in {"ok", "modbusError", "otherError", "badResult"} : Respond(k, taken[k], Dispatch(q, r))
    BY <2>1, <2>3 DEF CallbackDone, CallbackResults
  <2>5. Dispatch(q, r) \in Responses
    BY <2>2, <2>3, DispatchTypes
  <2> QED BY <2>1, <2>4, <2>5, RespondTypes DEF CallbackDone, LifeTypes, WireTypes, lifeVars
<1>10. CASE \E k \in Clients : Accept(k) \/ ClientEof(k) \/ CloseDone(k)
  BY <1>0, <1>10 DEF Accept, ClientEof, CloseDone, lifeVars, LifeTypes, TaskStates, HandlerStates, ConnStates
<1>11. CASE \E k \in Clients : ClientSend(k)
  <2>1. PICK k \in Clients, q \in Kinds : ClientSend(k) /\ asked' = [asked EXCEPT ![k] = Append(@, q)]
    BY <1>11 DEF ClientSend
  <2>2. Append(asked[k], q) \in Seq(Kinds)
    BY DEF WireTypes
  <2> QED BY <2>1, <2>2 DEF ClientSend, WireTypes, lifeVars, LifeTypes, TaskStates, HandlerStates, ConnStates
<1>12. CASE \E k \in Clients : Reset(k)
  <2>1. PICK k \in Clients : Reset(k)
    BY <1>12
  <2>2. asked[k] \in Seq(Kinds) /\ taken[k] \in Nat /\ taken[k] <= Len(asked[k])
    BY DEF WireTypes, OrderInv, ProgressInv
  <2>3. SubSeq(asked[k], 1, taken[k]) \in Seq(Kinds)
    BY <2>2
  <2> QED BY <2>1, <2>3 DEF Reset, WireTypes, lifeVars, LifeTypes, TaskStates, HandlerStates, ConnStates
<1>13. CASE UNCHANGED vars
  BY <1>13 DEF vars, lifeVars, wireVars, LifeTypes, WireTypes
<1> QED BY <1>1, <1>4, <1>5, <1>6, <1>7, <1>8, <1>9, <1>10, <1>11, <1>12, <1>13
        DEF Next, HandlerStep, NetworkStep, Terminated

-----------------------------------------------------------------------------
(* Handlers and stop() *)

\* What a stretch of stop() ends in: it waits for the connections, for the
\* handlers it cancelled, or it has closed the listener.
WaitsWriters(p) == /\ pc' = [pc EXCEPT ![p] = "waitWriters"]
                   /\ UNCHANGED <<tasks, hpc, clientTasks, open, server>>
WaitsTasks(p) == /\ pc' = [pc EXCEPT ![p] = "awaitTasks"]
                 /\ tasks' = [tasks EXCEPT ![p] = clientTasks]
                 /\ hpc' = [k \in Clients |-> IF k \in clientTasks THEN "cancelled" ELSE hpc[k]]
                 /\ UNCHANGED <<clientTasks, open, server>>
Shuts(p) == /\ pc' = [pc EXCEPT ![p] = "done"]
            /\ clientTasks' = {} /\ open' = open \ {server} /\ server' = NoServer
            /\ tasks' = [tasks EXCEPT ![p] = {}]
            /\ UNCHANGED hpc
            /\ clientTasks = {} \/ (pc[p] = "awaitTasks" /\ \A k \in tasks[p] : hpc[k] = "done")

\* Every stretch of stop() ends in one of these.
LEMMA StopCases ==
  ASSUME TypeOK, NEW p \in Stoppers, Stop(p) \/ WritersClosed(p) \/ TasksDone(p)
  PROVE  /\ WaitsWriters(p) \/ WaitsTasks(p) \/ Shuts(p)
         /\ UNCHANGED <<rivals, late, wireVars>>
         /\ \/ UNCHANGED <<connections, conn>>
            \/ /\ connections' = {}
               /\ \A k \in connections : conn'[k] \in {"closing", "lost", "none"} /\ (conn'[k] = "none" => conn[k] = "none")
               /\ \A k \in Clients \ connections : conn'[k] = conn[k]
         /\ pc[p] \in {"idle", "waitWriters", "awaitTasks"}
<1>1. CancelTasks(p) => WaitsTasks(p) \/ Shuts(p)
  <2>1. clientTasks = {} /\ CancelTasks(p) => hpc' = hpc
    BY DEF CancelTasks, TypeOK
  <2> QED BY <2>1 DEF CancelTasks, ShutListener, WaitsTasks, Shuts
<1>2. CASE Stop(p)
  <2>1. /\ connections' = {} /\ connections \subseteq Clients
        /\ \A k \in connections : conn'[k] = CloseWriter(conn, k)
        /\ \A k \in Clients \ connections : conn'[k] = conn[k]
    BY <1>2 DEF Stop, TypeOK
  <2>2. \A k \in connections : conn'[k] \in {"closing", "lost", "none"} /\ (conn'[k] = "none" => conn[k] = "none")
    BY <2>1 DEF CloseWriter, TypeOK
  <2>3. WaitsWriters(p) \/ WaitsTasks(p) \/ Shuts(p)
    BY <1>1, <1>2 DEF Stop, WaitsWriters
  <2> QED BY <1>2, <2>1, <2>2, <2>3 DEF Stop
<1>3. CASE WritersClosed(p)
  BY <1>1, <1>3 DEF WritersClosed
<1>4. CASE TasksDone(p)
  BY <1>4 DEF TasksDone, ShutListener, Shuts
<1> QED BY <1>2, <1>3, <1>4

\* stop() kills no handler by itself: it has them cancelled.
LEMMA StopLive ==
  ASSUME TypeOK, HandlerInv, NEW p \in Stoppers, WaitsWriters(p) \/ WaitsTasks(p) \/ Shuts(p)
  PROVE  \A k \in Clients : Live(k)' <=> Live(k)
BY DEF WaitsWriters, WaitsTasks, Shuts, HandlerInv, Live, TypeOK

\* A step of one handler or of its client, with the connection limit as it is.
LEMMA HandlerKept ==
  ASSUME TypeOK, HandlerInv, NEW k \in Clients,
         \A j \in Clients : j # k => hpc'[j] = hpc[j] /\ conn'[j] = conn[j],
         \/ connections' = connections /\ clientTasks' = clientTasks /\ (Live(k)' <=> Live(k))
         \/ connections' = connections \ {k} /\ clientTasks' = clientTasks \ {k} /\ ~Live(k)',
         Live(k)' /\ conn[k] \in {"closing", "lost"} => conn'[k] \in {"closing", "lost"},
         conn'[k] = "none" => hpc'[k] = "none"
  PROVE  HandlerInv'
<1>1. IsFiniteSet(connections') /\ Cardinality(connections') <= MaxConnections
  <2>1. IsFiniteSet(connections \ {k}) /\ Cardinality(connections \ {k}) <= Cardinality(connections)
    BY FS_Subset DEF HandlerInv
  <2>2. Cardinality(connections) \in Nat /\ Cardinality(connections \ {k}) \in Nat /\ MaxConnections \in Nat
    BY <2>1, FS_CardinalityType, LimitAssumption DEF HandlerInv
  <2> QED BY <2>1, <2>2 DEF HandlerInv, ConnectionsTracked
<1>2. \A j \in Clients : j # k => (Live(j)' <=> Live(j))
  BY DEF Live
<1>3. connections \subseteq Clients /\ clientTasks \subseteq Clients
  BY DEF TypeOK
<1>4. \A j \in clientTasks' : Live(j)'
  BY <1>2, <1>3 DEF HandlerInv
<1>5. \A j \in connections' : Live(j)'
  BY <1>2, <1>3 DEF HandlerInv, ConnectionsTracked
<1>6. \A j \in Clients : Live(j)' /\ j \notin connections' => conn'[j] \in {"closing", "lost"}
  BY <1>2 DEF HandlerInv, ConnectionsTracked
<1>7. \A j \in Clients : conn'[j] = "none" => hpc'[j] = "none"
  BY DEF HandlerInv
<1> QED BY <1>1, <1>4, <1>5, <1>6, <1>7 DEF HandlerInv, ConnectionsTracked

\* Every step keeps the connections tracked.
LEMMA HandlerInvStep == TypeOK /\ HandlerInv /\ [Next]_vars => HandlerInv'
<1> SUFFICES ASSUME TypeOK, HandlerInv, [Next]_vars PROVE HandlerInv'
  OBVIOUS
<1>1. CASE UNCHANGED <<connections, clientTasks, hpc, conn>>
  BY <1>1 DEF HandlerInv, ConnectionsTracked, Live
<1>2. CASE \E p \in Stoppers : Stop(p) \/ WritersClosed(p) \/ TasksDone(p)
  <2>1. PICK p \in Stoppers : Stop(p) \/ WritersClosed(p) \/ TasksDone(p)
    BY <1>2
  <2>2. \A k \in Clients : Live(k)' <=> Live(k)
    BY <2>1, StopCases, StopLive
  <2>3. clientTasks' \subseteq clientTasks /\ clientTasks \subseteq Clients /\ connections \subseteq Clients
    BY <2>1, StopCases DEF WaitsWriters, WaitsTasks, Shuts, TypeOK
  <2>4. CASE UNCHANGED <<connections, conn>>
    <3>1. \A k \in Clients : hpc[k] = "none" => hpc'[k] = "none"
      BY <2>1, StopCases DEF WaitsWriters, WaitsTasks, Shuts, HandlerInv, Live
    <3> QED BY <2>2, <2>3, <2>4, <3>1 DEF HandlerInv, ConnectionsTracked
  <2>5. CASE /\ connections' = {}
             /\ \A k \in connections : conn'[k] \in {"closing", "lost", "none"} /\ (conn'[k] = "none" => conn[k] = "none")
             /\ \A k \in Clients \ connections : conn'[k] = conn[k]
    <3>1. IsFiniteSet(connections') /\ Cardinality(connections') = 0
      BY <2>5, FS_EmptySet
    <3>2. \A k \in connections : conn[k] # "none"
      BY <2>3 DEF HandlerInv, ConnectionsTracked, Live
    <3>3. \A k \in Clients : conn'[k] = "none" => conn[k] = "none" /\ hpc[k] = "none"
      BY <2>5 DEF HandlerInv
    <3>4. \A k \in Clients : conn'[k] = "none" => hpc'[k] = "none"
      BY <2>1, <3>3, StopCases DEF WaitsWriters, WaitsTasks, Shuts, HandlerInv, Live
    <3> QED BY <2>2, <2>3, <2>5, <3>1, <3>2, <3>4, LimitAssumption DEF HandlerInv, ConnectionsTracked
  <2> QED BY <2>1, <2>4, <2>5, StopCases
<1>3. CASE \E k \in Clients : Begin(k)
  <2>1. PICK k \in Clients : Begin(k)
    BY <1>3
  <2>2. CASE Cardinality(connections) >= MaxConnections
    <3>1. /\ UNCHANGED <<connections, clientTasks>> /\ ~Live(k) /\ ~Live(k)'
          /\ \A j \in Clients : j # k => hpc'[j] = hpc[j] /\ conn'[j] = conn[j]
          /\ conn'[k] # "none"
      BY <2>1, <2>2 DEF Begin, TypeOK, Live, CloseWriter, HandlerInv
    <3> QED BY <3>1, HandlerKept
  <2>3. CASE ~(Cardinality(connections) >= MaxConnections)
    <3>1. /\ connections' = connections \cup {k} /\ clientTasks' = clientTasks \cup {k}
          /\ hpc[k] = "accepted" /\ Live(k)' /\ UNCHANGED conn /\ conn[k] # "none"
          /\ \A j \in Clients : j # k => hpc'[j] = hpc[j]
      BY <2>1, <2>3 DEF Begin, TypeOK, Live, HandlerInv
    <3>2. IsFiniteSet(connections') /\ Cardinality(connections') <= MaxConnections
      <4>1. k \notin connections
        BY <3>1 DEF HandlerInv, ConnectionsTracked, Live
      <4>2. IsFiniteSet(connections') /\ Cardinality(connections') = Cardinality(connections) + 1
        BY <3>1, <4>1, FS_AddElement DEF HandlerInv
      <4>3. Cardinality(connections) \in Nat /\ MaxConnections \in Nat
        BY FS_CardinalityType, LimitAssumption DEF HandlerInv
      <4> QED BY <2>3, <4>2, <4>3
    <3>3. \A j \in Clients : j # k => (Live(j)' <=> Live(j))
      BY <3>1 DEF Live
    <3> QED BY <3>1, <3>2, <3>3 DEF HandlerInv, ConnectionsTracked, TypeOK
  <2> QED BY <2>2, <2>3
<1>4. CASE \E k \in Clients : Rejected(k)
  BY <1>4, HandlerKept DEF Rejected, TypeOK, Live, HandlerInv
<1>5. ASSUME NEW k \in Clients, Finish(k), hpc[k] # "none" PROVE HandlerInv'
  <2>1. /\ \A j \in Clients : j # k => hpc'[j] = hpc[j] /\ conn'[j] = conn[j]
        /\ ~Live(k)' /\ conn'[k] # "none"
    BY <1>5 DEF Finish, TypeOK, Live, CloseWriter, HandlerInv
  <2> QED BY <1>5, <2>1, HandlerKept DEF Finish
<1>6. CASE \E k \in Clients : ReadRequest(k) \/ CallbackDone(k)
  <2>1. PICK k \in Clients : ReadRequest(k) \/ CallbackDone(k)
    BY <1>6
  <2>2. /\ UNCHANGED <<connections, clientTasks, conn>> /\ hpc[k] \in {"reading", "callback"}
        /\ UNCHANGED hpc \/ \E st \in {"reading", "callback", "draining"} : hpc' = [hpc EXCEPT ![k] = st]
    BY <2>1 DEF ReadRequest, CallbackDone, Respond
  <2>3. Live(k) /\ Live(k)' /\ conn[k] # "none" /\ \A j \in Clients : j # k => hpc'[j] = hpc[j]
    BY <2>2 DEF Live, TypeOK, HandlerInv
  <2> QED BY <2>2, <2>3, HandlerKept
<1>7. CASE \E k \in Clients : DrainDone(k)
  <2>1. PICK k \in Clients : DrainDone(k)
    BY <1>7
  <2>2. CASE Finish(k)
    BY <1>5, <2>1, <2>2 DEF DrainDone
  <2>3. CASE hpc' = [hpc EXCEPT ![k] = "reading"] /\ UNCHANGED <<connections, clientTasks, conn>>
    <3>1. Live(k) /\ Live(k)' /\ conn[k] # "none" /\ \A j \in Clients : j # k => hpc'[j] = hpc[j]
      BY <2>1, <2>3 DEF DrainDone, Live, TypeOK, HandlerInv
    <3> QED BY <2>3, <3>1, HandlerKept
  <2> QED BY <2>1, <2>2, <2>3 DEF DrainDone
<1>8. CASE \E k \in Clients : ReadEnd(k) \/ HandlerCancelled(k)
  BY <1>5, <1>8 DEF ReadEnd, HandlerCancelled
<1>9. CASE \E k \in Clients : NetworkStep(k)
  <2>1. PICK k \in Clients : NetworkStep(k)
    BY <1>9
  <2>2. CASE Accept(k)
    <3>1. ~Live(k) /\ ~Live(k)' /\ conn'[k] # "none"
      BY <2>2 DEF Accept, Live, TypeOK
    <3> QED BY <2>2, <3>1, HandlerKept DEF Accept, TypeOK
  <2>3. CASE ~Accept(k)
    <3>1. /\ UNCHANGED <<connections, clientTasks, hpc>>
          /\ \A j \in Clients : j # k => conn'[j] = conn[j]
          /\ conn'[k] = conn[k] \/ (conn[k] \in {"open", "eof"} /\ conn'[k] \in {"eof", "lost"})
             \/ conn'[k] = "lost"
      BY <2>1, <2>3 DEF NetworkStep, ClientSend, ClientEof, Reset, CloseDone, TypeOK
    <3>2. Live(k)' <=> Live(k)
      BY <3>1 DEF Live
    <3> QED BY <3>1, <3>2, HandlerKept DEF HandlerInv
  <2> QED BY <2>2, <2>3
<1> QED BY <1>1, <1>2, <1>3, <1>4, <1>6, <1>7, <1>8, <1>9
        DEF Next, HandlerStep, Start, Bind, BindFail, StartDone, Terminated, vars

-----------------------------------------------------------------------------
(* Survivors of stop() *)

\* A step in which stop() does not move and no handler starts.
LEMMA LateKept ==
  ASSUME TypeOK, LateInv, UNCHANGED <<late, tasks>>,
         \A p \in Stoppers : pc'[p] = pc[p],
         \A k \in Clients : Live(k)' => Live(k) /\ (k \in clientTasks => k \in clientTasks')
  PROVE  LateInv'
<1>1. \A k \in Clients : Live(k)' /\ late'[k] = {} => k \in clientTasks'
  BY DEF LateInv
<1>2. \A p \in Stoppers : pc'[p] = "awaitTasks" =>
        \A k \in Clients : Live(k)' /\ late'[k] = {} => k \in tasks'[p]
  BY DEF LateInv
<1>3. (\E p \in Stoppers : pc'[p] = "done") => \A k \in Clients : Live(k)' => late'[k] # {}
  BY DEF LateInv, SurvivorStartedLate
<1> QED BY <1>1, <1>2, <1>3 DEF LateInv, SurvivorStartedLate

\* Every step leaves only late starters behind stop().
LEMMA LateInvStep == TypeOK /\ HandlerInv /\ LateInv /\ [Next]_vars => LateInv'
<1> SUFFICES ASSUME TypeOK, HandlerInv, LateInv, [Next]_vars PROVE LateInv'
  OBVIOUS
<1> USE ServerTaskAssumption
<1>1. CASE \E s \in Starters : Start(s) \/ Bind(s) \/ BindFail(s) \/ StartDone(s)
  <2>1. \A p \in Stoppers : pc'[p] = pc[p]
    BY <1>1 DEF Start, Bind, BindFail, StartDone, TypeOK
  <2>2. UNCHANGED <<late, tasks, hpc, clientTasks>>
    BY <1>1 DEF Start, Bind, BindFail, StartDone
  <2> QED BY <2>1, <2>2, LateKept DEF Live
<1>2. CASE \E p \in Stoppers : Stop(p) \/ WritersClosed(p) \/ TasksDone(p)
  <2>1. PICK p \in Stoppers : Stop(p) \/ WritersClosed(p) \/ TasksDone(p)
    BY <1>2
  <2>2. /\ \A k \in Clients : Live(k)' <=> Live(k)
        /\ late' = late
        /\ \A q \in Stoppers : q # p => pc'[q] = pc[q] /\ tasks'[q] = tasks[q]
    <3>1. (WaitsWriters(p) \/ WaitsTasks(p) \/ Shuts(p)) /\ late' = late
      BY <2>1, StopCases
    <3>2. \A q \in Stoppers : q # p => pc'[q] = pc[q] /\ tasks'[q] = tasks[q]
      BY <3>1 DEF WaitsWriters, WaitsTasks, Shuts, TypeOK
    <3> QED BY <3>1, <3>2, StopLive
  <2>3. CASE WaitsWriters(p)
    <3>1. pc'[p] = "waitWriters" /\ clientTasks' = clientTasks
      BY <2>3 DEF WaitsWriters, TypeOK
    <3> QED BY <2>2, <3>1 DEF LateInv, SurvivorStartedLate
  <2>4. CASE WaitsTasks(p)
    <3>1. pc'[p] = "awaitTasks" /\ tasks'[p] = clientTasks /\ clientTasks' = clientTasks
      BY <2>4 DEF WaitsTasks, TypeOK
    <3> QED BY <2>2, <3>1 DEF LateInv, SurvivorStartedLate
  <2>5. CASE Shuts(p)
    <3>1. pc'[p] = "done"
      BY <2>5 DEF Shuts, TypeOK
    <3>2. \A k \in Clients : Live(k) => late[k] # {}
      BY <2>5 DEF Shuts, LateInv, Live
    <3> QED BY <2>2, <3>1, <3>2 DEF LateInv, SurvivorStartedLate
  <2> QED BY <2>1, <2>3, <2>4, <2>5, StopCases
<1>3. CASE \E k \in Clients : Begin(k)
  <2>1. PICK k \in Clients : Begin(k)
    BY <1>3
  <2>2. CASE Cardinality(connections) >= MaxConnections
    BY <2>1, <2>2, LateKept DEF Begin, lifeVars, TypeOK, Live
  <2>3. CASE ~(Cardinality(connections) >= MaxConnections)
    <3>1. /\ clientTasks' = clientTasks \cup {k} /\ UNCHANGED <<pc, tasks>>
          /\ late'[k] = {p \in Stoppers : pc[p] \in {"awaitTasks", "done"}}
          /\ \A j \in Clients : j # k => late'[j] = late[j] /\ hpc'[j] = hpc[j]
      BY <2>1, <2>3 DEF Begin, lifeVars, TypeOK
    <3>2. \A j \in Clients : j # k => (Live(j)' <=> Live(j))
      BY <3>1 DEF Live
    <3>3. \A p \in Stoppers : pc[p] \in {"awaitTasks", "done"} => late'[k] # {}
      BY <3>1
    <3> QED BY <3>1, <3>2, <3>3 DEF LateInv, SurvivorStartedLate
  <2> QED BY <2>2, <2>3
<1>4. CASE \E k \in Clients : HandlerStep(k) /\ ~Begin(k)
  <2>1. PICK k \in Clients : HandlerStep(k) /\ ~Begin(k)
    BY <1>4
  <2>2. /\ UNCHANGED <<late, tasks, pc>>
        /\ UNCHANGED hpc \/ \E st \in {"reading", "callback", "draining", "done"} : hpc' = [hpc EXCEPT ![k] = st]
        /\ hpc[k] = "rejecting" => hpc'[k] = "done"
        /\ hpc[k] \in {"rejecting", "reading", "callback", "draining", "cancelled"}
        /\ clientTasks' = clientTasks \/ (clientTasks' = clientTasks \ {k} /\ hpc'[k] = "done")
    BY <2>1 DEF HandlerStep, Rejected, ReadRequest, CallbackDone, DrainDone, ReadEnd, HandlerCancelled,
                Respond, Finish, lifeVars, TypeOK
  <2>3. \A j \in Clients : Live(j)' => Live(j) /\ (j \in clientTasks => j \in clientTasks')
    BY <2>2 DEF Live, TypeOK
  <2> QED BY <2>2, <2>3, LateKept
<1>5. CASE \E k \in Clients : NetworkStep(k)
  <2>1. PICK k \in Clients : NetworkStep(k)
    BY <1>5
  <2>2. /\ UNCHANGED <<late, tasks, pc, clientTasks>>
        /\ UNCHANGED hpc \/ hpc' = [hpc EXCEPT ![k] = "accepted"]
    BY <2>1 DEF NetworkStep, Accept, ClientSend, ClientEof, Reset, CloseDone, lifeVars
  <2> QED BY <2>2, LateKept DEF Live, TypeOK
<1>6. CASE UNCHANGED vars
  BY <1>6, LateKept DEF vars, lifeVars, Live
<1> QED BY <1>1, <1>2, <1>3, <1>4, <1>5, <1>6 DEF Next, Terminated

-----------------------------------------------------------------------------
(* Listeners *)

\* Every step loses track of a listener only in a race of start() calls.
LEMMA ListenerInvStep == TypeOK /\ ListenerInv /\ [Next]_vars => ListenerInv'
<1> SUFFICES ASSUME TypeOK, ListenerInv, [Next]_vars PROVE ListenerInv'
  OBVIOUS
<1> USE ServerTaskAssumption DEF ListenerInv, ListenerLostOnlyByRace, Starting
<1>1. CASE \E s \in Starters : Start(s)
  BY <1>1 DEF Start, TypeOK
<1>2. CASE \E s \in Starters : Bind(s)
  BY <1>2 DEF Bind, TypeOK
<1>3. CASE \E s \in Starters : BindFail(s)
  BY <1>3 DEF BindFail, TypeOK
<1>4. CASE \E s \in Starters : StartDone(s)
  <2>1. PICK s \in Starters : StartDone(s)
    BY <1>4
  <2>2. /\ server' = s /\ open' = open /\ pc'[s] = "done" /\ pc[s] = "listening"
        /\ rivals'[s] = {r \in Starters \ {s} : Starting(r)}
        /\ \A r \in Starters : r # s => pc'[r] = pc[r] /\ rivals'[r] = rivals[r]
    BY <2>1 DEF StartDone, TypeOK
  <2>3. rivals'[s] = {} => \A r \in Starters : ~Starting(r)'
    BY <2>2
  <2>4. ASSUME NEW r \in open, r # s
        PROVE  pc'[r] = "listening" \/ rivals'[r] # {}
    <3>1. r \in Starters /\ r # NoServer
      BY DEF TypeOK
    <3>2. pc'[r] = pc[r] /\ rivals'[r] = rivals[r] /\ Starting(s)
      BY <2>2, <2>4, <3>1
    <3>3. CASE r = server
      BY <3>1, <3>2, <3>3
    <3>4. CASE r # server
      BY <3>2, <3>4
    <3> QED BY <3>3, <3>4
  <2> QED BY <2>2, <2>3, <2>4
<1>5. CASE \E p \in Stoppers : Stop(p) \/ WritersClosed(p) \/ TasksDone(p)
  <2>1. PICK p \in Stoppers : Stop(p) \/ WritersClosed(p) \/ TasksDone(p)
    BY <1>5
  <2>2. rivals' = rivals /\ \A s \in Starters : pc'[s] = pc[s]
    <3>1. (WaitsWriters(p) \/ WaitsTasks(p) \/ Shuts(p)) /\ rivals' = rivals
      BY <2>1, StopCases
    <3>2. \A s \in Starters : s # p
      OBVIOUS
    <3> QED BY <3>1, <3>2 DEF WaitsWriters, WaitsTasks, Shuts, TypeOK
  <2>3. UNCHANGED <<open, server>> \/ (open' = open \ {server} /\ server' = NoServer)
    BY <2>1, StopCases DEF WaitsWriters, WaitsTasks, Shuts
  <2> QED BY <2>2, <2>3 DEF TypeOK
<1>6. CASE UNCHANGED lifeVars
  BY <1>6 DEF lifeVars
<1> QED BY <1>1, <1>2, <1>3, <1>4, <1>5, <1>6
        DEF Next, HandlerStep, NetworkStep, Begin, Rejected, ReadRequest, CallbackDone, DrainDone, ReadEnd,
            HandlerCancelled, Accept, ClientSend, ClientEof, Reset, CloseDone, Terminated, vars

-----------------------------------------------------------------------------
(* Responses *)

\* The well-formed requests among the first n of a sequence q.
WellFormed(q, n) == {i \in 1..n : q[i] # "badMbap"}

\* There are finitely many, and reading one request more adds it or nothing.
LEMMA WellFormedCount ==
  ASSUME NEW q, NEW n \in Nat
  PROVE  /\ IsFiniteSet(WellFormed(q, n)) /\ Cardinality(WellFormed(q, n)) \in Nat
         /\ Cardinality(WellFormed(q, n + 1)) =
              IF q[n + 1] = "badMbap" THEN Cardinality(WellFormed(q, n))
                                      ELSE Cardinality(WellFormed(q, n)) + 1
<1>1. IsFiniteSet(WellFormed(q, n)) /\ Cardinality(WellFormed(q, n)) \in Nat
  <2>1. IsFiniteSet(1..n) /\ WellFormed(q, n) \in SUBSET (1..n)
    BY FS_Interval DEF WellFormed
  <2>2. IsFiniteSet(WellFormed(q, n))
    BY <2>1, FS_Subset
  <2> QED BY <2>2, FS_CardinalityType
<1>2. n + 1 \notin WellFormed(q, n)
  BY DEF WellFormed
<1>3. CASE q[n + 1] = "badMbap"
  <2>1. WellFormed(q, n + 1) = WellFormed(q, n)
    BY <1>3 DEF WellFormed
  <2> QED BY <1>1, <1>3, <2>1
<1>4. CASE q[n + 1] # "badMbap"
  <2>1. WellFormed(q, n + 1) = WellFormed(q, n) \cup {n + 1}
    BY <1>4 DEF WellFormed
  <2> QED BY <1>1, <1>2, <1>4, <2>1, FS_AddElement
<1> QED BY <1>1, <1>3, <1>4

\* ResponsesInOrder and ProgressInv for a client with requests q, of which t are
\* read, and responses a, with its handler at h and its connection in state c.
InOrder(q, t, a) ==
  /\ t <= Len(q)
  /\ Len(a) <= Cardinality(WellFormed(q, t))
  /\ \A i \in 1..Len(a) : /\ a[i].req \in WellFormed(q, t)
                          /\ Cardinality(WellFormed(q, a[i].req)) = i
Answered(q, t, a, h, c) ==
  /\ h \in {"none", "accepted"} => t = 0 /\ Len(a) = 0
  /\ h = "callback" => t \in 1..Len(q) /\ q[t] # "badMbap"
  /\ c \in {"open", "eof"} /\ h \in {"reading", "draining"} => Len(a) = Cardinality(WellFormed(q, t))
  /\ c \in {"open", "eof"} /\ h = "callback" => Len(a) + 1 = Cardinality(WellFormed(q, t))
Served(k) == /\ InOrder(asked[k], taken[k], answers[k])
             /\ Answered(asked[k], taken[k], answers[k], hpc[k], conn[k])

\* That is what the invariant says of each client.
LEMMA OrderByClient == /\ OrderInv <=> \A k \in Clients : Served(k)
                       /\ OrderInv' <=> \A k \in Clients : Served(k)'
BY DEF OrderInv, ResponsesInOrder, ProgressInv, WellFormedBefore, WellFormed, Connected, Served,
       InOrder, Answered

\* What is sent after the requests that are read, or discarded of them, makes no
\* difference.
LEMMA UnreadIrrelevant ==
  ASSUME NEW q \in Seq(Kinds), NEW r \in Seq(Kinds), NEW t \in Nat, NEW a \in Seq([req : Nat, code : Responses]),
         NEW h, NEW c, InOrder(q, t, a), Answered(q, t, a, h, c), t <= Len(r), \A i \in 1..t : r[i] = q[i]
  PROVE  InOrder(r, t, a) /\ Answered(r, t, a, h, c)
<1>1. \A n \in Nat : n <= t => WellFormed(r, n) = WellFormed(q, n)
  BY DEF WellFormed
<1>2. WellFormed(r, t) = WellFormed(q, t)
  BY <1>1
<1>3. ASSUME NEW i \in 1..Len(a)
      PROVE  a[i].req \in WellFormed(r, t) /\ Cardinality(WellFormed(r, a[i].req)) = i
  <2>1. a[i].req \in 1..t
    BY DEF InOrder, WellFormed
  <2>2. WellFormed(r, a[i].req) = WellFormed(q, a[i].req)
    BY <1>1, <2>1
  <2> QED BY <1>2, <2>2 DEF InOrder
<1>4. InOrder(r, t, a)
  BY <1>2, <1>3 DEF InOrder
<1>5. t \in 1..Len(q) => t \in 1..Len(r) /\ r[t] = q[t]
  OBVIOUS
<1> QED BY <1>2, <1>4, <1>5 DEF Answered

\* One more request is read.
LEMMA OneMoreRead ==
  ASSUME NEW q \in Seq(Kinds), NEW t \in Nat, NEW A, NEW a \in Seq(A), InOrder(q, t, a), t < Len(q)
  PROVE  InOrder(q, t + 1, a)
<1>1. /\ Cardinality(WellFormed(q, t)) \in Nat /\ Cardinality(WellFormed(q, t + 1)) \in Nat
      /\ Cardinality(WellFormed(q, t)) <= Cardinality(WellFormed(q, t + 1))
  <2>1. t + 1 \in Nat
    OBVIOUS
  <2>2. Cardinality(WellFormed(q, t)) \in Nat /\ Cardinality(WellFormed(q, t + 1)) \in Nat
    BY <2>1, WellFormedCount
  <2>3. Cardinality(WellFormed(q, t + 1)) \in {Cardinality(WellFormed(q, t)), Cardinality(WellFormed(q, t)) + 1}
    BY WellFormedCount
  <2> QED BY <2>2, <2>3
<1>2. WellFormed(q, t) \subseteq WellFormed(q, t + 1)
  BY DEF WellFormed
<1>3. Len(a) \in Nat /\ Len(q) \in Nat
  OBVIOUS
<1> QED BY <1>1, <1>2, <1>3 DEF InOrder

\* The request read last is answered.
LEMMA OneMoreAnswer ==
  ASSUME NEW q \in Seq(Kinds), NEW t \in Nat, NEW a \in Seq([req : Nat, code : Responses]),
         NEW code \in Responses, InOrder(q, t, a), t \in 1..Len(q), q[t] # "badMbap",
         Len(a) + 1 = Cardinality(WellFormed(q, t))
  PROVE  LET b == Append(a, [req |-> t, code |-> code])
         IN  InOrder(q, t, b) /\ Len(b) = Cardinality(WellFormed(q, t))
<1> DEFINE x == [req |-> t, code |-> code]
           b == Append(a, x)
<1>1. x.req = t /\ x \in [req : Nat, code : Responses]
  OBVIOUS
<1> HIDE DEF x
<1>2. /\ Len(a) \in Nat /\ Len(b) = Len(a) + 1 /\ b[Len(b)] = x
      /\ \A i \in 1..Len(a) : b[i] = a[i]
  BY <1>1
<1>3. \A i \in 1..Len(b) : i \in 1..Len(a) \/ i = Len(b)
  BY <1>2
<1> HIDE DEF b
<1>4. t \in WellFormed(q, t)
  BY DEF WellFormed
<1>5. InOrder(q, t, b)
  BY <1>1, <1>2, <1>3, <1>4 DEF InOrder
<1>6. InOrder(q, t, b) /\ Len(b) = Cardinality(WellFormed(q, t))
  BY <1>2, <1>5
<1> QED BY <1>6 DEF b, x

\* The handler of client k answers request n, which it has read last.
LEMMA ServedRespond ==
  ASSUME TypeOK, NEW k \in Clients, NEW n \in 1..Len(asked[k]), NEW code \in Responses,
         InOrder(asked[k], n, answers[k]), asked[k][n] # "badMbap",
         conn[k] \in {"open", "eof"} => Len(answers[k]) + 1 = Cardinality(WellFormed(asked[k], n)),
         Respond(k, n, code), asked' = asked, taken'[k] = n, conn' = conn
  PROVE  Served(k)'
<1>0. asked[k] \in Seq(Kinds) /\ answers[k] \in Seq([req : Nat, code : Responses])
  BY DEF TypeOK
<1>1. asked[k] \in Seq(Kinds) /\ answers[k] \in Seq([req : Nat, code : Responses]) /\ n \in Nat
  <2>1. Len(asked[k]) \in Nat
    BY <1>0
  <2> QED BY <1>0, <2>1
<1>2. hpc'[k] \in {"reading", "draining"}
  BY DEF Respond, TypeOK
<1>3. CASE conn[k] \in {"open", "eof"}
  <2>1. answers'[k] = Append(answers[k], [req |-> n, code |-> code])
    BY <1>3 DEF Respond, TypeOK
  <2>2. InOrder(asked[k], n, answers'[k]) /\ Len(answers'[k]) = Cardinality(WellFormed(asked[k], n))
    BY <1>1, <1>3, <2>1, OneMoreAnswer
  <2> QED BY <1>2, <2>2 DEF Served, Answered
<1>4. CASE conn[k] \notin {"open", "eof"}
  <2>1. answers'[k] = answers[k]
    BY <1>4 DEF Respond, TypeOK
  <2> QED BY <1>2, <1>4, <2>1 DEF Served, Answered
<1> QED BY <1>3, <1>4

\* A client whose wire the step does not touch.
LEMMA ServedKept ==
  ASSUME NEW k \in Clients, Served(k), asked'[k] = asked[k], taken'[k] = taken[k], answers'[k] = answers[k],
         \/ hpc'[k] = hpc[k] /\ (conn'[k] \in {"open", "eof"} => conn[k] \in {"open", "eof"})
         \/ hpc'[k] \in {"rejecting", "cancelled", "done"}
         \/ hpc[k] = "draining" /\ hpc'[k] = "reading" /\ conn'[k] = conn[k]
         \/ hpc[k] = "none" /\ hpc'[k] = "accepted"
  PROVE  Served(k)'
BY DEF Served, Answered

\* Every step keeps the responses in order.
LEMMA OrderInvStep == TypeOK /\ HandlerInv /\ OrderInv /\ [Next]_vars => OrderInv'
<1> SUFFICES ASSUME TypeOK, HandlerInv, \A k \in Clients : Served(k), [Next]_vars, NEW k \in Clients
             PROVE  Served(k)'
  BY OrderByClient
<1>1. asked[k] \in Seq(Kinds) /\ answers[k] \in Seq([req : Nat, code : Responses]) /\ taken[k] \in Nat
  BY DEF TypeOK
<1>2. CASE \E s \in Starters : Start(s) \/ Bind(s) \/ BindFail(s) \/ StartDone(s)
  BY <1>2, ServedKept DEF Start, Bind, BindFail, StartDone, wireVars
<1>3. CASE \E p \in Stoppers : Stop(p) \/ WritersClosed(p) \/ TasksDone(p)
  <2>1. PICK p \in Stoppers : Stop(p) \/ WritersClosed(p) \/ TasksDone(p)
    BY <1>3
  <2>2. /\ UNCHANGED wireVars
        /\ WaitsWriters(p) \/ WaitsTasks(p) \/ Shuts(p)
        /\ conn'[k] \in {"open", "eof"} => conn[k] \in {"open", "eof"}
    BY <2>1, StopCases
  <2>3. hpc'[k] = hpc[k] \/ hpc'[k] = "cancelled"
    BY <2>2 DEF WaitsWriters, WaitsTasks, Shuts
  <2> QED BY <2>2, <2>3, ServedKept DEF wireVars
<1>4. CASE Begin(k)
  <2>1. CASE Cardinality(connections) >= MaxConnections
    BY <1>4, <2>1, ServedKept DEF Begin, wireVars, TypeOK
  <2>2. CASE ~(Cardinality(connections) >= MaxConnections)
    <3>1. hpc[k] = "accepted" /\ hpc'[k] = "reading" /\ UNCHANGED <<conn, asked, taken, answers>>
      BY <1>4, <2>2 DEF Begin, wireVars, TypeOK
    <3>2. taken[k] = 0 /\ Len(answers[k]) = 0
      BY <3>1 DEF Served, Answered
    <3>3. Cardinality(WellFormed(asked[k], 0)) = 0
      BY FS_EmptySet DEF WellFormed
    <3> QED BY <3>1, <3>2, <3>3 DEF Served, Answered
  <2> QED BY <2>1, <2>2
<1>5. CASE Rejected(k) \/ DrainDone(k) \/ ReadEnd(k) \/ HandlerCancelled(k)
  BY <1>5, ServedKept DEF Rejected, DrainDone, ReadEnd, HandlerCancelled, Finish, wireVars, TypeOK
<1>6. CASE ReadRequest(k)
  <2>1. /\ hpc[k] = "reading" /\ taken[k] < Len(asked[k]) /\ taken'[k] = taken[k] + 1
        /\ UNCHANGED <<conn, asked>> /\ taken[k] + 1 \in 1..Len(asked[k])
    BY <1>1, <1>6 DEF ReadRequest, TypeOK
  <2>2. PICK q \in Kinds : q = asked[k][taken[k] + 1]
    BY <1>1, <2>1
  <2>3. InOrder(asked[k], taken[k] + 1, answers[k])
    BY <1>1, <2>1, OneMoreRead DEF Served
  <2>4. conn[k] \in {"open", "eof"} => Len(answers[k]) = Cardinality(WellFormed(asked[k], taken[k]))
    BY <2>1 DEF Served, Answered
  <2>5. /\ Cardinality(WellFormed(asked[k], taken[k])) \in Nat
        /\ Cardinality(WellFormed(asked[k], taken[k] + 1)) =
             IF q = "badMbap" THEN Cardinality(WellFormed(asked[k], taken[k]))
                              ELSE Cardinality(WellFormed(asked[k], taken[k])) + 1
    BY <1>1, <2>2, WellFormedCount
  <2>6. CASE q = "badMbap"
    <3>1. UNCHANGED <<hpc, answers>>
      BY <1>6, <2>2, <2>6 DEF ReadRequest, ReachesCallback
    <3> QED BY <2>1, <2>3, <2>4, <2>5, <2>6, <3>1 DEF Served, Answered
  <2>7. CASE ReachesCallback(q)
    <3>1. hpc'[k] = "callback" /\ UNCHANGED answers /\ q # "badMbap"
      BY <1>6, <2>2, <2>7 DEF ReadRequest, ReachesCallback, TypeOK
    <3> QED BY <2>1, <2>2, <2>3, <2>4, <2>5, <3>1 DEF Served, Answered
  <2>8. CASE q # "badMbap" /\ ~ReachesCallback(q)
    <3>1. Respond(k, taken[k] + 1, Dispatch(q, "ok"))
      BY <1>6, <2>2, <2>8 DEF ReadRequest
    <3>2. Dispatch(q, "ok") \in Responses
      BY <2>8, DispatchTypes
    <3> QED BY <2>1, <2>2, <2>3, <2>4, <2>5, <2>8, <3>1, <3>2, ServedRespond
  <2> QED BY <2>6, <2>7, <2>8
<1>7. CASE CallbackDone(k)
  <2>1. /\ hpc[k] = "callback" /\ UNCHANGED <<conn, asked, taken>>
        /\ taken[k] \in 1..Len(asked[k]) /\ asked[k][taken[k]] # "badMbap"
        /\ InOrder(asked[k], taken[k], answers[k])
        /\ conn[k] \in {"open", "eof"} => Len(answers[k]) + 1 = Cardinality(WellFormed(asked[k], taken[k]))
    BY <1>7 DEF CallbackDone, Served, Answered
  <2>2. PICK q \in Kinds : q = asked[k][taken[k]]
    BY <1>1, <2>1
  <2>3. PICK r \in {"ok", "modbusError", "otherError", "badResult"} : Respond(k, taken[k], Dispatch(q, r))
    BY <1>7, <2>2 DEF CallbackDone, CallbackResults
  <2>4. Dispatch(q, r) \in Responses
    BY <2>1, <2>2, DispatchTypes
  <2> QED BY <2>1, <2>3, <2>4, ServedRespond
<1>8. CASE Accept(k) \/ ClientEof(k) \/ CloseDone(k)
  BY <1>8, ServedKept DEF Accept, ClientEof, CloseDone, wireVars, TypeOK
<1>9. CASE ClientSend(k)
  <2>1. PICK q \in Kinds : asked' = [asked EXCEPT ![k] = Append(@, q)]
    BY <1>9 DEF ClientSend
  <2>2. asked'[k] = Append(asked[k], q) /\ UNCHANGED <<hpc, conn, taken, answers>>
    BY <1>9, <2>1 DEF ClientSend, TypeOK
  <2>3. asked'[k] \in Seq(Kinds) /\ taken[k] <= Len(asked'[k]) /\ \A i \in 1..taken[k] : asked'[k][i] = asked[k][i]
    BY <1>1, <2>2 DEF Served, InOrder
  <2> QED BY <1>1, <2>2, <2>3, UnreadIrrelevant DEF Served
<1>10. CASE Reset(k)
  <2>1. /\ asked'[k] = SubSeq(asked[k], 1, taken[k]) /\ UNCHANGED <<hpc, taken, answers>>
        /\ conn'[k] = "lost" /\ taken[k] <= Len(asked[k])
    BY <1>10 DEF Reset, TypeOK, Served, InOrder
  <2>2. asked'[k] \in Seq(Kinds) /\ taken[k] <= Len(asked'[k]) /\ \A i \in 1..taken[k] : asked'[k][i] = asked[k][i]
    BY <1>1, <2>1
  <2>3. Answered(asked[k], taken[k], answers[k], hpc[k], conn'[k])
    BY <2>1 DEF Served, Answered
  <2> QED BY <1>1, <2>1, <2>2, <2>3, UnreadIrrelevant DEF Served
<1>11. CASE \E j \in Clients \ {k} : HandlerStep(j) \/ NetworkStep(j)
  <2>1. PICK j \in Clients \ {k} : HandlerStep(j) \/ NetworkStep(j)
    BY <1>11
  <2>2. /\ hpc'[k] = hpc[k] /\ conn'[k] = conn[k] /\ asked'[k] = asked[k] /\ taken'[k] = taken[k]
        /\ answers'[k] = answers[k]
    <3>1. CASE Begin(j) \/ Rejected(j) \/ DrainDone(j) \/ ReadEnd(j) \/ HandlerCancelled(j)
      BY <3>1 DEF Begin, Rejected, DrainDone, ReadEnd, HandlerCancelled, Finish, wireVars, TypeOK
    <3>2. CASE ReadRequest(j) \/ CallbackDone(j)
      BY <3>2 DEF ReadRequest, CallbackDone, Respond, TypeOK
    <3>3. CASE NetworkStep(j)
      BY <3>3 DEF NetworkStep, Accept, ClientSend, ClientEof, Reset, CloseDone, wireVars, TypeOK
    <3> QED BY <2>1, <3>1, <3>2, <3>3 DEF HandlerStep
  <2> QED BY <2>2, ServedKept
<1>12. CASE UNCHANGED vars
  BY <1>12, ServedKept DEF vars, wireVars
<1> QED BY <1>2, <1>3, <1>4, <1>5, <1>6, <1>7, <1>8, <1>9, <1>10, <1>11, <1>12
        DEF Next, HandlerStep, NetworkStep, Terminated

-----------------------------------------------------------------------------
(* The theorems *)

\* A server that was never started satisfies the invariant.
LEMMA InitInv == Init => IInv
<1> SUFFICES ASSUME Init PROVE IInv
  OBVIOUS
<1>1. TypeOK
  <2>1. <<>> \in Seq(Kinds) /\ <<>> \in Seq([req : Nat, code : Responses])
    OBVIOUS
  <2> QED BY <2>1 DEF Init, TypeOK
<1>2. HandlerInv
  BY FS_EmptySet, LimitAssumption DEF Init, HandlerInv, ConnectionsTracked, Live
<1>3. LateInv /\ ListenerInv
  BY ServerTaskAssumption DEF Init, LateInv, SurvivorStartedLate, Live, ListenerInv, ListenerLostOnlyByRace
<1>4. \A k \in Clients : Served(k)
  <2> SUFFICES ASSUME NEW k \in Clients PROVE Served(k)
    OBVIOUS
  <2>1. asked[k] = <<>> /\ taken[k] = 0 /\ answers[k] = <<>> /\ hpc[k] = "none"
    BY DEF Init
  <2>2. WellFormed(<<>>, 0) = {} /\ Cardinality({}) = 0
    BY FS_EmptySet DEF WellFormed
  <2>3. Len(<<>>) = 0 /\ 1..0 = {}
    OBVIOUS
  <2>4. InOrder(<<>>, 0, <<>>)
    BY <2>2, <2>3 DEF InOrder
  <2>5. Answered(<<>>, 0, <<>>, "none", conn[k])
    BY <2>3 DEF Answered
  <2> QED BY <2>1, <2>4, <2>5 DEF Served
<1> QED BY <1>1, <1>2, <1>3, <1>4, OrderByClient DEF IInv

\* Every step preserves it.
LEMMA Inductive == IInv /\ [Next]_vars => IInv'
BY TypeOKStep, HandlerInvStep, LateInvStep, ListenerInvStep, OrderInvStep DEF IInv

\* So it holds throughout every behaviour of Server.
THEOREM Invariance == Spec => []IInv
BY InitInv, Inductive, PTL DEF Spec

\* The server's attributes, suspended tasks and wire always have their types.
THEOREM TypeCorrect == Spec => []TypeOK
<1>1. IInv => TypeOK
  BY DEF IInv
<1> QED BY <1>1, Invariance, PTL

\* active_connections never exceeds max_connections, never counts a handler that
\* is gone, and misses a live one only if stop() closed its connection.
THEOREM LimitKept == Spec => []ConnectionsTracked
<1>1. IInv => ConnectionsTracked
  BY DEF IInv, HandlerInv
<1> QED BY <1>1, Invariance, PTL

\* A handler that outlives a stop() that returned took its first step after some
\* stop() had listed the handlers to cancel.
THEOREM SurvivorsAreLate == Spec => []SurvivorStartedLate
<1>1. IInv => SurvivorStartedLate
  BY DEF IInv, LateInv
<1> QED BY <1>1, Invariance, PTL

\* A listener without an owner is the result of a race between start() calls.
THEOREM ListenersOwned == Spec => []ListenerLostOnlyByRace
<1>1. IInv => ListenerLostOnlyByRace
  BY DEF IInv, ListenerInv
<1> QED BY <1>1, Invariance, PTL

\* Each client's responses answer its well-formed requests, one each, in order.
THEOREM OneResponseEach == Spec => []ResponsesInOrder
<1>1. IInv => ResponsesInOrder
  BY DEF IInv, OrderInv
<1> QED BY <1>1, Invariance, PTL
=============================================================================
