---------------------------- MODULE ClientProofs ----------------------------
(***************************************************************************)
(* Proofs about the client: for every set of threads and every retry       *)
(* policy, the retry loop sends a request again only as the policy allows. *)
(***************************************************************************)
EXTENDS Client, TLAPS

-----------------------------------------------------------------------------
(* The inductive invariant *)

Calls == 1..Len(ready)

\* The loop is asked to start a thread's coroutine once, after the thread's
\* call and before the coroutine exists.
StartInv ==
  /\ \A i \in Calls : ready[i][2] = "start" => /\ pc[ready[i][1]] # "idle"
                                               /\ co[ready[i][1]] = "none"
  /\ \A i, j \in Calls : ready[i][2] = "start" /\ ready[i] = ready[j] => i = j
  /\ \A t \in Threads : pc[t] = "idle" => co[t] = "none"

\* Only callers make attempts, only closers close.
RoleInv == /\ \A a \in Closers : co[a] \in {"none", "closing", "finished"}
           /\ \A t \in Callers : co[t] # "closing"

Failed(t, n) == \A i \in 1..n : attempts[t][i] \in RetryOn

\* Where the retry loop is, by the attempts it has made.
RetryInv(t) ==
  LET n == Len(attempts[t]) IN
  /\ co[t] \in {"none", "asserted"} => n = 0
  /\ co[t] = "sending" => n < MaxAttempts[t] /\ Failed(t, n)
  /\ co[t] = "backoff" => n < MaxAttempts[t] /\ Failed(t, n)
  /\ co[t] = "finished" => /\ n \in 1..MaxAttempts[t] /\ Failed(t, n - 1)
                           /\ attempts[t][n] \in RetryOn => n = MaxAttempts[t]

IInv == TypeOK /\ StartInv /\ RoleInv /\ \A t \in Callers : RetryInv(t)

-----------------------------------------------------------------------------
(* Lemmas *)

Entries == Threads \X {"start", "stop"}
CoStates == {"none", "sending", "backoff", "closing", "finished", "asserted"}

\* An attempt that starts keeps the types.
LEMMA AttemptTypes ==
  ASSUME TypeOK, NEW t \in Callers, Attempt(t)
  PROVE  co' \in [Threads -> CoStates] /\ attempts' \in [Callers -> Seq(Results)]
<1>1. co \in [Threads -> CoStates] /\ attempts \in [Callers -> Seq(Results)]
  BY DEF TypeOK, CoStates
<1>2. attempts[t] \in Seq(Results) /\ "closed" \in Results
  BY <1>1 DEF Results
<1>3. Append(attempts[t], "closed") \in Seq(Results)
  <2> HIDE DEF Results
  <2> QED BY <1>2
<1> QED BY <1>1, <1>3 DEF Attempt, CoStates

\* Every step keeps the types of the state.
LEMMA TypeStep == IInv /\ [Next]_vars => TypeOK'
<1> SUFFICES ASSUME IInv, [Next]_vars PROVE TypeOK'
  OBVIOUS
<1>0. TypeOK /\ ready \in Seq(Entries) /\ co \in [Threads -> CoStates]
      /\ attempts \in [Callers -> Seq(Results)] /\ Callers \subseteq Threads
  BY DEF IInv, TypeOK, Entries, CoStates, Threads
<1>b. ready # <<>> => Tail(ready) \in Seq(Entries)
  BY <1>0
<1>c. \A t \in Threads : \A what \in {"start", "stop"} : Append(ready, <<t, what>>) \in Seq(Entries)
  <2> SUFFICES ASSUME NEW t \in Threads, NEW what \in {"start", "stop"}
               PROVE  Append(ready, <<t, what>>) \in Seq(Entries)
    OBVIOUS
  <2>1. <<t, what>> \in Entries
    BY DEF Entries
  <2> QED BY <1>0, <2>1
<1>1. ASSUME NEW t \in Threads, CoroutineStep(t) PROVE TypeOK'
  <2>1. CASE ExecuteStart(t)
    <3>1. ready' \in Seq(Entries) /\ t \in Callers
      BY <1>b, <2>1 DEF ExecuteStart, LoopCalls
    <3>2. co' \in [Threads -> CoStates] /\ attempts' \in [Callers -> Seq(Results)]
      <4>1. CASE MaxAttempts[t] < 1
        BY <1>0, <2>1, <4>1 DEF ExecuteStart, CoStates
      <4>2. CASE ~(MaxAttempts[t] < 1)
        BY <1>0, <2>1, <3>1, <4>2, AttemptTypes DEF ExecuteStart
      <4> QED BY <4>1, <4>2
    <3>3. UNCHANGED <<loop, tclosed, pc, raised, published>>
      BY <2>1 DEF ExecuteStart
    <3> QED BY <1>0, <3>1, <3>2, <3>3 DEF TypeOK, Entries, CoStates
  <2>2. CASE BackoffEnds(t)
    <3>1. t \in Callers /\ Attempt(t) /\ UNCHANGED <<loop, ready, tclosed, pc, raised, published>>
      BY <2>2 DEF BackoffEnds, IInv, RoleInv, Threads
    <3>2. co' \in [Threads -> CoStates] /\ attempts' \in [Callers -> Seq(Results)]
      BY <1>0, <3>1, AttemptTypes
    <3> QED BY <1>0, <3>1, <3>2 DEF TypeOK, CoStates
  <2>3. CASE Publish(t)
    BY <1>0, <2>3 DEF Publish, TypeOK
  <2>4. CASE CloseStart(t)
    <3>1. ready' \in Seq(Entries)
      BY <1>b, <2>4 DEF CloseStart, LoopCalls
    <3> QED BY <1>0, <2>4, <3>1 DEF CloseStart, TypeOK, Entries
  <2>5. CASE CloseEnds(t)
    BY <1>0, <2>5 DEF CloseEnds, TypeOK
  <2>6. CASE StopCalled(t)
    <3>1. ready' \in Seq(Entries)
      BY <1>b, <2>6 DEF StopCalled, LoopCalls
    <3> QED BY <1>0, <2>6, <3>1 DEF StopCalled, TypeOK, Entries
  <2>7. ASSUME NEW r \in TransportErrors \cup {"response"}, AttemptEnds(t, r) PROVE TypeOK'
    <3>1. t \in Callers /\ r \in Results
      BY <2>7 DEF AttemptEnds, IInv, RoleInv, Threads, Results
    <3>2. Append(attempts[t], r) \in Seq(Results)
      BY <1>0, <3>1
    <3>3. co' \in [Threads -> CoStates] /\ attempts' \in [Callers -> Seq(Results)]
      BY <1>0, <2>7, <3>1, <3>2 DEF AttemptEnds, CoStates
    <3>4. UNCHANGED <<loop, ready, tclosed, pc, raised, published>>
      BY <2>7 DEF AttemptEnds
    <3> QED BY <1>0, <3>3, <3>4 DEF TypeOK, CoStates
  <2> QED BY <1>1, <2>1, <2>2, <2>3, <2>4, <2>5, <2>6, <2>7 DEF CoroutineStep
<1>2. ASSUME NEW t \in Threads, ThreadStep(t) PROVE TypeOK'
  <2>1. UNCHANGED <<loop, tclosed, co, attempts, published>>
    BY <1>2 DEF ThreadStep, Call, CallReturns, Close, CloseWaited, Stop, Joined
  <2>2. ready' = ready \/ \E what \in {"start", "stop"} : ready' = Append(ready, <<t, what>>)
    BY <1>2 DEF ThreadStep, Call, CallReturns, Close, CloseWaited, Stop, Joined
  <2>3. ready' \in Seq(Entries)
    BY <1>0, <1>c, <2>2
  <2>4. /\ pc' \in [Threads -> {"idle", "blocked", "stop", "joining", "done"}]
        /\ raised' \in [Threads -> {"none", "runtimeError"}]
    BY <1>0, <1>2 DEF TypeOK, ThreadStep, Call, CallReturns, Close, CloseWaited, Stop, Joined
  <2> QED BY <1>0, <2>1, <2>3, <2>4 DEF TypeOK, Entries
<1>3. CASE LoopStops \/ LoopCloses \/ LoopThreadEnds
  BY <1>0, <1>3 DEF LoopStops, LoopCloses, LoopThreadEnds, TypeOK
<1>4. CASE Terminated \/ UNCHANGED vars
  BY <1>0, <1>4 DEF Terminated, vars, TypeOK
<1> QED BY <1>1, <1>2, <1>3, <1>4 DEF Next

\* The loop takes the next call: the rest keep their places, and a coroutine
\* it starts had not been started.
LEMMA TakeCall ==
  ASSUME IInv, NEW t \in Threads, NEW what \in {"start", "stop"}, LoopCalls(t, what)
  PROVE  /\ Len(ready') \in Nat /\ Len(ready') + 1 = Len(ready)
         /\ \A i \in 1..Len(ready') : i + 1 \in Calls /\ ready'[i] = ready[i + 1]
         /\ 1 \in Calls /\ ready[1] = <<t, what>>
         /\ what = "start" => /\ co[t] = "none" /\ pc[t] # "idle"
                              /\ \A i \in 1..Len(ready') : ready'[i] # <<t, "start">>
<1> DEFINE S == Threads \X {"start", "stop"}
<1>1. ready \in Seq(S) /\ ready # <<>> /\ Head(ready) = <<t, what>> /\ ready' = Tail(ready)
  BY DEF IInv, TypeOK, LoopCalls
<1>2. /\ Len(ready) \in Nat /\ Len(ready) > 0 /\ Len(ready') \in Nat /\ Len(ready') + 1 = Len(ready)
      /\ \A i \in 1..Len(ready') : i + 1 \in 1..Len(ready) /\ ready'[i] = ready[i + 1]
      /\ 1 \in 1..Len(ready) /\ ready[1] = <<t, what>>
  <2> HIDE DEF S
  <2> QED BY <1>1
<1>3. ASSUME what = "start" PROVE /\ co[t] = "none" /\ pc[t] # "idle"
                                  /\ \A i \in 1..Len(ready') : ready'[i] # <<t, "start">>
  <2>1. ready[1][1] = t /\ ready[1][2] = "start"
    BY <1>2, <1>3
  <2>2. co[t] = "none" /\ pc[t] # "idle"
    BY <1>2, <2>1 DEF IInv, StartInv, Calls
  <2>3. ASSUME NEW i \in 1..Len(ready'), ready'[i] = <<t, "start">> PROVE FALSE
    <3>1. i + 1 \in Calls /\ 1 \in Calls /\ ready[i + 1] = ready[1] /\ i \in Nat /\ i > 0
      BY <1>2, <1>3, <2>3 DEF Calls
    <3>2. i + 1 = 1
      BY <2>1, <3>1 DEF IInv, StartInv
    <3> QED BY <3>1, <3>2
  <2> QED BY <2>2, <2>3
<1> QED BY <1>2, <1>3 DEF Calls

\* Taking a call keeps StartInv when only the coroutine that it starts moves.
LEMMA TakeKeepsStart ==
  ASSUME IInv, NEW t \in Threads, NEW what \in {"start", "stop"}, LoopCalls(t, what),
         UNCHANGED pc,
         \A u \in Threads : u # t \/ what = "stop" => co'[u] = co[u]
  PROVE  StartInv'
<1>1. /\ Len(ready') \in Nat /\ Len(ready') + 1 = Len(ready)
      /\ \A i \in 1..Len(ready') : i + 1 \in Calls /\ ready'[i] = ready[i + 1]
      /\ what = "start" => /\ co[t] = "none" /\ pc[t] # "idle"
                           /\ \A i \in 1..Len(ready') : ready'[i] # <<t, "start">>
  BY TakeCall
<1>2. \A i \in Calls : ready[i] \in Threads \X {"start", "stop"}
  BY DEF IInv, TypeOK, Calls
<1>3. ASSUME NEW i \in 1..Len(ready'), ready'[i][2] = "start"
      PROVE  pc'[ready'[i][1]] # "idle" /\ co'[ready'[i][1]] = "none"
  <2>1. PICK u \in Threads : ready'[i] = <<u, "start">> /\ ready[i + 1] = <<u, "start">>
    BY <1>1, <1>2, <1>3
  <2>2. pc[u] # "idle" /\ co[u] = "none"
    BY <1>1, <2>1 DEF IInv, StartInv
  <2>3. u # t \/ what = "stop"
    BY <1>1, <2>1
  <2> QED BY <2>1, <2>2, <2>3
<1>4. ASSUME NEW i \in 1..Len(ready'), NEW j \in 1..Len(ready'), ready'[i][2] = "start",
             ready'[i] = ready'[j]
      PROVE  i = j
  <2>1. i + 1 = j + 1
    BY <1>1, <1>4 DEF IInv, StartInv
  <2> QED BY <2>1
<1>5. ASSUME NEW u \in Threads, pc'[u] = "idle" PROVE co'[u] = "none"
  BY <1>1, <1>5 DEF IInv, StartInv
<1> QED BY <1>3, <1>4, <1>5 DEF StartInv, Calls

\* StartInv is kept by a thread that asks the loop to make a call: its first
\* one, or to stop.
LEMMA AskKeepsStart ==
  ASSUME IInv, NEW t \in Threads, NEW what \in {"start", "stop"},
         ready' = Append(ready, <<t, what>>), UNCHANGED co,
         what = "start" => pc[t] = "idle",
         \A u \in Threads : pc'[u] = "idle" => pc[u] = "idle" /\ u # t
  PROVE  StartInv'
<1> DEFINE S == Threads \X {"start", "stop"}
           n == Len(ready)
<1>1. n \in Nat /\ Len(ready') = n + 1 /\ ready'[n + 1] = <<t, what>>
      /\ \A i \in 1..n : ready'[i] = ready[i] /\ ready[i] \in S
  <2>1. ready \in Seq(S) /\ <<t, what>> \in S
    BY DEF IInv, TypeOK
  <2> HIDE DEF S
  <2> QED BY <2>1
<1>2. \A i \in 1..Len(ready') : i \in 1..n \/ i = n + 1
  BY <1>1
<1>3. ASSUME NEW i \in 1..Len(ready'), ready'[i][2] = "start"
      PROVE  pc'[ready'[i][1]] # "idle" /\ co'[ready'[i][1]] = "none"
  <2>1. CASE i = n + 1
    <3>1. ready'[i][1] = t /\ what = "start"
      BY <1>1, <1>3, <2>1
    <3>2. co[t] = "none"
      BY <3>1 DEF IInv, StartInv
    <3> QED BY <3>1, <3>2
  <2>2. CASE i \in 1..n
    <3>1. PICK u \in Threads : ready'[i] = <<u, "start">> /\ ready[i] = <<u, "start">>
      BY <1>1, <1>3, <2>2
    <3>2. pc[u] # "idle" /\ co[u] = "none"
      BY <2>2, <3>1 DEF IInv, StartInv, Calls
    <3> QED BY <3>1, <3>2
  <2> QED BY <1>2, <2>1, <2>2
<1>4. ASSUME NEW i \in 1..n, ready[i] = <<t, what>>, what = "start" PROVE FALSE
  BY <1>4 DEF IInv, StartInv, Calls
<1>5. ASSUME NEW i \in 1..Len(ready'), NEW j \in 1..Len(ready'), ready'[i][2] = "start",
             ready'[i] = ready'[j]
      PROVE  i = j
  <2>1. CASE i \in 1..n /\ j \in 1..n
    BY <1>1, <1>5, <2>1 DEF IInv, StartInv, Calls
  <2>2. CASE i = n + 1 /\ j \in 1..n
    BY <1>1, <1>4, <1>5, <2>2
  <2>3. CASE i \in 1..n /\ j = n + 1
    BY <1>1, <1>4, <1>5, <2>3
  <2> QED BY <1>2, <2>1, <2>2, <2>3
<1>6. ASSUME NEW u \in Threads, pc'[u] = "idle" PROVE co'[u] = "none"
  BY <1>6 DEF IInv, StartInv
<1> QED BY <1>3, <1>5, <1>6 DEF StartInv, Calls

\* StartInv is kept when no call is asked for, no thread becomes idle and no
\* coroutine moves that was not running.
LEMMA QuietKeepsStart ==
  ASSUME IInv, UNCHANGED ready,
         \A u \in Threads : /\ pc'[u] = "idle" => pc[u] = "idle"
                            /\ co[u] = "none" => co'[u] = "none"
  PROVE  StartInv'
<1>1. \A i \in Calls : ready[i] \in Threads \X {"start", "stop"}
  BY DEF IInv, TypeOK, Calls
<1>2. \A i \in Calls : ready[i][1] \in Threads
  BY <1>1
<1> QED BY <1>2 DEF IInv, StartInv, Calls

\* Every step keeps StartInv.
LEMMA StartStep == IInv /\ [Next]_vars => StartInv'
<1> SUFFICES ASSUME IInv, [Next]_vars PROVE StartInv'
  OBVIOUS
<1>0. pc \in [Threads -> {"idle", "blocked", "stop", "joining", "done"}]
      /\ DOMAIN co = Threads
  BY DEF IInv, TypeOK
<1>1. ASSUME NEW t \in Threads, CoroutineStep(t) PROVE StartInv'
  <2>1. CASE ExecuteStart(t)
    <3>1. LoopCalls(t, "start") /\ UNCHANGED pc /\ \A u \in Threads : u # t => co'[u] = co[u]
      BY <1>0, <2>1 DEF ExecuteStart, Attempt
    <3> QED BY <3>1, TakeKeepsStart
  <2>2. CASE CloseStart(t)
    <3>1. LoopCalls(t, "start") /\ UNCHANGED pc /\ \A u \in Threads : u # t => co'[u] = co[u]
      BY <1>0, <2>2 DEF CloseStart
    <3> QED BY <3>1, TakeKeepsStart
  <2>3. CASE StopCalled(t)
    BY <2>3, TakeKeepsStart DEF StopCalled
  <2>4. CASE BackoffEnds(t) \/ Publish(t) \/ CloseEnds(t)
             \/ \E r \in TransportErrors \cup {"response"} : AttemptEnds(t, r)
    <3>1. UNCHANGED <<ready, pc>> /\ \A u \in Threads : co[u] = "none" => co'[u] = "none"
      BY <1>0, <2>4 DEF BackoffEnds, Attempt, Publish, CloseEnds, AttemptEnds
    <3> QED BY <3>1, QuietKeepsStart
  <2> QED BY <1>1, <2>1, <2>2, <2>3, <2>4 DEF CoroutineStep
<1>2. ASSUME NEW t \in Threads, ThreadStep(t) PROVE StartInv'
  <2>1. UNCHANGED co
    BY <1>2 DEF ThreadStep, Call, CallReturns, Close, CloseWaited, Stop, Joined
  <2>2. \A u \in Threads : pc'[u] = "idle" => pc[u] = "idle" /\ u # t
    BY <1>0, <1>2 DEF ThreadStep, Call, CallReturns, Close, CloseWaited, Stop, Joined
  <2>3. CASE UNCHANGED ready
    BY <2>1, <2>2, <2>3, QuietKeepsStart
  <2>4. CASE ready' # ready
    <3>1. \/ ready' = Append(ready, <<t, "start">>) /\ pc[t] = "idle"
          \/ ready' = Append(ready, <<t, "stop">>)
      BY <1>2, <2>4 DEF ThreadStep, Call, CallReturns, Close, CloseWaited, Stop, Joined
    <3> QED BY <2>1, <2>2, <3>1, AskKeepsStart
  <2> QED BY <2>3, <2>4
<1>3. CASE LoopStops \/ LoopCloses \/ LoopThreadEnds \/ Terminated \/ UNCHANGED vars
  <2>1. UNCHANGED <<ready, pc, co>>
    BY <1>3 DEF LoopStops, LoopCloses, LoopThreadEnds, Terminated, vars
  <2> QED BY <2>1, QuietKeepsStart
<1> QED BY <1>1, <1>2, <1>3 DEF Next

\* An attempt that starts, the first or after a backoff, keeps the discipline:
\* the transport refuses it at once when it is closed, with an error that no
\* policy retries.
LEMMA AttemptKeepsRetry ==
  ASSUME IInv, NEW t \in Callers, Attempt(t),
         Len(attempts[t]) < MaxAttempts[t], Failed(t, Len(attempts[t]))
  PROVE  RetryInv(t)'
<1> DEFINE n == Len(attempts[t])
<1>1. attempts[t] \in Seq(Results) /\ DOMAIN attempts = Callers /\ DOMAIN co = Threads
      /\ MaxAttempts[t] \in Int /\ t \in Threads
  BY PolicyAssumption DEF IInv, TypeOK, Threads
<1>2. "closed" \notin RetryOn
  BY PolicyAssumption DEF TransportErrors
<1>3. CASE tclosed
  <2>1. attempts'[t] = Append(attempts[t], "closed") /\ co'[t] = "finished"
    BY <1>1, <1>3 DEF Attempt
  <2>2. /\ n \in Nat /\ Len(attempts'[t]) = n + 1 /\ attempts'[t][n + 1] = "closed"
        /\ \A i \in 1..n : attempts'[t][i] = attempts[t][i]
    <3>1. "closed" \in Results
      BY DEF Results
    <3> QED BY <1>1, <2>1, <3>1
  <2>3. n + 1 \in 1..MaxAttempts[t] /\ \A i \in 1..(n + 1 - 1) : attempts'[t][i] \in RetryOn
    BY <1>1, <2>2 DEF Failed
  <2> QED BY <1>2, <2>1, <2>2, <2>3 DEF RetryInv, Failed
<1>4. CASE ~tclosed
  <2>1. UNCHANGED attempts /\ co'[t] = "sending"
    BY <1>1, <1>4 DEF Attempt
  <2> QED BY <2>1 DEF RetryInv, Failed
<1> QED BY <1>3, <1>4

\* Every step keeps the discipline of each caller's retry loop.
LEMMA RetryStep == IInv /\ [Next]_vars => RoleInv' /\ \A t \in Callers : RetryInv(t)'
<1> SUFFICES ASSUME IInv, [Next]_vars PROVE RoleInv' /\ \A t \in Callers : RetryInv(t)'
  OBVIOUS
<1>0. /\ co \in [Threads -> CoStates] /\ attempts \in [Callers -> Seq(Results)]
      /\ Callers \subseteq Threads /\ Closers \subseteq Threads
  BY DEF IInv, TypeOK, Threads, CoStates
<1>a. ASSUME UNCHANGED <<co, attempts>>
      PROVE  RoleInv' /\ \A t \in Callers : RetryInv(t)'
  BY <1>a DEF IInv, RoleInv, RetryInv, Failed
<1>b. ASSUME NEW t \in Callers, co' = [co EXCEPT ![t] = co'[t]], co'[t] # "closing",
             attempts' = [attempts EXCEPT ![t] = attempts'[t]], RetryInv(t)'
      PROVE  RoleInv' /\ \A u \in Callers : RetryInv(u)'
  <2>1. \A u \in Threads : u # t => co'[u] = co[u]
    BY <1>0, <1>b
  <2>2. \A u \in Callers : u # t => attempts'[u] = attempts[u]
    BY <1>0, <1>b
  <2>3. \A a \in Closers : a # t
    BY ThreadAssumption
  <2>4. RoleInv'
    BY <1>0, <1>b, <2>1, <2>3 DEF IInv, RoleInv
  <2>5. ASSUME NEW u \in Callers, u # t PROVE RetryInv(u)'
    BY <1>0, <2>1, <2>2, <2>5 DEF IInv, RetryInv, Failed
  <2> QED BY <1>b, <2>4, <2>5
<1>1. ASSUME NEW t \in Threads, CoroutineStep(t)
      PROVE  RoleInv' /\ \A u \in Callers : RetryInv(u)'
  <2>1. CASE ExecuteStart(t)
    <3>1. t \in Callers /\ LoopCalls(t, "start")
      BY <2>1 DEF ExecuteStart
    <3>2. co[t] = "none" /\ attempts[t] \in Seq(Results) /\ MaxAttempts[t] \in Int
      BY <3>1, TakeCall, PolicyAssumption DEF IInv, TypeOK
    <3>3. Len(attempts[t]) = 0 /\ 1..0 = {}
      BY <3>1, <3>2 DEF IInv, RetryInv
    <3>4. CASE MaxAttempts[t] < 1
      <4>1. UNCHANGED attempts /\ co' = [co EXCEPT ![t] = "asserted"]
        BY <2>1, <3>4 DEF ExecuteStart
      <4>2. co'[t] = "asserted"
        BY <1>0, <4>1
      <4>3. RetryInv(t)'
        BY <3>3, <4>1, <4>2 DEF RetryInv
      <4>4. attempts' = [attempts EXCEPT ![t] = attempts'[t]]
        BY <1>0, <4>1
      <4> QED BY <1>b, <3>1, <4>1, <4>2, <4>3, <4>4
    <3>5. CASE ~(MaxAttempts[t] < 1)
      <4>1. Attempt(t) /\ Len(attempts[t]) < MaxAttempts[t] /\ Failed(t, Len(attempts[t]))
        BY <2>1, <3>2, <3>3, <3>5 DEF ExecuteStart, Failed
      <4>2. RetryInv(t)'
        BY <3>1, <4>1, AttemptKeepsRetry
      <4>3. /\ co' = [co EXCEPT ![t] = co'[t]] /\ co'[t] # "closing"
            /\ attempts' = [attempts EXCEPT ![t] = attempts'[t]]
        BY <1>0, <3>1, <4>1 DEF Attempt
      <4> QED BY <1>b, <3>1, <4>2, <4>3
    <3> QED BY <3>4, <3>5
  <2>2. CASE BackoffEnds(t)
    <3>1. t \in Callers /\ co[t] = "backoff" /\ Attempt(t)
      BY <2>2 DEF BackoffEnds, IInv, RoleInv, Threads
    <3>2. Len(attempts[t]) < MaxAttempts[t] /\ Failed(t, Len(attempts[t]))
      BY <3>1 DEF IInv, RetryInv
    <3>3. RetryInv(t)'
      BY <3>1, <3>2, AttemptKeepsRetry
    <3>4. /\ co' = [co EXCEPT ![t] = co'[t]] /\ co'[t] # "closing"
          /\ attempts' = [attempts EXCEPT ![t] = attempts'[t]]
      BY <1>0, <3>1 DEF Attempt
    <3> QED BY <1>b, <3>1, <3>3, <3>4
  <2>3. CASE Publish(t) \/ StopCalled(t)
    BY <1>a, <2>3 DEF Publish, StopCalled
  <2>4. CASE CloseStart(t) \/ CloseEnds(t)
    <3>1. t \in Closers
      BY <2>4 DEF CloseStart, CloseEnds, IInv, RoleInv, Threads
    <3>2. co'[t] \in {"closing", "finished"} /\ UNCHANGED attempts
          /\ \A u \in Threads : u # t => co'[u] = co[u]
      BY <1>0, <2>4 DEF CloseStart, CloseEnds
    <3>3. \A u \in Callers : u # t
      BY <3>1, ThreadAssumption
    <3>4. RoleInv'
      BY <1>0, <3>1, <3>2, <3>3 DEF IInv, RoleInv
    <3>5. ASSUME NEW u \in Callers PROVE RetryInv(u)'
      <4>1. co'[u] = co[u] /\ attempts'[u] = attempts[u]
        BY <1>0, <3>2, <3>3
      <4> QED BY <4>1 DEF IInv, RetryInv, Failed
    <3> QED BY <3>4, <3>5
  <2>5. ASSUME NEW r \in TransportErrors \cup {"response"}, AttemptEnds(t, r)
        PROVE  RoleInv' /\ \A u \in Callers : RetryInv(u)'
    <3> DEFINE n == Len(attempts[t])
    <3>1. t \in Callers /\ co[t] = "sending"
      BY <2>5 DEF AttemptEnds, IInv, RoleInv, Threads
    <3>2. attempts[t] \in Seq(Results) /\ MaxAttempts[t] \in Int /\ r \in Results
      BY <3>1, PolicyAssumption DEF IInv, TypeOK, Results
    <3>3. n < MaxAttempts[t] /\ Failed(t, n)
      BY <3>1 DEF IInv, RetryInv
    <3>4. /\ attempts'[t] = Append(attempts[t], r)
          /\ co'[t] = IF r \in RetryOn /\ n + 1 < MaxAttempts[t] THEN "backoff" ELSE "finished"
          /\ co' = [co EXCEPT ![t] = co'[t]]
          /\ attempts' = [attempts EXCEPT ![t] = attempts'[t]]
      BY <1>0, <2>5, <3>1 DEF AttemptEnds
    <3>5. /\ n \in Nat /\ Len(attempts'[t]) = n + 1 /\ attempts'[t][n + 1] = r
          /\ \A i \in 1..n : attempts'[t][i] = attempts[t][i]
      BY <3>2, <3>4
    <3>6. \A i \in 1..n : attempts'[t][i] \in RetryOn
      BY <3>3, <3>5 DEF Failed
    <3>7. RetryInv(t)'
      <4>1. CASE r \in RetryOn /\ n + 1 < MaxAttempts[t]
        <5>1. \A i \in 1..(n + 1) : attempts'[t][i] \in RetryOn
          BY <3>5, <3>6, <4>1
        <5>2. co'[t] = "backoff"
          BY <3>4, <4>1
        <5> QED BY <3>5, <4>1, <5>1, <5>2 DEF RetryInv, Failed
      <4>2. CASE ~(r \in RetryOn /\ n + 1 < MaxAttempts[t])
        <5>1. co'[t] = "finished"
          BY <3>4, <4>2
        <5>2. n + 1 \in 1..MaxAttempts[t] /\ n + 1 - 1 = n
              /\ (r \in RetryOn => n + 1 = MaxAttempts[t])
          BY <3>2, <3>3, <3>5, <4>2
        <5>3. \A i \in 1..(n + 1 - 1) : attempts'[t][i] \in RetryOn
          BY <3>6, <5>2
        <5> QED BY <3>5, <5>1, <5>2, <5>3 DEF RetryInv, Failed
      <4> QED BY <4>1, <4>2
    <3>8. co'[t] # "closing"
      BY <3>4
    <3> QED BY <1>b, <3>1, <3>4, <3>7, <3>8
  <2> QED BY <1>1, <2>1, <2>2, <2>3, <2>4, <2>5 DEF CoroutineStep
<1>2. ASSUME NEW t \in Threads, ThreadStep(t)
      PROVE  RoleInv' /\ \A u \in Callers : RetryInv(u)'
  BY <1>a, <1>2 DEF ThreadStep, Call, CallReturns, Close, CloseWaited, Stop, Joined
<1>3. CASE LoopStops \/ LoopCloses \/ LoopThreadEnds \/ Terminated \/ UNCHANGED vars
  BY <1>a, <1>3 DEF LoopStops, LoopCloses, LoopThreadEnds, Terminated, vars
<1> QED BY <1>1, <1>2, <1>3 DEF Next

-----------------------------------------------------------------------------
(* Theorems *)

\* The inductive invariant holds in every reachable state.
THEOREM Invariance == Spec => []IInv
<1>1. Init => IInv
  <2> SUFFICES ASSUME Init PROVE IInv
    OBVIOUS
  <2>1. TypeOK
    <3>1. <<>> \in Seq(Threads \X {"start", "stop"}) /\ <<>> \in Seq(Results)
      OBVIOUS
    <3> QED BY <3>1 DEF Init, TypeOK
  <2>2. Calls = {}
    BY DEF Init, Calls
  <2>3. StartInv /\ RoleInv
    BY <2>2 DEF Init, StartInv, RoleInv, Threads
  <2>4. ASSUME NEW t \in Callers PROVE RetryInv(t)
    <3>1. co[t] = "none" /\ Len(attempts[t]) = 0
      BY DEF Init, Threads
    <3> QED BY <3>1 DEF RetryInv
  <2> QED BY <2>1, <2>3, <2>4 DEF IInv
<1>2. IInv /\ [Next]_vars => IInv'
  BY TypeStep, StartStep, RetryStep DEF IInv
<1> QED BY <1>1, <1>2, PTL DEF Spec

\* The state of the client, of its loop and of its threads has its types.
THEOREM TypeCorrect == Spec => []TypeOK
<1>1. IInv => TypeOK
  BY DEF IInv
<1> QED BY <1>1, Invariance, PTL

\* For every number of threads and every policy, a request is sent again only
\* after a failure the policy retries and at most max_attempts times, and no
\* attempt starts once close() has begun (AsyncClient.execute).
THEOREM RetriesAsAllowed == Spec => RetryDiscipline
<1>1. ASSUME IInv PROVE AttemptsAllowed
  <2> SUFFICES ASSUME NEW t \in Callers
               PROVE  LET done == attempts[t]
                          started == Len(done) + (IF co[t] = "sending" THEN 1 ELSE 0) IN
                      /\ started = 0 \/ started <= MaxAttempts[t]
                      /\ \A i \in 1..(started - 1) : done[i] \in RetryOn
                      /\ co[t] = "finished" /\ done[Len(done)] \in RetryOn
                           => Len(done) = MaxAttempts[t]
    BY DEF AttemptsAllowed
  <2> DEFINE n == Len(attempts[t])
  <2>1. n \in Nat /\ MaxAttempts[t] \in Int
        /\ co[t] \in {"none", "sending", "backoff", "finished", "asserted"}
    BY <1>1, PolicyAssumption DEF IInv, TypeOK, Threads, RoleInv
  <2>2. RetryInv(t)
    BY <1>1 DEF IInv
  <2>3. CASE co[t] = "sending"
    <3>1. n < MaxAttempts[t] /\ Failed(t, n) /\ n + 1 - 1 = n
      BY <2>1, <2>2, <2>3 DEF RetryInv
    <3> QED BY <2>1, <2>3, <3>1 DEF Failed
  <2>4. CASE co[t] \in {"none", "asserted"}
    <3>1. n = 0
      BY <2>2, <2>4 DEF RetryInv
    <3> QED BY <2>4, <3>1
  <2>5. CASE co[t] = "backoff"
    <3>1. n < MaxAttempts[t] /\ Failed(t, n)
      BY <2>2, <2>5 DEF RetryInv
    <3>2. \A i \in 1..(n - 1) : attempts[t][i] \in RetryOn
      BY <2>1, <3>1 DEF Failed
    <3> QED BY <2>1, <2>5, <3>1, <3>2
  <2>6. CASE co[t] = "finished"
    <3>1. /\ n \in 1..MaxAttempts[t] /\ Failed(t, n - 1)
          /\ attempts[t][n] \in RetryOn => n = MaxAttempts[t]
      BY <2>2, <2>6 DEF RetryInv
    <3> QED BY <2>1, <2>6, <3>1 DEF Failed
  <2> QED BY <2>1, <2>3, <2>4, <2>5, <2>6
<1>2. IInv /\ [Next]_vars => [NoAttemptOnceClosed]_vars
  <2> SUFFICES ASSUME IInv, [Next]_vars, NEW t \in Callers, tclosed, co'[t] = "sending"
               PROVE  co[t] = "sending"
    BY DEF NoAttemptOnceClosed
  <2>1. DOMAIN co = Threads /\ t \in Threads
    BY DEF IInv, TypeOK, Threads
  <2>2. ASSUME NEW u \in Threads, Attempt(u) PROVE co[t] = "sending"
    BY <2>1, <2>2 DEF Attempt
  <2>3. ASSUME NEW u \in Threads, CoroutineStep(u) PROVE co[t] = "sending"
    BY <2>1, <2>2, <2>3 DEF CoroutineStep, ExecuteStart, BackoffEnds, Publish, CloseStart, CloseEnds,
                            StopCalled, AttemptEnds
  <2> QED BY <2>3 DEF Next, ThreadStep, Call, CallReturns, Close, CloseWaited, Stop, Joined,
                      LoopStops, LoopCloses, LoopThreadEnds, Terminated, vars
<1> QED BY <1>1, <1>2, Invariance, PTL DEF Spec, RetryDiscipline
=============================================================================
