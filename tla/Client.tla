------------------------------- MODULE Client -------------------------------
(***************************************************************************)
(* pymod.client: the retry loop of AsyncClient.execute, and the            *)
(* synchronous Client whose threads block on coroutines run by the event   *)
(* loop of one daemon thread (_BackgroundLoop).                            *)
(*                                                                         *)
(* Callers are threads that make one blocking call each (execute, read,    *)
(* write, or connect with MaxAttempts 1); Closers are threads that call    *)
(* close().  Steps of threads interleave freely; steps of coroutines need  *)
(* the loop to be running.  Of the transport only its contract is used: an *)
(* attempt ends in a response or an error, and none starts once closed.    *)
(***************************************************************************)
EXTENDS Integers, Sequences

CONSTANTS Callers, Closers,
          MaxAttempts,  \* caller -> policy.max_attempts
          RetryOn       \* policy.retry_on

Threads == Callers \cup Closers
TransportErrors == {"timeout", "connError", "protocolError"}
Results == TransportErrors \cup {"response", "closed"}

ASSUME ThreadAssumption == Callers \cap Closers = {}
ASSUME PolicyAssumption == /\ MaxAttempts \in [Callers -> Int]
                           /\ RetryOn \subseteq TransportErrors

VARIABLES
  loop,     \* running; stopping: in its last round; stopped: run_forever has
            \* returned; closed; dead: its thread has ended
  ready,    \* what other threads had the loop call soon, in order
  tclosed,  \* the transport's _closed
  pc,       \* where each thread is
  raised,   \* what a thread's call raised itself, rather than the coroutine
  co,       \* state of the coroutine a thread submitted
  attempts, \* results of the attempts a call has completed
  published \* threads whose concurrent future has its result

vars == <<loop, ready, tclosed, pc, raised, co, attempts, published>>

Init ==
  /\ loop = "running" /\ ready = <<>> /\ tclosed = FALSE
  /\ pc = [t \in Threads |-> "idle"]
  /\ raised = [t \in Threads |-> "none"]
  /\ co = [t \in Threads |-> "none"]
  /\ attempts = [t \in Callers |-> <<>>]
  /\ published = {}

-----------------------------------------------------------------------------
(* AsyncClient.execute on the loop *)

LoopRuns == loop \in {"running", "stopping"}

\* The loop makes the next of the calls that other threads asked for.
LoopCalls(t, what) ==
  /\ LoopRuns /\ ready # <<>> /\ Head(ready) = <<t, what>>
  /\ ready' = Tail(ready)

\* Fault: an attempt does not ask whether the transport is
\* closed.
Attempt_Unchecked(t) == /\ co' = [co EXCEPT ![t] = "sending"]
                        /\ UNCHANGED attempts

\* The transport is entered, and refuses at once when it is closed: "closed" is
\* a plain ModbusError, never retried.
Attempt(t) ==
  IF tclosed
  THEN /\ attempts' = [attempts EXCEPT ![t] = Append(@, "closed")]
       /\ co' = [co EXCEPT ![t] = "finished"]
  ELSE /\ co' = [co EXCEPT ![t] = "sending"]
       /\ UNCHANGED attempts

\* The coroutine's first step.  With max_attempts < 1 the loop body never runs
\* and the assertion below it fails.
ExecuteStart(t) ==
  /\ t \in Callers /\ LoopCalls(t, "start")
  /\ IF MaxAttempts[t] < 1
     THEN co' = [co EXCEPT ![t] = "asserted"] /\ UNCHANGED attempts
     ELSE Attempt(t)
  /\ UNCHANGED <<loop, tclosed, pc, raised, published>>

\* Fault: one attempt too many.
AttemptEnds_OffByOne(t, r) ==
  /\ LoopRuns /\ co[t] = "sending"
  /\ attempts' = [attempts EXCEPT ![t] = Append(@, r)]
  /\ co' = [co EXCEPT ![t] = IF r \in RetryOn /\ Len(attempts[t]) < MaxAttempts[t]
                             THEN "backoff" ELSE "finished"]
  /\ UNCHANGED <<loop, ready, tclosed, pc, raised, published>>

\* send_and_receive returns or raises; a retryable error with attempts left
\* leads to the backoff sleep.
AttemptEnds(t, r) ==
  /\ LoopRuns /\ co[t] = "sending"
  /\ attempts' = [attempts EXCEPT ![t] = Append(@, r)]
  /\ co' = [co EXCEPT ![t] = IF r \in RetryOn /\ Len(attempts[t]) + 1 < MaxAttempts[t]
                             THEN "backoff" ELSE "finished"]
  /\ UNCHANGED <<loop, ready, tclosed, pc, raised, published>>

BackoffEnds(t) ==
  /\ LoopRuns /\ co[t] = "backoff"
  /\ Attempt(t)
  /\ UNCHANGED <<loop, ready, tclosed, pc, raised, published>>

-----------------------------------------------------------------------------
(* AsyncClient.close on the loop, and the hand-over of results *)

CloseStart(a) ==
  /\ a \in Closers /\ LoopCalls(a, "start")
  /\ tclosed' = TRUE
  /\ co' = [co EXCEPT ![a] = "closing"]
  /\ UNCHANGED <<loop, pc, raised, attempts, published>>

CloseEnds(a) ==
  /\ LoopRuns /\ co[a] = "closing"
  /\ co' = [co EXCEPT ![a] = "finished"]
  /\ UNCHANGED <<loop, ready, tclosed, pc, raised, attempts, published>>

\* run_coroutine_threadsafe copies a finished task's result to the thread's
\* future in a callback of its own, which the loop has to run too.
Publish(t) ==
  /\ LoopRuns /\ co[t] \in {"finished", "asserted"} /\ t \notin published
  /\ published' = published \cup {t}
  /\ UNCHANGED <<loop, ready, tclosed, pc, raised, co, attempts>>

-----------------------------------------------------------------------------
(* _BackgroundLoop._run: run_forever, then loop.close(), then the thread ends *)

\* loop.stop(): the round is finished, then run_forever returns.
StopCalled(a) == /\ LoopCalls(a, "stop")
                 /\ loop' = "stopping"
                 /\ UNCHANGED <<tclosed, pc, raised, co, attempts, published>>

LoopStops == /\ loop = "stopping"
             /\ loop' = "stopped"
             /\ UNCHANGED <<ready, tclosed, pc, raised, co, attempts, published>>

LoopCloses == /\ loop = "stopped"
              /\ loop' = "closed"
              /\ UNCHANGED <<ready, tclosed, pc, raised, co, attempts, published>>

LoopThreadEnds == /\ loop = "closed"
                  /\ loop' = "dead"
                  /\ UNCHANGED <<ready, tclosed, pc, raised, co, attempts, published>>

LoopAlive == loop # "dead"

\* call_soon_threadsafe raises RuntimeError on a closed loop only.
Accepts == loop \in {"running", "stopping", "stopped"}

-----------------------------------------------------------------------------
(* The threads *)

\* run_coroutine(...).result(), without a timeout.
Call(t) ==
  /\ t \in Callers /\ pc[t] = "idle"
  /\ IF Accepts
     THEN /\ ready' = Append(ready, <<t, "start">>)
          /\ pc' = [pc EXCEPT ![t] = "blocked"]
          /\ UNCHANGED raised
     ELSE /\ pc' = [pc EXCEPT ![t] = "done"]
          /\ raised' = [raised EXCEPT ![t] = "runtimeError"]
          /\ UNCHANGED ready
  /\ UNCHANGED <<loop, tclosed, co, attempts, published>>

CallReturns(t) ==
  /\ pc[t] = "blocked" /\ t \in Callers /\ t \in published
  /\ pc' = [pc EXCEPT ![t] = "done"]
  /\ UNCHANGED <<loop, ready, tclosed, raised, co, attempts, published>>

\* Client.close: nothing to do on a dead loop; an error of run_coroutine is
\* swallowed.
Close(a) ==
  /\ a \in Closers /\ pc[a] = "idle"
  /\ pc' = [pc EXCEPT ![a] = IF ~LoopAlive THEN "done"
                             ELSE IF Accepts THEN "blocked" ELSE "stop"]
  /\ ready' = IF Accepts THEN Append(ready, <<a, "start">>) ELSE ready
  /\ UNCHANGED <<loop, tclosed, raised, co, attempts, published>>

\* Fault: close() waits without a timeout.
CloseWaited_Forever(a) ==
  /\ a \in Closers /\ pc[a] = "blocked" /\ a \in published
  /\ pc' = [pc EXCEPT ![a] = "stop"]
  /\ UNCHANGED <<loop, ready, tclosed, raised, co, attempts, published>>

\* .result(timeout=5.0) returns, or gives up on a close() that hangs or that
\* the loop no longer runs; a running loop starts it well within 5 s.
CloseWaited(a) ==
  /\ a \in Closers /\ pc[a] = "blocked"
  /\ a \in published \/ co[a] = "closing" \/ ~LoopRuns
  /\ pc' = [pc EXCEPT ![a] = "stop"]
  /\ UNCHANGED <<loop, ready, tclosed, raised, co, attempts, published>>

\* _BackgroundLoop.stop.
Stop(a) ==
  /\ pc[a] = "stop"
  /\ \/ /\ ~LoopAlive
        /\ pc' = [pc EXCEPT ![a] = "done"]
        /\ UNCHANGED <<ready, raised>>
     \/ /\ LoopAlive /\ Accepts
        /\ ready' = Append(ready, <<a, "stop">>)
        /\ pc' = [pc EXCEPT ![a] = "joining"]
        /\ UNCHANGED raised
     \/ /\ LoopAlive /\ ~Accepts
        /\ pc' = [pc EXCEPT ![a] = "done"]
        /\ raised' = [raised EXCEPT ![a] = "runtimeError"]
        /\ UNCHANGED ready
  /\ UNCHANGED <<loop, tclosed, co, attempts, published>>

\* join(timeout=5.0): the thread has ended, or 5 s are over.
Joined(a) ==
  /\ pc[a] = "joining"
  /\ pc' = [pc EXCEPT ![a] = "done"]
  /\ UNCHANGED <<loop, ready, tclosed, raised, co, attempts, published>>

-----------------------------------------------------------------------------
CoroutineStep(t) == \/ ExecuteStart(t) \/ BackoffEnds(t) \/ Publish(t)
                    \/ CloseStart(t) \/ CloseEnds(t) \/ StopCalled(t)
                    \/ \E r \in TransportErrors \cup {"response"} : AttemptEnds(t, r)

ThreadStep(t) == \/ Call(t) \/ CallReturns(t) \/ Close(t) \/ CloseWaited(t)
                 \/ Stop(t) \/ Joined(t)

\* The program's end; a thread that is blocked for good does not prevent it.
Terminated == /\ \A t \in Threads : pc[t] \in {"blocked", "done"}
              /\ LoopAlive => \A t \in Threads : pc[t] = "done"
              /\ UNCHANGED vars

Next == \/ \E t \in Threads : CoroutineStep(t) \/ ThreadStep(t)
        \/ LoopStops \/ LoopCloses \/ LoopThreadEnds
        \/ Terminated

Spec == Init /\ [][Next]_vars

\* The running loop runs what is ready, every attempt ends (the transports'
\* own termination), threads are scheduled and their timeouts elapse.  The
\* coroutine of close() may hang.
Fairness ==
  /\ WF_vars(LoopStops) /\ WF_vars(LoopCloses) /\ WF_vars(LoopThreadEnds)
  /\ \A t \in Callers :
       /\ WF_vars(ExecuteStart(t)) /\ WF_vars(BackoffEnds(t)) /\ WF_vars(Publish(t))
       /\ WF_vars(\E r \in TransportErrors \cup {"response"} : AttemptEnds(t, r))
       /\ WF_vars(CallReturns(t))
  /\ \A a \in Closers : /\ WF_vars(CloseStart(a)) /\ WF_vars(Publish(a))
                       /\ WF_vars(StopCalled(a))
                       /\ WF_vars(CloseWaited(a)) /\ WF_vars(Stop(a)) /\ WF_vars(Joined(a))

LiveSpec == Spec /\ Fairness

-----------------------------------------------------------------------------
(* Properties *)

\* The values of the client's, the loop's and the threads' state.
TypeOK ==
  /\ loop \in {"running", "stopping", "stopped", "closed", "dead"}
  /\ ready \in Seq(Threads \X {"start", "stop"}) /\ tclosed \in BOOLEAN
  /\ pc \in [Threads -> {"idle", "blocked", "stop", "joining", "done"}]
  /\ raised \in [Threads -> {"none", "runtimeError"}]
  /\ co \in [Threads -> {"none", "sending", "backoff", "closing", "finished",
                         "asserted"}]
  /\ attempts \in [Callers -> Seq(Results)]
  /\ published \subseteq Threads

\* What the attempts of each call have led to so far is what the policy allows.
AttemptsAllowed ==
  \A t \in Callers :
    LET done == attempts[t]
        started == Len(done) + (IF co[t] = "sending" THEN 1 ELSE 0) IN
    /\ started = 0 \/ started <= MaxAttempts[t]
    /\ \A i \in 1..(started - 1) : done[i] \in RetryOn
    /\ co[t] = "finished" /\ done[Len(done)] \in RetryOn => Len(done) = MaxAttempts[t]

\* No attempt starts on a transport whose close() has begun; the one under way
\* then is the last.
NoAttemptOnceClosed == \A t \in Callers : tclosed /\ co'[t] = "sending" => co[t] = "sending"

\* A request is sent again only after a retryable failure, never more often
\* than the policy allows, and not by an attempt that starts after close() has:
\* a write that got an answer or a final error is not repeated behind the
\* caller's back.  (An attempt under way at close() is the transport's matter: a
\* TCP transport that is dialling for it may still send it.)
RetryDiscipline == [][AttemptsAllowed' /\ NoAttemptOnceClosed]_vars

\* close() returns, whatever the transport and the other threads do, and every
\* other blocking call returns or raises, unless a close() ended the loop under
\* it; a call made after the loop is closed raises at once.
ThreadsReturn ==
  <>[](/\ \A a \in Closers : pc[a] \in {"idle", "done"}
       /\ loop = "dead" \/ \A t \in Callers : pc[t] \in {"idle", "done"})
=============================================================================
