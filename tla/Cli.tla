--------------------------------- MODULE Cli ---------------------------------
(***************************************************************************)
(* pymod.cli: processes that each run one command (read, write or scan,    *)
(* typed or from the --guide wizard) against the simulator of "pymod       *)
(* serve".  A command plans its requests, sends them pipelined on one TCP  *)
(* connection and retries each; the simulator serves each connection in    *)
(* order and keeps one memory for all.                                     *)
(*                                                                         *)
(* The client's view of a connection and the simulator's may differ: after *)
(* a loss, an exit or Ctrl-C, requests already sent may still be served.   *)
(* Responses are matched by attempt; that the transport does so is shown   *)
(* in TcpTransport.  A register's content is who wrote it.                 *)
(***************************************************************************)
EXTENDS Integers, Sequences, FiniteSets, Plan, CommandLine

CONSTANTS Procs,
          Scenarios,   \* [serve, job]: the simulator's arguments, and for each
                       \* process [via, op, words]
          Answers,     \* what users may answer to the wizard
          ReadLimit, WriteLimit,  \* MAX_READ_REGISTERS, MAX_WRITE_REGISTERS, ...
          AddressMax,  \* ADDRESS_MAX
          MaxLosses    \* bound: connections a command may lose

ASSUME LimitAssumption == /\ ReadLimit \in Nat \ {0} /\ WriteLimit \in Nat \ {0}
                          /\ MaxLosses \in Nat

\* argparse and the prompts convert numbers; lists of values have a length.
Numbers(o, v) == /\ o \in {"start", "count", "retries", "unit_id"} => v \in Int
                 /\ o = "values" => v.n \in Nat
ASSUME JobAssumption ==
  \A s \in Scenarios : \A p \in Procs :
    \A o \in DOMAIN s.job[p].words : Numbers(o, s.job[p].words[o])
\* The simulator's registers are nobody's at first.
ASSUME ScenarioAssumption ==
  \A s \in Scenarios : \A m \in {s.serve.inline, s.serve.config} :
    \A x \in DOMAIN m : m[x].by = None
ASSUME AnswerAssumption ==
  \A a \in Answers :
    /\ a.op \in Ops /\ a.kind \in {"tcp", "rtu-over-tcp", "rtu"}
    /\ \A o \in {"start", "count", "retries", "unit_id", "values"} : Numbers(o, a[o])
    /\ \A o \in TextOptions : a[o] # None /\ a[o].shape \in Shapes

VARIABLES
  serve, job,  \* the scenario
  mem,         \* _SimState: <<area, address>> -> [by, fits]
  up,          \* the simulator listens
  ns,          \* each process's namespace, None before
  shown,       \* the command line the wizard printed
  pc,          \* start, parsed, dialling, running, exited
  code,        \* the exit code
  chunks,      \* of each request: [n, st, got]: attempts, state, values read
  conn,        \* the connection in use: 0 before the first, and after a loss
               \* the next one is opened by the next attempt
  live,        \* the client's transport is connected
  pipe,        \* requests sent and not served, per connection: [c, n]
  back,        \* responses under way to the client: [c, n, res, got]
  landed,      \* history: requests the simulator has applied
  late         \* history: processes whose request was applied after they had
               \* exited with 0

vars == <<serve, job, mem, up, ns, shown, pc, code, chunks, conn, live, pipe, back, landed, late>>
server == <<serve, job, mem, up, landed, late>>

-----------------------------------------------------------------------------
(* pymod serve *)

\* _build_sim_state: what is given inline replaces what the config file says.
BuildSimState(s) == s.inline ++ s.config

Init ==
  /\ \E s \in Scenarios : /\ serve = s.serve /\ job = s.job
                          /\ mem = BuildSimState(s.serve)
  /\ up = TRUE
  /\ ns = [p \in Procs |-> None] /\ shown = [p \in Procs |-> None]
  /\ pc = [p \in Procs |-> "start"] /\ code = [p \in Procs |-> None]
  /\ chunks = [p \in Procs |-> <<>>]
  /\ conn = [p \in Procs |-> 0] /\ live = [p \in Procs |-> FALSE]
  /\ pipe = [p \in Procs |-> [k \in 1..(MaxLosses + 1) |-> <<>>]]
  /\ back = [p \in Procs |-> <<>>]
  /\ landed = {} /\ late = {}

-----------------------------------------------------------------------------
(* The command's request plan *)

Op(p) == job[p].op

\* A scan reads one holding register.
Area(p) == IF Op(p) = "scan" THEN "holding" ELSE ns[p].area
Rpi(dtype) == CASE dtype \in {"int32", "uint32", "float32"} -> 2
                [] dtype \in {"int64", "uint64", "float64"} -> 4
                [] OTHER -> 1

\* The units of one value, and of a command.
Width(p) == IF Area(p) \in {"holding", "input"} THEN Rpi(ns[p].dtype) ELSE 1
Count(p) == CASE Op(p) = "scan"  -> 1
              [] Op(p) = "read"  -> ns[p].count
              [] Op(p) = "write" -> ns[p].values.n * Width(p)

Limit(p) == IF Op(p) = "write" THEN WriteLimit ELSE ReadLimit

\* Fault: a write goes register by register.
Requests_Single(p) == Pieces(ns[p].start, ns[p].start + Count(p),
                             IF Op(p) = "write" THEN 1 ELSE ReadLimit)

Requests(p) == Pieces(ns[p].start, ns[p].start + Count(p), Limit(p))

Units(c) == c.from..(c.from + c.size - 1)

\* _build_read_item, _build_write_item and _make_client: SystemExit otherwise.
Buildable(p) ==
  /\ ns[p].rtu # None \/ ns[p].host # None
  /\ Op(p) = "read" /\ ns[p].area \in {"holding", "input"} =>
       /\ ns[p].dtype = "bit" => ns[p].bit_index # None
       /\ ns[p].dtype = "bits" => ns[p].bit_indices # None /\ "int" \in ns[p].bit_indices.parses
  /\ Op(p) = "write" =>
       /\ ns[p].values.n > 0
       /\ (IF ns[p].area = "coil" THEN "bool" ELSE IF ns[p].dtype = "float32" THEN "float" ELSE "int")
            \in ns[p].values.parses

\* What the planner, or the framing of the first request, does not reject with
\* ValueError before anything is sent.
Plannable(p) == /\ Count(p) > 0 /\ ns[p].unit_id \in 0..255
                /\ Op(p) = "write" /\ ns[p].area = "holding" => ns[p].values.fits

MaxAttempts(p) == Max2(1, ns[p].retries + 1)

\* Only TCP to the simulator's own address reaches it.
Reachable(p) == /\ up /\ ns[p].rtu = None /\ ~ns[p].rtu_over_tcp
                /\ ns[p].host = serve.host /\ ns[p].port = serve.port

-----------------------------------------------------------------------------
(* main, _dispatch_guide: to the namespace *)

Exit(p, n) == /\ pc' = [pc EXCEPT ![p] = "exited"]
              /\ code' = [code EXCEPT ![p] = n]

Parse(p) ==
  /\ pc[p] = "start" /\ job[p].via = "argv"
  /\ IF Op(p) \in Ops /\ Parses(Op(p), job[p].words)
     THEN /\ ns' = [ns EXCEPT ![p] = ParseArgs(Op(p), job[p].words)]
          /\ pc' = [pc EXCEPT ![p] = "parsed"]
          /\ UNCHANGED code
     ELSE Exit(p, 2) /\ UNCHANGED ns
  /\ UNCHANGED <<server, shown, chunks, conn, live, pipe, back>>

\* The wizard asks, prints the equivalent command, and asks whether to run it.
Guide(p) ==
  /\ pc[p] = "start" /\ job[p].via = "guide"
  /\ \E a \in Answers :
       /\ a.op = Op(p) /\ Accepted(a)
       /\ ns' = [ns EXCEPT ![p] = BuildNamespace(a)]
       /\ shown' = [shown EXCEPT ![p] = EquivalentCommand(Op(p), BuildNamespace(a))]
  /\ \/ pc' = [pc EXCEPT ![p] = "parsed"] /\ UNCHANGED code
     \/ Exit(p, 0)
  /\ UNCHANGED <<server, chunks, conn, live, pipe, back>>

-----------------------------------------------------------------------------
(* _run_read, _run_write, _run_scan *)

Build(p) ==
  /\ pc[p] = "parsed"
  /\ IF Buildable(p) THEN pc' = [pc EXCEPT ![p] = "dialling"] /\ UNCHANGED code
                     ELSE Exit(p, 1)
  /\ UNCHANGED <<server, ns, shown, chunks, conn, live, pipe, back>>

\* __aenter__ fails: ModbusConnectionError, and exit code 2.
ConnectFail(p) ==
  /\ pc[p] = "dialling"
  /\ Exit(p, 2)
  /\ UNCHANGED <<server, ns, shown, chunks, conn, live, pipe, back>>

\* Connected; the requests are planned, and gather sends each.  A ValueError
\* (nothing to plan, or a request that starts beyond the address space) leaves
\* the command with a traceback, the other requests being sent by then.
ConnectOk(p) ==
  /\ pc[p] = "dialling" /\ Reachable(p)
  /\ conn' = [conn EXCEPT ![p] = 1]
  /\ LET reqs == IF Plannable(p) THEN Requests(p) ELSE {}
         sent == {c \in reqs : c.from \in 0..AddressMax}
         order == InOrder(sent)
     IN /\ pipe' = [pipe EXCEPT ![p][1] = [i \in DOMAIN order |-> [c |-> order[i], n |-> 1]]]
        /\ IF reqs # {} /\ sent = reqs
           THEN /\ chunks' = [chunks EXCEPT ![p] = [c \in reqs |->
                                 [n |-> 1, st |-> "waiting", got |-> <<>>]]]
                /\ live' = [live EXCEPT ![p] = TRUE]
                /\ pc' = [pc EXCEPT ![p] = "running"]
                /\ UNCHANGED code
           ELSE Exit(p, 1) /\ UNCHANGED <<chunks, live>>
  /\ UNCHANGED <<server, ns, shown, back>>

\* _emit_read_result, _emit_write_result, and the handlers of _run_scan, where
\* any response, an exception response too, proves the device alive.
ExitCode(p) ==
  LET ends == {chunks[p][c].st : c \in DOMAIN chunks[p]}
      l == ns[p]
      decodes == Op(p) = "read" /\ l.area \in {"holding", "input"} =>
                   CASE l.dtype = "bit"  -> l.bit_index \in 0..(16 * l.count - 1)
                     [] l.dtype = "bits" -> l.bit_indices.top < 16 * l.count
                     [] OTHER -> l.count % Rpi(l.dtype) = 0
  IN IF Op(p) = "scan" THEN CASE "connError" \in ends -> 2 [] "timeout" \in ends -> 1
                              [] OTHER -> 0
     ELSE IF ends = {"ok"} /\ decodes THEN 0 ELSE 1

\* gather has every result; the results are printed and the client is closed.
Finish(p) ==
  /\ pc[p] = "running"
  /\ \A c \in DOMAIN chunks[p] : chunks[p][c].st \notin {"waiting", "backoff"}
  /\ Exit(p, ExitCode(p))
  /\ live' = [live EXCEPT ![p] = FALSE]
  /\ back' = [back EXCEPT ![p] = <<>>]
  /\ UNCHANGED <<server, ns, shown, chunks, conn, pipe>>

\* Ctrl-C: the command is cancelled, its client closed.
Interrupt(p) ==
  /\ pc[p] # "exited"
  /\ Exit(p, 130)
  /\ live' = [live EXCEPT ![p] = FALSE]
  /\ back' = [back EXCEPT ![p] = <<>>]
  /\ UNCHANGED <<server, ns, shown, chunks, conn, pipe>>

-----------------------------------------------------------------------------
(* AsyncClient.execute, per request *)

\* An attempt ends: with an error of retry_on and attempts left, another
\* follows.
Ended(p, h, res, got) ==
  LET again == res \in {"timeout", "connError"} /\ h.n < MaxAttempts(p)
  IN [h EXCEPT !.st = IF again THEN "backoff" ELSE res, !.got = got]

Waiting(p) == {c \in DOMAIN chunks[p] : chunks[p][c].st = "waiting"}

\* Fault: a late response to an earlier attempt is taken.
Resolves_AnyAttempt(r, h) == h.st = "waiting"

\* A response resolves the attempt it answers, known by its transaction.
Resolves(r, h) == h.st = "waiting" /\ h.n = r.n

Receive(p) ==
  /\ pc[p] = "running" /\ back[p] # <<>>
  /\ LET r == Head(back[p]) IN
     /\ back' = [back EXCEPT ![p] = Tail(@)]
     /\ chunks' = [chunks EXCEPT ![p][r.c] =
                     IF Resolves(r, @) THEN Ended(p, @, r.res, r.got) ELSE @]
  /\ UNCHANGED <<server, ns, shown, pc, code, conn, live, pipe>>

\* Fault: only the first attempt has a timer.
Timeout_FirstOnly(p, c) ==
  /\ pc[p] = "running" /\ c \in Waiting(p) /\ chunks[p][c].n = 1
  /\ chunks' = [chunks EXCEPT ![p][c] = Ended(p, @, "timeout", <<>>)]
  /\ UNCHANGED <<server, ns, shown, pc, code, conn, live, pipe, back>>

Timeout(p, c) ==
  /\ pc[p] = "running" /\ c \in Waiting(p)
  /\ chunks' = [chunks EXCEPT ![p][c] = Ended(p, @, "timeout", <<>>)]
  /\ UNCHANGED <<server, ns, shown, pc, code, conn, live, pipe, back>>

\* The client sees its connection end: every waiting attempt fails.  What it
\* had sent may still reach the simulator.
Lose(p) ==
  /\ pc[p] = "running" /\ live[p] /\ conn[p] <= MaxLosses
  /\ live' = [live EXCEPT ![p] = FALSE]
  /\ back' = [back EXCEPT ![p] = <<>>]
  /\ chunks' = [chunks EXCEPT ![p] = [c \in DOMAIN chunks[p] |->
                  IF c \in Waiting(p) THEN Ended(p, chunks[p][c], "connError", <<>>)
                  ELSE chunks[p][c]]]
  /\ UNCHANGED <<server, ns, shown, pc, code, conn, pipe>>

\* The backoff is over: the next attempt connects if it must, and sends.
Resend(p, c) ==
  /\ pc[p] = "running" /\ c \in DOMAIN chunks[p] /\ chunks[p][c].st = "backoff"
  /\ live[p] \/ Reachable(p)
  /\ LET n == chunks[p][c].n + 1
         k == IF live[p] THEN conn[p] ELSE conn[p] + 1
     IN /\ chunks' = [chunks EXCEPT ![p][c] = [@ EXCEPT !.st = "waiting", !.n = n]]
        /\ conn' = [conn EXCEPT ![p] = k]
        /\ pipe' = [pipe EXCEPT ![p][k] = Append(@, [c |-> c, n |-> n])]
  /\ live' = [live EXCEPT ![p] = TRUE]
  /\ UNCHANGED <<server, ns, shown, pc, code, back>>

\* The next attempt cannot connect.
RedialFail(p, c) ==
  /\ pc[p] = "running" /\ c \in DOMAIN chunks[p] /\ chunks[p][c].st = "backoff" /\ ~live[p]
  /\ chunks' = [chunks EXCEPT ![p][c] =
                  Ended(p, [@ EXCEPT !.n = chunks[p][c].n + 1], "connError", <<>>)]
  /\ UNCHANGED <<server, ns, shown, pc, code, conn, live, pipe, back>>

-----------------------------------------------------------------------------
(* The simulator: Server._on_client with the callbacks of _run_serve *)

Denied(p) == \/ serve.unit_id # None /\ ns[p].unit_id # serve.unit_id
             \/ Op(p) = "write" /\ serve.readonly

Cells(p, c) == {<<Area(p), a>> : a \in Units(c)}

\* _SimState.read and _to_int_list: an unmapped address, or a value that is no
\* 16-bit register, is answered with an exception.
Readable(p, c) == \A x \in Cells(p, c) : x \in DOMAIN mem /\ mem[x].fits

\* What the dispatcher answers to a request.
Response(p, r) ==
  LET Reply(res, got) == [c |-> r.c, n |-> r.n, res |-> res, got |-> got]
  IN IF Denied(p) THEN Reply("exception", <<>>)
     ELSE IF Op(p) = "write" THEN Reply("ok", <<>>)
     ELSE IF ~Readable(p, r.c) THEN Reply("exception", <<>>)
     ELSE Reply("ok", [a \in Units(r.c) |-> mem[<<Area(p), a>>].by])

\* _SimState.write: it extends the memory where it must.
Written(p, c) == [x \in Cells(p, c) |-> [by |-> p, fits |-> TRUE]] ++ mem

\* The handler of a connection takes its next request.  The callbacks are
\* synchronous: a request is served without other requests in between.
Serve(p, k) ==
  /\ up /\ pipe[p][k] # <<>>
  /\ LET r == Head(pipe[p][k])
         applied == Op(p) = "write" /\ ~Denied(p)
     IN /\ pipe' = [pipe EXCEPT ![p][k] = Tail(@)]
        /\ mem' = IF applied THEN Written(p, r.c) ELSE mem
        /\ landed' = IF applied THEN landed \cup {<<p, r.c>>} ELSE landed
        /\ late' = IF applied /\ code[p] = 0 THEN late \cup {p} ELSE late
        /\ back' = IF live[p] /\ k = conn[p]
                   THEN [back EXCEPT ![p] = Append(@, Response(p, r))] ELSE back
  /\ UNCHANGED <<serve, job, up, ns, shown, pc, code, chunks, conn, live>>

\* The simulator sees the end of a connection the client has left, and drops
\* what it had not read.
Hangup(p, k) ==
  /\ pipe[p][k] # <<>> /\ ~(live[p] /\ k = conn[p])
  /\ pipe' = [pipe EXCEPT ![p][k] = <<>>]
  /\ UNCHANGED <<server, ns, shown, pc, code, chunks, conn, live, back>>

\* Ctrl-C on the simulator: stop() closes and cancels every connection.
StopServe ==
  /\ up /\ up' = FALSE
  /\ pipe' = [p \in Procs |-> [k \in DOMAIN pipe[p] |-> <<>>]]
  /\ UNCHANGED <<serve, job, mem, landed, late, ns, shown, pc, code, chunks, conn, live, back>>

Terminated == /\ \A p \in Procs : pc[p] = "exited" /\ \A k \in DOMAIN pipe[p] : pipe[p][k] = <<>>
              /\ UNCHANGED vars

Step(p) == \/ Parse(p) \/ Build(p) \/ ConnectFail(p) \/ ConnectOk(p) \/ Finish(p)
           \/ Receive(p) \/ Lose(p)
           \/ \E c \in DOMAIN chunks[p] : Timeout(p, c) \/ Resend(p, c) \/ RedialFail(p, c)

Next == \/ \E p \in Procs : \/ Step(p) \/ Guide(p) \/ Interrupt(p)
                            \/ \E k \in DOMAIN pipe[p] : Serve(p, k) \/ Hangup(p, k)
        \/ StopServe
        \/ Terminated

Spec == Init /\ [][Next]_vars

\* The event loop of a command runs, its timers fire and its dials end; nothing
\* is asked of the simulator or of the network.
LiveSpec == Spec /\ \A p \in Procs : WF_vars(Step(p))

-----------------------------------------------------------------------------
(* Properties *)

\* Running the printed command gives the namespace that the wizard runs: the
\* defaults of the parser, the wizard and the printer agree, and quoting is
\* right, unless an answer holds characters that only the shell interprets or
\* begins with a dash.
GuideTeachesTheCommand ==
  \A p \in Procs : shown[p] # None =>
    \/ /\ Parses(Op(p), Shell(shown[p]))
       /\ ParseArgs(Op(p), Shell(shown[p])) = ns[p]
    \/ \E o \in DOMAIN shown[p] \cap TextOptions : shown[p][o].shape \in {"special", "dashed"}

\* What an exit code does tell a script.  0: a write has been applied in full,
\* and none of its requests is applied again later, unless a connection was lost
\* on the way.  1: a write was not confirmed in full, and if the command never
\* had a connection, then only because it lacked an argument or had a malformed
\* value: what cannot be reached gives 2.  2: the device has not been touched,
\* will not be, and has answered nothing.  (The documentation keeps 1 for
\* exception responses; the code gives it for every failed result, and for
\* arguments that argparse lets pass.)
ExitStatusTruthful ==
  \A p \in Procs :
    /\ code[p] = 0 /\ Op(p) = "write" /\ pc[p] = "exited" /\ DOMAIN chunks[p] # {} =>
         {<<p, c>> : c \in Requests(p)} \subseteq landed
    /\ p \in late => conn[p] > 1
    /\ code[p] = 1 /\ Op(p) = "write" =>
         DOMAIN chunks[p] = {} \/ \E c \in DOMAIN chunks[p] : chunks[p][c].st # "ok"
    /\ code[p] = 1 /\ conn[p] = 0 => ~Buildable(p)
    /\ code[p] = 2 => /\ \A x \in landed : x[1] # p
                      /\ \A c \in DOMAIN chunks[p] : chunks[p][c].st = "connError"

\* The units of the k-th value of a typed command, and whether one request
\* carries them all.
Window(p, k) == {ns[p].start + i : i \in ((k - 1) * Width(p))..(k * Width(p) - 1)}
OneRequest(p, k) == ((k - 1) * Width(p)) \div Limit(p) = (k * Width(p) - 1) \div Limit(p)
Values(p) == 1..(Count(p) \div Width(p))

\* A value read with success has registers of different writers only if it, or
\* the write of such a value, was cut by the PDU limit, or a writer addressed
\* another part of the registers.
TornOnlyAcrossRequests ==
  \A p \in Procs :
    Op(p) = "read" /\ code[p] = 0 /\ DOMAIN chunks[p] # {} /\ ns[p].dtype \notin {"bit", "bits"} =>
      \A k \in Values(p) :
        LET seen == UNION {{chunks[p][c].got[a] : a \in Units(c) \cap Window(p, k)} :
                             c \in DOMAIN chunks[p]}
            whole(q) == \E j \in Values(q) : Window(q, j) = Window(p, k) /\ OneRequest(q, j)
        IN \/ Cardinality(seen) = 1
           \/ ~OneRequest(p, k)
           \/ \E q \in seen \cap Procs : ~whole(q)

\* Every command that was started, typed or from the wizard, ends, whatever the
\* simulator and the network do.
CommandsEnd == \A p \in Procs :
  (job[p].via = "argv" \/ pc[p] # "start") ~> (pc[p] = "exited")
=============================================================================
