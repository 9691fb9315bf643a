----------------------------- MODULE CommandLine -----------------------------
(***************************************************************************)
(* pymod.cli and pymod._guide: from a command line, or from the answers    *)
(* given to the --guide wizard, to the namespace a subcommand runs with,   *)
(* and the command line that the wizard prints.                            *)
(*                                                                         *)
(* A namespace is a function on option names.  Free text (a host, a path,  *)
(* a list of values) is a record with the shape the shell and argparse     *)
(* react to: plain; spaced; special, with characters the shell interprets; *)
(* dashed, which begins with "-" and is not one negative number.           *)
(***************************************************************************)
EXTENDS Integers

CONSTANT None

ASSUME NoneAssumption == None \notin Int

Ops == {"read", "write", "scan"}
TextOptions == {"host", "rtu", "values", "bit_indices"}
Shapes == {"plain", "spaced", "special", "dashed"}

\* A function extended to the domain of another.
f ++ g == [x \in DOMAIN f \cup DOMAIN g |-> IF x \in DOMAIN f THEN f[x] ELSE g[x]]

-----------------------------------------------------------------------------
(* cli._build_parser *)

TransportArgs == [host |-> None, port |-> 502, rtu |-> None, baudrate |-> 9600,
                  bytesize |-> 8, parity |-> "N", stopbits |-> 1, rtu_over_tcp |-> FALSE]

\* Fault: a default that the wizard's printer does not know of.
CallArgs_Drifted == [unit_id |-> 1, timeout_s |-> 5, retries |-> 3]

\* The timeout in tenths of a second.
CallArgs == [unit_id |-> 1, timeout_s |-> 5, retries |-> 1]

LayoutArgs == [dtype |-> "uint16", word_order |-> "big", byte_order |-> "big"]

BitArgs == [bit_index |-> None, bit_indices |-> None, bit_numbering |-> "lsb_first"]

Required == [read |-> {"area", "start", "count"}, write |-> {"area", "start", "values"},
             scan |-> {}]

\* The defaults of a subcommand's options; required ones have None.
Parser(op) ==
  TransportArgs ++ CallArgs ++ [json |-> FALSE]
  ++ CASE op = "read"  -> [o \in Required.read |-> None] ++ LayoutArgs ++ BitArgs
       [] op = "write" -> [o \in Required.write |-> None] ++ LayoutArgs
       [] op = "scan"  -> [start |-> 0]

\* argparse takes a dashed word for an option, and then misses an argument.
Parses(op, words) ==
  /\ Required[op] \subseteq DOMAIN words
  /\ \A o \in DOMAIN words \cap TextOptions : words[o].shape # "dashed"

ParseArgs(op, words) == words ++ Parser(op)

-----------------------------------------------------------------------------
(* _guide: the answers, and the namespace they give *)

WideDTypes == {"int32", "uint32", "float32", "int64", "uint64", "float64"}

\* What the prompts insist on; another answer is asked for again.
Accepted(a) ==
  /\ a.kind # "rtu" => a.port >= 1
  /\ a.kind = "rtu" => a.baudrate >= 300
  /\ a.unit_id >= 0 /\ a.retries >= 0 /\ a.start >= 0
  /\ a.op = "read" => a.count >= 1 /\ (a.dtype = "bit" => a.bit_index >= 0)

\* Fields the transport does not ask for keep the values set before.
AskTransport(a) ==
  [port |-> 502, baudrate |-> 9600, bytesize |-> 8, parity |-> "N", stopbits |-> 1,
   rtu_over_tcp |-> a.kind = "rtu-over-tcp"]
  ++ IF a.kind = "rtu" THEN [host |-> None, rtu |-> a.rtu] ELSE [host |-> a.host, rtu |-> None]

Asked(a) == IF a.kind = "rtu" THEN [baudrate |-> a.baudrate, parity |-> a.parity]
                              ELSE [port |-> a.port]

AskCallArgs(a) == [unit_id |-> a.unit_id, timeout_s |-> a.timeout_s, retries |-> a.retries]

\* Only the wide types are asked for a layout.
AskLayout(a) ==
  IF a.area \in {"holding", "input"} /\ a.dtype \in WideDTypes
  THEN [word_order |-> a.word_order, byte_order |-> a.byte_order]
  ELSE [word_order |-> "big", byte_order |-> "big"]

AskDType(a) == [dtype |-> IF a.area \in {"holding", "input"} THEN a.dtype ELSE "uint16"]

AskRead(a) ==
  LET reg == a.area \in {"holding", "input"}
      bit == reg /\ a.dtype = "bit"
      bits == reg /\ a.dtype = "bits"
  IN [area |-> a.area, start |-> a.start, count |-> a.count,
      bit_index |-> IF bit THEN a.bit_index ELSE None,
      bit_indices |-> IF bits THEN a.bit_indices ELSE None,
      bit_numbering |-> IF bit \/ bits THEN a.bit_numbering ELSE "lsb_first"]
     ++ AskDType(a) ++ AskLayout(a)

AskWrite(a) == [area |-> a.area, start |-> a.start, values |-> a.values]
               ++ AskDType(a) ++ AskLayout(a)

BuildNamespace(a) ==
  [json |-> a.json] ++ Asked(a) ++ AskTransport(a) ++ AskCallArgs(a)
  ++ CASE a.op = "read" -> AskRead(a) [] a.op = "write" -> AskWrite(a)
       [] a.op = "scan" -> [start |-> a.start]

-----------------------------------------------------------------------------
(* _guide._equivalent_command *)

\* What the printer compares with before it leaves an option out.
Omitted == [baudrate |-> 9600, parity |-> "N", port |-> 502, rtu_over_tcp |-> FALSE,
            unit_id |-> 1, timeout_s |-> 5, retries |-> 1, dtype |-> "uint16",
            word_order |-> "big", byte_order |-> "big", bit_index |-> None,
            bit_indices |-> None, bit_numbering |-> "lsb_first", start |-> 0, json |-> FALSE]

\* The options that are printed.
Printed(op, ns) ==
  LET Changed(S) == {o \in S : ns[o] # Omitted[o]}
  IN (IF ns.rtu # None THEN {"rtu"} \cup Changed({"baudrate", "parity"})
      ELSE {"host"} \cup Changed({"port", "rtu_over_tcp"}))
     \cup Changed({"unit_id", "timeout_s", "retries", "json"})
     \cup CASE op = "read"  -> {"area", "start", "count"} \cup
                 Changed({"dtype", "word_order", "byte_order",
                          "bit_index", "bit_indices", "bit_numbering"})
            [] op = "write" -> {"area", "start", "values"} \cup
                 Changed({"dtype", "word_order", "byte_order"})
            [] op = "scan"  -> Changed({"start"})

\* _quote: only spaces are quoted.
Quoted(text) == text.shape = "spaced"

EquivalentCommand(op, ns) == [o \in Printed(op, ns) |-> ns[o]]

\* The words the shell makes of a printed command: a text that is not quoted
\* and not plain to the shell comes out as another.
ShellWord(text) == IF Quoted(text) \/ text.shape \in {"plain", "dashed"} THEN text
                   ELSE [text EXCEPT !.id = None]

Shell(words) == [o \in DOMAIN words |->
                   IF o \in TextOptions THEN ShellWord(words[o]) ELSE words[o]]
=============================================================================
