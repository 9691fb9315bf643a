-------------------------------- MODULE MCCli --------------------------------
(* Two commands against one simulator, and the wizard by itself. *)
EXTENDS Cli

CONSTANTS c1, c2

\* A free text: what it is (id), its shape, and as a list of values: how many,
\* what they parse as, whether they fit the dtype, and the largest.
Text(id, shape) == [id |-> id, shape |-> shape, n |-> 0, parses |-> {}, fits |-> TRUE, top |-> 0]
List(id, n, parses) == [Text(id, "plain") EXCEPT !.n = n, !.parses = parses, !.top = 7]

Sim == Text("sim", "plain")

Cell(fits) == [by |-> None, fits |-> fits]
Serving == [host |-> Sim, port |-> 502, unit_id |-> None, readonly |-> FALSE,
            config |-> [x \in {"holding"} \X (0..3) |-> Cell(FALSE)],
            inline |-> [x \in {"holding"} \X (0..3) \cup {<<"coil", 0>>} |-> Cell(TRUE)]]

To == [host |-> Sim, start |-> 0]
ReadWords(count, dtype, retries) ==
  To @@ [area |-> "holding", count |-> count, dtype |-> dtype, retries |-> retries]
WriteWords(values, dtype, retries) ==
  To @@ [area |-> "holding", values |-> values, dtype |-> dtype, retries |-> retries]

Typed(op, words) == [via |-> "argv", op |-> op, words |-> words]
None1 == Typed(None, <<>>)
Wizard(op) == [via |-> "guide", op |-> op, words |-> <<>>]

Ints(n) == List("ints", n, {"int", "float"})
Read(n, d, r) == Typed("read", ReadWords(n, d, r))
Write(n, d, r) == Typed("write", WriteWords(Ints(n), d, r))

\* Values cut by the PDU limit (3) and values that are not; retries of both.
Races == {<<Write(2, "float32", 0), Read(4, "float32", 0)>>,
          <<Write(1, "float32", 1), Read(2, "uint32", 1)>>,
          <<Write(1, "float32", 1), Write(1, "int32", 1)>>,
          <<Write(1, "int64", 0), Read(4, "int64", 0)>>,
          <<Write(2, "uint16", 1), Typed("scan", [host |-> Sim, retries |-> 0])>>}

\* Commands that end early, each beside a write.
Odd == {Typed("read", [host |-> Sim]),
        Typed("read", ReadWords(0, "uint16", 0)),
        Typed("read", ReadWords(3, "int32", -1)),
        Typed("read", ReadWords(1, "bit", 0)),
        Typed("read", [bit_index |-> 16] @@ ReadWords(1, "bit", 0)),
        Typed("read", [bit_indices |-> List("0,7", 2, {"int"})] @@ ReadWords(1, "bits", 0)),
        Typed("read", [area |-> "coil"] @@ ReadWords(1, "uint16", 0)),
        Typed("read", [area |-> "input"] @@ ReadWords(1, "uint16", 0)),
        Typed("read", [start |-> -1] @@ ReadWords(1, "uint16", 0)),
        Typed("read", [unit_id |-> 256] @@ ReadWords(1, "uint16", 0)),
        Typed("scan", [start |-> 9]), Typed("scan", [host |-> Sim, start |-> 9]),
        Typed("write", [start |-> 4] @@ WriteWords(Ints(4), "uint16", 0)),
        Typed("write", WriteWords([Ints(1) EXCEPT !.fits = FALSE], "uint16", 0)),
        Typed("write", WriteWords(List("3.14", 1, {"float"}), "float64", 0)),
        Typed("write", WriteWords(List(",", 0, {}), "uint16", 0)),
        Typed("write", [area |-> "coil"] @@ WriteWords(List("on", 1, {"bool"}), "uint16", 0)),
        Typed("write", WriteWords([Ints(1) EXCEPT !.shape = "dashed"], "int16", 0))}

Pair(s, a, b) == [serve |-> s, job |-> [p \in Procs |-> IF p = c1 THEN a ELSE b]]

MCScenarios ==
  {Pair(Serving, r[1], r[2]) : r \in Races}
  \cup {Pair(Serving, o, None1) : o \in Odd}
  \cup {Pair(s, Write(1, "uint16", 0), Read(1, "uint16", 0)) :
          s \in {[Serving EXCEPT !.readonly = TRUE], [Serving EXCEPT !.unit_id = 2],
                 [Serving EXCEPT !.inline = <<>>]}}
  \cup {Pair(Serving, Wizard(op), None1) : op \in Ops}

\* Every prompt answered with its default and with something else.
Base == [op |-> "read", kind |-> "tcp", host |-> Sim, port |-> 502, rtu |-> Text("com3", "plain"),
         baudrate |-> 9600, parity |-> "N", unit_id |-> 1, timeout_s |-> 5, retries |-> 1,
         area |-> "holding", start |-> 0, count |-> 2, dtype |-> "uint16", word_order |-> "big",
         byte_order |-> "big", bit_index |-> 0, bit_indices |-> List("0,7", 2, {"int"}),
         bit_numbering |-> "lsb_first", values |-> Ints(1), json |-> FALSE]

Transports ==
  {[Base EXCEPT !.kind = k, !.host = h, !.port = n] :
     k \in {"tcp", "rtu-over-tcp"}, n \in {0, 502, 503},
     h \in {Sim, Text("my plc", "spaced"), Text("$PLC", "special")}}
  \cup {[Base EXCEPT !.kind = "rtu", !.rtu = t, !.baudrate = b, !.parity = y] :
          t \in {Text("com3", "plain"), Text("-x", "dashed")}, b \in {9600, 19200}, y \in {"N", "E"}}

Calls == {[a EXCEPT !.op = o] : a \in Transports, o \in Ops}
         \cup {[Base EXCEPT !.op = o, !.unit_id = u, !.retries = r, !.timeout_s = t] :
                 o \in Ops, u \in {1, 2}, r \in {1, 0}, t \in {5, 10}}

Reads == {[Base EXCEPT !.area = x, !.dtype = d, !.word_order = w, !.bit_numbering = b, !.json = j] :
            x \in {"holding", "discrete"}, d \in {"uint16", "float32", "bit", "bits"},
            w \in {"big", "little"}, b \in {"lsb_first", "msb_first"}, j \in BOOLEAN}
Writes == {[Base EXCEPT !.op = "write", !.area = x, !.dtype = d, !.byte_order = w, !.values = v] :
             x \in {"holding", "coil"}, d \in {"uint16", "int32"}, w \in {"big", "little"},
             v \in {Ints(1), [Ints(1) EXCEPT !.shape = "spaced"], [Ints(1) EXCEPT !.shape = "dashed"]}}
Scans == {[Base EXCEPT !.op = "scan", !.start = s] : s \in {0, 3}}

MCAnswers == Calls \cup Reads \cup Writes \cup Scans
=============================================================================
