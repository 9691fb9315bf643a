------------------------------ MODULE CliProofs ------------------------------
(***************************************************************************)
(* Proofs about the command line: what an exit code tells is true for      *)
(* every number of commands, every request plan and every interleaving of  *)
(* timeouts, retries, lost connections and Ctrl-C; the command that the    *)
(* wizard prints is the one it runs, for all answers; and a value is read  *)
(* torn only where a request plan cut it.                                  *)
(***************************************************************************)
EXTENDS Cli, PlanProofs

-----------------------------------------------------------------------------
(* Sequences *)

IsSeq(s) == \E S : s \in Seq(S)
Indices(s) == 1..Len(s)

\* The empty sequence.
LEMMA EmptyQueue == IsSeq(<<>>) /\ Len(<<>>) = 0 /\ Indices(<<>>) = {}
<1>1. <<>> \in Seq({}) /\ Len(<<>>) = 0
  OBVIOUS
<1>2. IsSeq(<<>>)
  BY <1>1, Zenon DEF IsSeq
<1>3. Indices(<<>>) = {}
  BY <1>1 DEF Indices
<1>4. QED BY <1>1, <1>2, <1>3

\* The first element of a queue is taken.
LEMMA TakeHead ==
  ASSUME NEW s, IsSeq(s), s # <<>>
  PROVE  /\ IsSeq(Tail(s)) /\ 1 \in Indices(s) /\ Head(s) = s[1]
         /\ \A i \in Indices(Tail(s)) : i + 1 \in Indices(s) /\ Tail(s)[i] = s[i + 1]
<1>1. PICK S : s \in Seq(S)
  BY DEF IsSeq
<1>2. Tail(s) \in Seq(S)
  BY <1>1
<1>3. /\ 1 \in 1..Len(s) /\ Head(s) = s[1]
      /\ \A i \in 1..Len(Tail(s)) : i + 1 \in 1..Len(s) /\ Tail(s)[i] = s[i + 1]
  BY <1>1
<1> QED BY <1>2, <1>3 DEF IsSeq, Indices

\* A new last element of a queue.
LEMMA PutLast ==
  ASSUME NEW s, IsSeq(s), NEW e
  PROVE  /\ IsSeq(Append(s, e))
         /\ Len(s) \in Nat /\ Len(Append(s, e)) = Len(s) + 1
         /\ Append(s, e)[Len(s) + 1] = e
         /\ \A i \in Indices(s) : Append(s, e)[i] = s[i]
         /\ \A i \in Indices(Append(s, e)) : i \in Indices(s) \/ i = Len(s) + 1
<1>1. PICK S : s \in Seq(S)
  BY DEF IsSeq
<1>2. s \in Seq(S \cup {e})
  BY <1>1
<1> DEFINE T == S \cup {e}
<1>3. s \in Seq(T) /\ e \in T
  BY <1>2
<1> HIDE DEF T
<1>4. Append(s, e) \in Seq(T)
  BY <1>3
<1>5. /\ Len(s) \in Nat /\ Len(Append(s, e)) = Len(s) + 1
      /\ Append(s, e)[Len(s) + 1] = e
      /\ \A i \in 1..Len(s) : Append(s, e)[i] = s[i]
  BY <1>3
<1>6. \A i \in 1..(Len(s) + 1) : i \in 1..Len(s) \/ i = Len(s) + 1
  BY <1>5
<1> QED BY <1>4, <1>5, <1>6 DEF IsSeq, Indices

-----------------------------------------------------------------------------
(* The command that the wizard prints *)

CommonOptions == {"host", "port", "rtu", "baudrate", "bytesize", "parity", "stopbits",
                  "rtu_over_tcp", "unit_id", "timeout_s", "retries", "json"}
OwnOptions == [read  |-> {"area", "start", "count", "dtype", "word_order", "byte_order",
                          "bit_index", "bit_indices", "bit_numbering"},
               write |-> {"area", "start", "values", "dtype", "word_order", "byte_order"},
               scan  |-> {"start"}]

\* The options that the printer compares.
LEMMA OmittedOptions ==
  /\ DOMAIN Omitted = {"baudrate", "parity", "port", "rtu_over_tcp", "unit_id", "timeout_s",
       "retries", "dtype", "word_order", "byte_order", "bit_index", "bit_indices",
       "bit_numbering", "start", "json"}
  /\ Omitted["baudrate"] = 9600 /\ Omitted["parity"] = "N" /\ Omitted["port"] = 502
  /\ Omitted["rtu_over_tcp"] = FALSE /\ Omitted["unit_id"] = 1 /\ Omitted["timeout_s"] = 5
  /\ Omitted["retries"] = 1 /\ Omitted["dtype"] = "uint16" /\ Omitted["word_order"] = "big"
  /\ Omitted["byte_order"] = "big" /\ Omitted["bit_index"] = None
  /\ Omitted["bit_indices"] = None /\ Omitted["bit_numbering"] = "lsb_first"
  /\ Omitted["start"] = 0 /\ Omitted["json"] = FALSE
BY DEF Omitted

\* The arguments a subcommand cannot do without.
LEMMA RequiredOptions == /\ Required["read"] = {"area", "start", "count"}
                         /\ Required["write"] = {"area", "start", "values"}
                         /\ Required["scan"] = {}
BY DEF Required

\* The parser's defaults are those that the printer compares with.
LEMMA ParserDefaults ==
  ASSUME NEW op \in Ops
  PROVE  /\ DOMAIN Parser(op) = CommonOptions \cup OwnOptions[op]
         /\ \A o \in DOMAIN Omitted \cap DOMAIN Parser(op) :
              o \notin Required[op] => Parser(op)[o] = Omitted[o]
         /\ Parser(op).host = None /\ Parser(op).rtu = None
         /\ Parser(op).bytesize = 8 /\ Parser(op).stopbits = 1
<1> DEFINE P == TransportArgs ++ CallArgs
           Q == P ++ [json |-> FALSE]
<1>1. /\ DOMAIN P = CommonOptions \ {"json"}
      /\ P.host = None /\ P.port = 502 /\ P.rtu = None /\ P.baudrate = 9600
      /\ P.bytesize = 8 /\ P.parity = "N" /\ P.stopbits = 1 /\ P.rtu_over_tcp = FALSE
      /\ P.unit_id = 1 /\ P.timeout_s = 5 /\ P.retries = 1
  BY DEF TransportArgs, CallArgs, ++, CommonOptions
<1> HIDE DEF P
<1>2. /\ DOMAIN Q = CommonOptions
      /\ Q.host = None /\ Q.port = 502 /\ Q.rtu = None /\ Q.baudrate = 9600
      /\ Q.bytesize = 8 /\ Q.parity = "N" /\ Q.stopbits = 1 /\ Q.rtu_over_tcp = FALSE
      /\ Q.unit_id = 1 /\ Q.timeout_s = 5 /\ Q.retries = 1 /\ Q.json = FALSE
  BY <1>1 DEF ++, CommonOptions
<1>3. CASE op = "read"
  <2> DEFINE R == [o \in Required.read |-> None] ++ LayoutArgs
             S == R ++ BitArgs
  <2>1. /\ DOMAIN R = {"area", "start", "count", "dtype", "word_order", "byte_order"}
        /\ R.dtype = "uint16" /\ R.word_order = "big" /\ R.byte_order = "big"
    BY DEF ++, LayoutArgs, Required
  <2> HIDE DEF R
  <2>2. /\ DOMAIN S = OwnOptions.read
        /\ S.dtype = "uint16" /\ S.word_order = "big" /\ S.byte_order = "big"
        /\ S.bit_index = None /\ S.bit_indices = None /\ S.bit_numbering = "lsb_first"
    BY <2>1 DEF ++, BitArgs, OwnOptions
  <2> HIDE DEF Q, S
  <2>3. Parser(op) = Q ++ S
    BY <1>3 DEF Parser, P, Q, R, S
  <2>4. /\ DOMAIN Parser(op) = CommonOptions \cup OwnOptions.read
        /\ Parser(op).host = None /\ Parser(op).port = 502 /\ Parser(op).rtu = None
        /\ Parser(op).baudrate = 9600 /\ Parser(op).bytesize = 8 /\ Parser(op).parity = "N"
        /\ Parser(op).stopbits = 1 /\ Parser(op)["rtu_over_tcp"] = FALSE /\ Parser(op).unit_id = 1
        /\ Parser(op).timeout_s = 5 /\ Parser(op).retries = 1 /\ Parser(op)["json"] = FALSE
        /\ Parser(op).dtype = "uint16" /\ Parser(op).word_order = "big"
        /\ Parser(op).byte_order = "big"
        /\ Parser(op).bit_index = None /\ Parser(op).bit_indices = None
        /\ Parser(op).bit_numbering = "lsb_first"
    BY <1>2, <2>2, <2>3 DEF ++, OwnOptions, CommonOptions
  <2>5. ASSUME NEW o \in DOMAIN Omitted \cap DOMAIN Parser(op), o \notin Required[op]
        PROVE  Parser(op)[o] = Omitted[o]
    <3>1. CASE o = "json"
      <4>1. Parser(op)["json"] = FALSE
        BY <2>4
      <4>2. Omitted["json"] = FALSE
        BY OmittedOptions
      <4> QED BY <3>1, <4>1, <4>2, Zenon
    <3>2. CASE o = "rtu_over_tcp"
      <4>1. Parser(op)["rtu_over_tcp"] = FALSE
        BY <2>4
      <4>2. Omitted["rtu_over_tcp"] = FALSE
        BY OmittedOptions
      <4> QED BY <3>2, <4>1, <4>2, Zenon
    <3>3. CASE o \notin {"json", "rtu_over_tcp"}
      BY <1>3, <2>4, <2>5, <3>3, OmittedOptions, RequiredOptions DEF OwnOptions, CommonOptions
    <3> QED BY <3>1, <3>2, <3>3
  <2> QED BY <1>3, <2>4, <2>5 DEF OwnOptions
<1>4. CASE op = "write"
  <2> DEFINE R == [o \in Required.write |-> None] ++ LayoutArgs
  <2>1. /\ DOMAIN R = OwnOptions.write
        /\ R.dtype = "uint16" /\ R.word_order = "big" /\ R.byte_order = "big"
    BY DEF ++, LayoutArgs, Required, OwnOptions
  <2> HIDE DEF Q, R
  <2>3. Parser(op) = Q ++ R
    BY <1>4 DEF Parser, P, Q, R
  <2>4. /\ DOMAIN Parser(op) = CommonOptions \cup OwnOptions.write
        /\ Parser(op).host = None /\ Parser(op).port = 502 /\ Parser(op).rtu = None
        /\ Parser(op).baudrate = 9600 /\ Parser(op).bytesize = 8 /\ Parser(op).parity = "N"
        /\ Parser(op).stopbits = 1 /\ Parser(op)["rtu_over_tcp"] = FALSE /\ Parser(op).unit_id = 1
        /\ Parser(op).timeout_s = 5 /\ Parser(op).retries = 1 /\ Parser(op)["json"] = FALSE
        /\ Parser(op).dtype = "uint16" /\ Parser(op).word_order = "big"
        /\ Parser(op).byte_order = "big"
    BY <1>2, <2>1, <2>3 DEF ++, OwnOptions, CommonOptions
  <2>5. ASSUME NEW o \in DOMAIN Omitted \cap DOMAIN Parser(op), o \notin Required[op]
        PROVE  Parser(op)[o] = Omitted[o]
    <3>1. CASE o = "json"
      <4>1. Parser(op)["json"] = FALSE
        BY <2>4
      <4>2. Omitted["json"] = FALSE
        BY OmittedOptions
      <4> QED BY <3>1, <4>1, <4>2, Zenon
    <3>2. CASE o = "rtu_over_tcp"
      <4>1. Parser(op)["rtu_over_tcp"] = FALSE
        BY <2>4
      <4>2. Omitted["rtu_over_tcp"] = FALSE
        BY OmittedOptions
      <4> QED BY <3>2, <4>1, <4>2, Zenon
    <3>3. CASE o \notin {"json", "rtu_over_tcp"}
      BY <1>4, <2>4, <2>5, <3>3, OmittedOptions, RequiredOptions DEF OwnOptions, CommonOptions
    <3> QED BY <3>1, <3>2, <3>3
  <2> QED BY <1>4, <2>4, <2>5 DEF OwnOptions
<1>5. CASE op = "scan"
  <2> HIDE DEF Q
  <2>1. Parser(op) = Q ++ [start |-> 0]
    BY <1>5 DEF Parser, P, Q
  <2>4. /\ DOMAIN Parser(op) = CommonOptions \cup OwnOptions.scan
        /\ Parser(op).host = None /\ Parser(op).port = 502 /\ Parser(op).rtu = None
        /\ Parser(op).baudrate = 9600 /\ Parser(op).bytesize = 8 /\ Parser(op).parity = "N"
        /\ Parser(op).stopbits = 1 /\ Parser(op)["rtu_over_tcp"] = FALSE /\ Parser(op).unit_id = 1
        /\ Parser(op).timeout_s = 5 /\ Parser(op).retries = 1 /\ Parser(op)["json"] = FALSE
        /\ Parser(op).start = 0
    BY <1>2, <2>1 DEF ++, OwnOptions, CommonOptions
  <2>5. ASSUME NEW o \in DOMAIN Omitted \cap DOMAIN Parser(op), o \notin Required[op]
        PROVE  Parser(op)[o] = Omitted[o]
    <3>1. CASE o = "json"
      <4>1. Parser(op)["json"] = FALSE
        BY <2>4
      <4>2. Omitted["json"] = FALSE
        BY OmittedOptions
      <4> QED BY <3>1, <4>1, <4>2, Zenon
    <3>2. CASE o = "rtu_over_tcp"
      <4>1. Parser(op)["rtu_over_tcp"] = FALSE
        BY <2>4
      <4>2. Omitted["rtu_over_tcp"] = FALSE
        BY OmittedOptions
      <4> QED BY <3>2, <4>1, <4>2, Zenon
    <3>3. CASE o \notin {"json", "rtu_over_tcp"}
      BY <1>5, <2>4, <2>5, <3>3, OmittedOptions, RequiredOptions DEF OwnOptions, CommonOptions
    <3> QED BY <3>1, <3>2, <3>3
  <2> QED BY <1>5, <2>4, <2>5 DEF OwnOptions
<1> QED BY <1>3, <1>4, <1>5 DEF Ops

\* The namespace that the wizard builds from its answers.
AnsweredBy(a, n) ==
  /\ DOMAIN n = CommonOptions \cup OwnOptions[a.op]
  /\ n.bytesize = 8 /\ n.stopbits = 1
  /\ a.kind = "rtu" => n.rtu = a.rtu /\ n.host = None /\ n.port = 502 /\ n.rtu_over_tcp = FALSE
  /\ a.kind # "rtu" => n.rtu = None /\ n.host = a.host /\ n.baudrate = 9600 /\ n.parity = "N"
  /\ a.op = "write" => n.values = a.values
  /\ a.op = "read" => n.bit_indices \in {None, a.bit_indices} /\ n.count = a.count
  /\ n.unit_id = a.unit_id /\ n.retries = a.retries /\ n.start = a.start

\* BuildNamespace asks for what it says.
LEMMA AnsweredOptions == ASSUME NEW a \in Answers PROVE AnsweredBy(a, BuildNamespace(a))
<1>0. a.op \in Ops /\ a.kind \in {"tcp", "rtu-over-tcp", "rtu"}
  BY AnswerAssumption
<1> DEFINE J == [json |-> a.json] ++ Asked(a)
           T == J ++ AskTransport(a)
           C == T ++ AskCallArgs(a)
<1>1. /\ a.kind = "rtu" => DOMAIN J = {"json", "baudrate", "parity"}
      /\ a.kind # "rtu" => DOMAIN J = {"json", "port"}
  BY DEF ++, Asked
<1>2. /\ DOMAIN AskTransport(a) = CommonOptions \ {"json", "unit_id", "timeout_s", "retries"}
      /\ AskTransport(a).bytesize = 8 /\ AskTransport(a).stopbits = 1
      /\ AskTransport(a).port = 502 /\ AskTransport(a).baudrate = 9600
      /\ AskTransport(a).parity = "N" /\ AskTransport(a).rtu_over_tcp = (a.kind = "rtu-over-tcp")
      /\ a.kind = "rtu" => AskTransport(a).rtu = a.rtu /\ AskTransport(a).host = None
      /\ a.kind # "rtu" => AskTransport(a).rtu = None /\ AskTransport(a).host = a.host
  BY DEF ++, AskTransport, CommonOptions
<1>20. a.kind = "rtu" => (a.kind = "rtu-over-tcp") = FALSE
  OBVIOUS
<1>21. a.kind = "rtu" => AskTransport(a).rtu_over_tcp = FALSE
  <2>1. AskTransport(a).rtu_over_tcp = (a.kind = "rtu-over-tcp")
    BY <1>2
  <2> QED BY <1>20, <2>1, Zenon
<1> HIDE DEF J
<1>3. /\ DOMAIN T = CommonOptions \ {"unit_id", "timeout_s", "retries"}
      /\ T.bytesize = 8 /\ T.stopbits = 1
      /\ a.kind = "rtu" => T.rtu = a.rtu /\ T.host = None /\ T.port = 502 /\ T.rtu_over_tcp = FALSE
      /\ a.kind # "rtu" => T.rtu = None /\ T.host = a.host /\ T.baudrate = 9600 /\ T.parity = "N"
  BY <1>0, <1>1, <1>2, <1>21 DEF ++, CommonOptions
<1> HIDE DEF T
<1>4. /\ DOMAIN C = CommonOptions
      /\ C.bytesize = 8 /\ C.stopbits = 1
      /\ a.kind = "rtu" => C.rtu = a.rtu /\ C.host = None /\ C.port = 502 /\ C.rtu_over_tcp = FALSE
      /\ a.kind # "rtu" => C.rtu = None /\ C.host = a.host /\ C.baudrate = 9600 /\ C.parity = "N"
      /\ C.unit_id = a.unit_id /\ C.retries = a.retries
  BY <1>3 DEF ++, AskCallArgs, CommonOptions
<1>5. DOMAIN AskDType(a) = {"dtype"} /\ DOMAIN AskLayout(a) = {"word_order", "byte_order"}
  BY DEF AskDType, AskLayout
<1> HIDE DEF C
<1>6. CASE a.op = "read"
  <2>1. /\ DOMAIN AskRead(a) = OwnOptions.read
        /\ AskRead(a).start = a.start /\ AskRead(a).count = a.count
        /\ AskRead(a).bit_indices \in {None, a.bit_indices}
    BY <1>5 DEF ++, AskRead, OwnOptions
  <2>2. BuildNamespace(a) = C ++ AskRead(a)
    BY <1>6 DEF BuildNamespace, J, T, C
  <2> QED BY <1>4, <1>6, <2>1, <2>2 DEF ++, CommonOptions, OwnOptions, AnsweredBy
<1>7. CASE a.op = "write"
  <2>1. /\ DOMAIN AskWrite(a) = OwnOptions.write
        /\ AskWrite(a).start = a.start /\ AskWrite(a).values = a.values
    BY <1>5 DEF ++, AskWrite, OwnOptions
  <2>2. BuildNamespace(a) = C ++ AskWrite(a)
    BY <1>7 DEF BuildNamespace, J, T, C
  <2> QED BY <1>4, <1>7, <2>1, <2>2 DEF ++, CommonOptions, OwnOptions, AnsweredBy
<1>8. CASE a.op = "scan"
  <2>1. BuildNamespace(a) = C ++ [start |-> a.start]
    BY <1>8 DEF BuildNamespace, J, T, C
  <2> QED BY <1>4, <1>8, <2>1 DEF ++, CommonOptions, OwnOptions, AnsweredBy
<1> QED BY <1>0, <1>6, <1>7, <1>8, Zenon DEF Ops

\* What is printed, of a namespace that answers give.
LEMMA PrintedOptions ==
  ASSUME NEW a \in Answers, NEW n, AnsweredBy(a, n)
  PROVE  /\ Required[a.op] \subseteq Printed(a.op, n) /\ Printed(a.op, n) \subseteq DOMAIN n
         /\ \A o \in Printed(a.op, n) \cap TextOptions : n[o] = a[o]
         /\ \A o \in DOMAIN n \ Printed(a.op, n) : n[o] = Parser(a.op)[o]
<1> DEFINE op == a.op
           W == Printed(op, n)
           Same(o) == n[o] = Omitted[o]
           Layout == {"dtype", "word_order", "byte_order"}
           Bits == {"bit_index", "bit_indices", "bit_numbering"}
<1>1. op \in Ops /\ a.kind \in {"tcp", "rtu-over-tcp", "rtu"} /\ a.rtu # None
  BY AnswerAssumption DEF TextOptions
<1>2. n.rtu # None <=> a.kind = "rtu"
  BY <1>1 DEF AnsweredBy
<1>3. /\ a.kind = "rtu" => /\ "rtu" \in W /\ W \cap {"host", "port", "rtu_over_tcp"} = {}
                           /\ \A o \in {"baudrate", "parity"} : o \in W <=> ~Same(o)
      /\ a.kind # "rtu" => /\ "host" \in W /\ W \cap {"rtu", "baudrate", "parity"} = {}
                           /\ \A o \in {"port", "rtu_over_tcp"} : o \in W <=> ~Same(o)
      /\ \A o \in {"unit_id", "timeout_s", "retries", "json"} : o \in W <=> ~Same(o)
      /\ op = "read" => /\ {"area", "start", "count"} \subseteq W
                        /\ \A o \in Layout \cup Bits : o \in W <=> ~Same(o)
      /\ op = "write" => /\ {"area", "start", "values"} \subseteq W
                         /\ \A o \in Layout : o \in W <=> ~Same(o)
      /\ op = "scan" => ("start" \in W <=> ~Same("start"))
      /\ W \subseteq (CommonOptions \cup OwnOptions[op]) \ {"bytesize", "stopbits"}
  <2> HIDE DEF Same
  <2>1. CASE op = "read"
    BY <1>2, <2>1 DEF Printed, Same, CommonOptions, OwnOptions
  <2>2. CASE op = "write"
    BY <1>2, <2>2 DEF Printed, Same, CommonOptions, OwnOptions
  <2>3. CASE op = "scan"
    BY <1>2, <2>3 DEF Printed, Same, CommonOptions, OwnOptions
  <2> QED BY <1>1, <2>1, <2>2, <2>3 DEF Ops
<1> HIDE DEF W, Same
<1>4. Required[op] \subseteq W /\ W \subseteq DOMAIN n
  BY <1>1, <1>3, RequiredOptions DEF Ops, AnsweredBy
<1>5. ASSUME NEW o \in W \cap TextOptions PROVE n[o] = a[o]
  <2>1. CASE o = "host"
    BY <1>3, <2>1 DEF AnsweredBy
  <2>2. CASE o = "rtu"
    BY <1>3, <2>2 DEF AnsweredBy
  <2>3. CASE o = "values"
    BY <1>1, <1>3, <2>3 DEF AnsweredBy, Ops, OwnOptions, CommonOptions
  <2>4. CASE o = "bit_indices"
    <3>1. op = "read"
      BY <1>1, <1>3, <2>4 DEF Ops, OwnOptions, CommonOptions
    <3>2. n.bit_indices # None
      BY <1>3, <1>5, <2>4, <3>1, OmittedOptions DEF Same
    <3> QED BY <2>4, <3>1, <3>2 DEF AnsweredBy
  <2> QED BY <2>1, <2>2, <2>3, <2>4 DEF TextOptions
<1>6. ASSUME NEW o \in DOMAIN n \ W PROVE n[o] = Parser(op)[o]
  <2>1. /\ DOMAIN Parser(op) = DOMAIN n
        /\ \A x \in DOMAIN Omitted \cap DOMAIN n : x \notin Required[op] => Parser(op)[x] = Omitted[x]
        /\ Parser(op).host = None /\ Parser(op).rtu = None
        /\ Parser(op).bytesize = 8 /\ Parser(op).stopbits = 1
    <3> HIDE DEF op
    <3>1. DOMAIN n = CommonOptions \cup OwnOptions[op]
      BY DEF AnsweredBy, op
    <3> QED BY <1>1, <3>1, ParserDefaults
  <2>2. CASE o \in {"host", "rtu", "bytesize", "stopbits"}
    BY <1>3, <1>6, <2>1, <2>2 DEF AnsweredBy
  <2>3. CASE Same(o) /\ o \in DOMAIN Omitted
    <3>1. o \notin Required[op]
      BY <1>4, <1>6
    <3> QED BY <1>6, <2>1, <2>3, <3>1 DEF Same
  <2>4. CASE o \in {"port", "baudrate", "parity"}
    <3>1. Same(o)
      BY <1>3, <1>6, <2>4, OmittedOptions DEF Same, AnsweredBy
    <3> QED BY <2>3, <2>4, <3>1, OmittedOptions
  <2>5. CASE o = "rtu_over_tcp"
    <3>1. CASE a.kind = "rtu"
      <4>1. n["rtu_over_tcp"] = FALSE
        BY <3>1 DEF AnsweredBy
      <4>2. Omitted["rtu_over_tcp"] = FALSE
        BY OmittedOptions
      <4>3. Same(o)
        BY <2>5, <4>1, <4>2, Zenon DEF Same
      <4> QED BY <2>3, <2>5, <4>3, OmittedOptions
    <3>2. CASE a.kind # "rtu"
      BY <1>3, <1>6, <2>3, <2>5, <3>2, OmittedOptions
    <3> QED BY <3>1, <3>2
  <2>6. CASE o \in {"unit_id", "timeout_s", "retries", "json"}
    BY <1>3, <1>6, <2>3, <2>6, OmittedOptions
  <2>7. CASE o \in OwnOptions[op]
    BY <1>1, <1>3, <1>6, <2>3, <2>7, OmittedOptions DEF Ops, OwnOptions
  <2> QED BY <2>2, <2>4, <2>5, <2>6, <2>7 DEF AnsweredBy, CommonOptions
<1> QED BY <1>4, <1>5, <1>6 DEF W

\* A printed command without shell characters and leading dashes gives the
\* namespace that it was printed for.
LEMMA PrintedCommand ==
  ASSUME NEW a \in Answers, NEW n, n = BuildNamespace(a),
         NEW w, w = EquivalentCommand(a.op, n),
         \A o \in DOMAIN w \cap TextOptions : w[o].shape \notin {"special", "dashed"}
  PROVE  Parses(a.op, Shell(w)) /\ ParseArgs(a.op, Shell(w)) = n
<1>0. a.op \in Ops
  BY AnswerAssumption
<1>1. AnsweredBy(a, n)
  BY AnsweredOptions
<1>2. /\ Required[a.op] \subseteq Printed(a.op, n) /\ Printed(a.op, n) \subseteq DOMAIN n
      /\ \A o \in Printed(a.op, n) \cap TextOptions : n[o] = a[o]
      /\ \A o \in DOMAIN n \ Printed(a.op, n) : n[o] = Parser(a.op)[o]
  BY <1>1, PrintedOptions
<1>3. w = [o \in Printed(a.op, n) |-> n[o]]
  BY DEF EquivalentCommand
<1>4. ASSUME NEW o \in DOMAIN w \cap TextOptions PROVE w[o].shape \in {"plain", "spaced"}
  BY <1>2, <1>3, AnswerAssumption DEF Shapes
<1>5. Shell(w) = w
  BY <1>3, <1>4 DEF Shell, ShellWord, Quoted
<1>6. Parses(a.op, w)
  BY <1>2, <1>3 DEF Parses
<1>7. DOMAIN Parser(a.op) = DOMAIN n
  BY <1>0, <1>1, ParserDefaults DEF AnsweredBy
<1>8. n = [o \in DOMAIN n |-> n[o]]
  <2>1. \E f, g : n = f ++ g
    BY DEF BuildNamespace
  <2> QED BY <2>1 DEF ++
<1>9. w ++ Parser(a.op) = [o \in DOMAIN n |-> n[o]]
  BY <1>2, <1>3, <1>7 DEF ++
<1> QED BY <1>5, <1>6, <1>8, <1>9 DEF ParseArgs

-----------------------------------------------------------------------------
(* What all steps leave alone *)

\* The steps after a namespace is made.
Later(p) == \/ Build(p) \/ ConnectFail(p) \/ ConnectOk(p) \/ Finish(p) \/ Interrupt(p)
            \/ Receive(p) \/ Lose(p)
            \/ \E c \in DOMAIN chunks[p] : Timeout(p, c) \/ Resend(p, c) \/ RedialFail(p, c)
            \/ \E k \in DOMAIN pipe[p] : Serve(p, k) \/ Hangup(p, k)

\* They keep the scenario, every namespace and what is printed.
LEMMA LaterKeeps ==
  ASSUME NEW p \in Procs, Later(p)
  PROVE  /\ UNCHANGED <<job, ns, shown>>
         /\ \/ pc' = pc
            \/ \E s \in {"dialling", "running", "exited"} : pc' = [pc EXCEPT ![p] = s]
<1>1. CASE Build(p)
  BY <1>1 DEF Build, Exit, server
<1>2. CASE ConnectFail(p)
  BY <1>2 DEF ConnectFail, Exit, server
<1>3. CASE ConnectOk(p)
  BY <1>3 DEF ConnectOk, Exit, server
<1>4. CASE Finish(p)
  BY <1>4 DEF Finish, Exit, server
<1>5. CASE Interrupt(p)
  BY <1>5 DEF Interrupt, Exit, server
<1>6. CASE Receive(p)
  BY <1>6 DEF Receive, server
<1>7. CASE Lose(p)
  BY <1>7 DEF Lose, server
<1>8. ASSUME NEW c \in DOMAIN chunks[p], Timeout(p, c) \/ Resend(p, c) \/ RedialFail(p, c)
      PROVE  UNCHANGED <<job, ns, shown, pc>>
  BY <1>8 DEF Timeout, Resend, RedialFail, server
<1>9. ASSUME NEW k \in DOMAIN pipe[p], Serve(p, k) \/ Hangup(p, k)
      PROVE  UNCHANGED <<job, ns, shown, pc>>
  BY <1>9 DEF Serve, Hangup, server
<1> QED BY <1>1, <1>2, <1>3, <1>4, <1>5, <1>6, <1>7, <1>8, <1>9 DEF Later

\* The steps of the system, sorted.
LEMMA Steps ==
  ASSUME [Next]_vars
  PROVE  \/ \E p \in Procs : Parse(p) \/ Guide(p) \/ Later(p)
         \/ StopServe
         \/ UNCHANGED vars
BY DEF Next, Step, Later, Terminated

-----------------------------------------------------------------------------
(* The wizard *)

\* Before a command has started nothing is printed.
GuideInv ==
  /\ pc \in [Procs -> {"start", "parsed", "dialling", "running", "exited"}]
  /\ DOMAIN ns = Procs /\ DOMAIN shown = Procs
  /\ \A p \in Procs : pc[p] = "start" => shown[p] = None

\* What GuideTeachesTheCommand says of one command.
Taught(p) ==
  shown[p] # None =>
    \/ Parses(Op(p), Shell(shown[p])) /\ ParseArgs(Op(p), Shell(shown[p])) = ns[p]
    \/ \E o \in DOMAIN shown[p] \cap TextOptions : shown[p][o].shape \in {"special", "dashed"}

\* GuideInv and the property are kept by every step.
LEMMA GuideStep ==
  ASSUME GuideInv, \A p \in Procs : Taught(p), [Next]_vars
  PROVE  GuideInv' /\ \A p \in Procs : Taught(p)'
<1>1. ASSUME UNCHANGED <<job, ns, shown>> PROVE \A p \in Procs : Taught(p)'
  BY <1>1 DEF Taught, Op
<1>2. CASE UNCHANGED vars
  BY <1>1, <1>2 DEF GuideInv, vars
<1>3. CASE StopServe
  <2>1. UNCHANGED <<job, ns, shown, pc>>
    BY <1>3 DEF StopServe
  <2> QED BY <1>1, <2>1 DEF GuideInv
<1>4. ASSUME NEW p \in Procs, Later(p) PROVE GuideInv' /\ \A q \in Procs : Taught(q)'
  <2>1. /\ UNCHANGED <<job, ns, shown>>
        /\ \/ pc' = pc
           \/ \E s \in {"dialling", "running", "exited"} : pc' = [pc EXCEPT ![p] = s]
    BY <1>4, LaterKeeps
  <2> QED BY <1>1, <2>1 DEF GuideInv
<1>5. ASSUME NEW p \in Procs, Parse(p) PROVE GuideInv' /\ \A q \in Procs : Taught(q)'
  <2>1. /\ UNCHANGED <<job, shown>> /\ shown[p] = None
        /\ DOMAIN ns' = Procs /\ \A q \in Procs : q # p => ns'[q] = ns[q]
        /\ \E s \in {"parsed", "exited"} : pc' = [pc EXCEPT ![p] = s]
    BY <1>5 DEF Parse, Exit, server, GuideInv
  <2>2. ASSUME NEW q \in Procs PROVE Taught(q)'
    <3>1. CASE q = p
      BY <2>1, <3>1 DEF Taught
    <3>2. CASE q # p
      BY <2>1, <3>2 DEF Taught, Op
    <3> QED BY <3>1, <3>2
  <2> QED BY <2>1, <2>2 DEF GuideInv
<1>6. ASSUME NEW p \in Procs, Guide(p) PROVE GuideInv' /\ \A q \in Procs : Taught(q)'
  <2>1. PICK a \in Answers :
          /\ a.op = Op(p)
          /\ ns' = [ns EXCEPT ![p] = BuildNamespace(a)]
          /\ shown' = [shown EXCEPT ![p] = EquivalentCommand(Op(p), BuildNamespace(a))]
    BY <1>6 DEF Guide
  <2>2. UNCHANGED job /\ \E s \in {"parsed", "exited"} : pc' = [pc EXCEPT ![p] = s]
    BY <1>6 DEF Guide, Exit, server
  <2>3. /\ ns'[p] = BuildNamespace(a) /\ shown'[p] = EquivalentCommand(a.op, BuildNamespace(a))
        /\ Op(p)' = a.op
    BY <2>1, <2>2 DEF GuideInv, Op
  <2>4. ASSUME NEW q \in Procs PROVE Taught(q)'
    <3>1. CASE q = p
      <4>1. CASE \A o \in DOMAIN shown'[p] \cap TextOptions :
                   shown'[p][o].shape \notin {"special", "dashed"}
        <5>1. Parses(a.op, Shell(shown'[p])) /\ ParseArgs(a.op, Shell(shown'[p])) = ns'[p]
          BY <2>3, <4>1, PrintedCommand
        <5> QED BY <2>3, <3>1, <5>1 DEF Taught
      <4>2. CASE \E o \in DOMAIN shown'[p] \cap TextOptions :
                   shown'[p][o].shape \in {"special", "dashed"}
        BY <3>1, <4>2 DEF Taught
      <4> QED BY <4>1, <4>2
    <3>2. CASE q # p
      <4>1. ns'[q] = ns[q] /\ shown'[q] = shown[q] /\ Op(q)' = Op(q)
        BY <2>1, <2>2, <3>2 DEF GuideInv, Op
      <4> QED BY <4>1 DEF Taught
    <3> QED BY <3>1, <3>2
  <2> QED BY <2>1, <2>2, <2>4 DEF GuideInv
<1> QED BY <1>2, <1>3, <1>4, <1>5, <1>6, Steps

\* For all answers to the wizard, the command it prints is the command it runs
\* (_guide._equivalent_command against cli._build_parser), but for texts with
\* shell characters or a leading dash.
THEOREM TeachesTheCommand == Spec => []GuideTeachesTheCommand
<1> DEFINE Inv == GuideInv /\ \A p \in Procs : Taught(p)
<1>1. Init => Inv
  BY DEF Init, GuideInv, Taught
<1>2. Inv /\ [Next]_vars => Inv'
  BY GuideStep
<1>3. Inv => GuideTeachesTheCommand
  BY DEF GuideTeachesTheCommand, Taught
<1> QED BY <1>1, <1>2, <1>3, PTL DEF Spec

-----------------------------------------------------------------------------
(* The inductive invariant of the exit codes *)

Stages == {"start", "parsed", "dialling", "running", "exited"}

\* The queues are sequences, the connections are numbered.
TypeInv ==
  /\ pc \in [Procs -> Stages] /\ code \in [Procs -> {None, 0, 1, 2, 130}]
  /\ live \in [Procs -> BOOLEAN] /\ conn \in [Procs -> 0..(MaxLosses + 1)]
  /\ DOMAIN ns = Procs /\ DOMAIN chunks = Procs /\ DOMAIN pipe = Procs /\ DOMAIN back = Procs
  /\ \A p \in Procs : /\ DOMAIN pipe[p] = 1..(MaxLosses + 1) /\ IsSeq(back[p])
                      /\ \A k \in 1..(MaxLosses + 1) : IsSeq(pipe[p][k])
                      /\ \A c \in DOMAIN chunks[p] : /\ DOMAIN chunks[p][c] = {"n", "st", "got"}
                                                     /\ chunks[p][c].n \in Nat
  /\ \A p \in Procs : \A o \in DOMAIN job[p].words : Numbers(o, job[p].words[o])

\* What is known of a command at each stage: before its first connection
\* nothing has left it, and only a scan ends with 2 after that.
StageInv(p) ==
  /\ pc[p] \in {"parsed", "dialling"} => ns[p].start \in Int /\ Count(p) \in Int
  /\ pc[p] \in {"start", "parsed", "dialling"} => conn[p] = 0
  /\ pc[p] = "running" <=> code[p] = None /\ conn[p] # 0
  /\ pc[p] = "running" => DOMAIN chunks[p] # {}
  /\ pc[p] # "exited" => code[p] = None
  /\ live[p] => pc[p] = "running"
  /\ pc[p] = "running" /\ ~live[p] => conn[p] <= MaxLosses
  /\ DOMAIN chunks[p] # {} => DOMAIN chunks[p] = Requests(p) /\ conn[p] # 0
  /\ p \in late => conn[p] > 1
  /\ conn[p] = 0 => \A x \in landed : x[1] # p
  /\ \A k \in 1..(MaxLosses + 1) : k > conn[p] => pipe[p][k] = <<>>
  /\ ~live[p] => back[p] = <<>>
  /\ code[p] = 2 => conn[p] = 0 \/ Op(p) = "scan"
  /\ code[p] = 0 => conn[p] = 0 \/ DOMAIN chunks[p] # {}
  /\ \A x \in landed : x[1] = p => Op(p) = "write"

\* A write that is told to have succeeded has been applied.
WriteInv(p) ==
  Op(p) = "write" =>
    /\ \A i \in Indices(back[p]) : back[p][i].res = "ok" => <<p, back[p][i].c>> \in landed
    /\ \A c \in DOMAIN chunks[p] : chunks[p][c].st = "ok" => <<p, c>> \in landed
    /\ code[p] = 0 => \A c \in DOMAIN chunks[p] : chunks[p][c].st = "ok"

\* On the first connection the attempts of a request are served in order: a
\* response is older than every attempt still on the way, and after the
\* response to the last one none is on the way.
Ahead(p) == pipe[p][1]
FirstInv(p) ==
  conn[p] = 1 /\ DOMAIN chunks[p] # {} =>
    /\ \A i \in Indices(Ahead(p)) : LET e == Ahead(p)[i] IN
         /\ e.c \in DOMAIN chunks[p] /\ e.n \in Nat /\ e.n <= chunks[p][e.c].n
         /\ chunks[p][e.c].st # "ok"
    /\ \A i, j \in Indices(Ahead(p)) : i < j /\ Ahead(p)[i].c = Ahead(p)[j].c =>
         Ahead(p)[i].n < Ahead(p)[j].n
    /\ \A i \in Indices(back[p]) : LET r == back[p][i] IN
         /\ r.c \in DOMAIN chunks[p] /\ r.n \in Nat /\ r.n <= chunks[p][r.c].n
         /\ \A j \in Indices(Ahead(p)) : Ahead(p)[j].c = r.c => r.n < Ahead(p)[j].n

ProcInv(p) == StageInv(p) /\ WriteInv(p) /\ FirstInv(p)
IInv == TypeInv /\ \A p \in Procs : ProcInv(p)

\* All but p's part of the state is kept; what lands is p's.
Only(p) ==
  /\ job' = job /\ landed \subseteq landed' /\ \A x \in landed' : x \in landed \/ x[1] = p
  /\ late' \subseteq late \cup {p}
  /\ \A q \in Procs : q # p =>
       /\ ns'[q] = ns[q] /\ pc'[q] = pc[q] /\ code'[q] = code[q] /\ chunks'[q] = chunks[q]
       /\ conn'[q] = conn[q] /\ live'[q] = live[q] /\ pipe'[q] = pipe[q] /\ back'[q] = back[q]

\* A command's plan depends on its namespace only.
LEMMA PlanKept ==
  ASSUME NEW p \in Procs, job' = job, ns'[p] = ns[p]
  PROVE  Op(p)' = Op(p) /\ Count(p)' = Count(p) /\ Requests(p)' = Requests(p)
<1>1. Op(p)' = Op(p)
  BY DEF Op
<1>2. Area(p)' = Area(p)
  BY <1>1 DEF Area
<1>3. Width(p)' = Width(p)
  BY <1>2 DEF Width
<1>4. Count(p)' = Count(p)
  BY <1>1, <1>3 DEF Count
<1> QED BY <1>1, <1>4 DEF Requests, Limit

\* A command is not disturbed by the steps of another.
LEMMA OthersKept ==
  ASSUME NEW p \in Procs, NEW q \in Procs, q # p, ProcInv(q), Only(p)
  PROVE  ProcInv(q)'
<1>1. /\ job' = job /\ ns'[q] = ns[q] /\ pc'[q] = pc[q] /\ code'[q] = code[q]
      /\ chunks'[q] = chunks[q] /\ conn'[q] = conn[q] /\ live'[q] = live[q]
      /\ pipe'[q] = pipe[q] /\ back'[q] = back[q]
      /\ landed \subseteq landed' /\ (q \in late' => q \in late)
      /\ \A x \in landed' : x[1] = q => x \in landed
  BY DEF Only
<1>2. Op(q)' = Op(q) /\ Count(q)' = Count(q) /\ Requests(q)' = Requests(q)
  BY <1>1, PlanKept
<1>3. StageInv(q)'
  BY <1>1, <1>2 DEF ProcInv, StageInv
<1>4. WriteInv(q)'
  BY <1>1, <1>2 DEF ProcInv, WriteInv
<1>5. FirstInv(q)'
  BY <1>1, <1>2 DEF ProcInv, FirstInv, Ahead
<1> QED BY <1>3, <1>4, <1>5 DEF ProcInv

\* The order on the first connection is not disturbed when attempts end
\* otherwise than with a response, or when a queue is emptied.
LEMMA FirstKept ==
  ASSUME NEW p \in Procs, FirstInv(p), conn'[p] = conn[p],
         DOMAIN chunks'[p] = DOMAIN chunks[p],
         \A c \in DOMAIN chunks[p] :
           /\ chunks[p][c].n \in Nat /\ chunks'[p][c].n \in Nat
           /\ chunks[p][c].n <= chunks'[p][c].n
           /\ chunks'[p][c].st = "ok" => chunks[p][c].st = "ok",
         pipe'[p][1] = pipe[p][1] \/ pipe'[p][1] = <<>>,
         back'[p] = back[p] \/ back'[p] = <<>>
  PROVE  FirstInv(p)'
<1> SUFFICES ASSUME conn[p] = 1, DOMAIN chunks[p] # {} PROVE FirstInv(p)'
  BY DEF FirstInv
<1>1. /\ \A i \in Indices(Ahead(p)') : i \in Indices(Ahead(p)) /\ Ahead(p)'[i] = Ahead(p)[i]
      /\ \A i \in Indices(back'[p]) : i \in Indices(back[p]) /\ back'[p][i] = back[p][i]
  BY EmptyQueue DEF Ahead
<1>2. ASSUME NEW i \in Indices(Ahead(p)')
      PROVE  LET e == Ahead(p)'[i] IN
               /\ e.c \in DOMAIN chunks'[p] /\ e.n \in Nat /\ e.n <= chunks'[p][e.c].n
               /\ chunks'[p][e.c].st # "ok"
  <2> DEFINE e == Ahead(p)'[i]
  <2>1. e.c \in DOMAIN chunks[p] /\ e.n \in Nat /\ e.n <= chunks[p][e.c].n /\ chunks[p][e.c].st # "ok"
    BY <1>1 DEF FirstInv
  <2> QED BY <2>1
<1>3. ASSUME NEW i \in Indices(Ahead(p)'), NEW j \in Indices(Ahead(p)'), i < j,
             Ahead(p)'[i].c = Ahead(p)'[j].c
      PROVE  Ahead(p)'[i].n < Ahead(p)'[j].n
  BY <1>1, <1>3 DEF FirstInv
<1>4. ASSUME NEW i \in Indices(back'[p])
      PROVE  LET r == back'[p][i] IN
               /\ r.c \in DOMAIN chunks'[p] /\ r.n \in Nat /\ r.n <= chunks'[p][r.c].n
               /\ \A j \in Indices(Ahead(p)') : Ahead(p)'[j].c = r.c => r.n < Ahead(p)'[j].n
  <2> DEFINE r == back'[p][i]
  <2>1. /\ r.c \in DOMAIN chunks[p] /\ r.n \in Nat /\ r.n <= chunks[p][r.c].n
        /\ \A j \in Indices(Ahead(p)) : Ahead(p)[j].c = r.c => r.n < Ahead(p)[j].n
    BY <1>1 DEF FirstInv
  <2> QED BY <1>1, <2>1
<1> QED BY <1>2, <1>3, <1>4 DEF FirstInv

-----------------------------------------------------------------------------
(* Up to the first connection *)

\* Nothing has left a command without a connection.
LEMMA BeforeConnection ==
  ASSUME NEW p \in Procs, TypeInv, StageInv(p), conn[p] = 0
  PROVE  /\ DOMAIN chunks[p] = {} /\ ~live[p] /\ back[p] = <<>> /\ p \notin late
         /\ \A k \in 1..(MaxLosses + 1) : pipe[p][k] = <<>>
         /\ \A x \in landed : x[1] # p
BY LimitAssumption DEF TypeInv, StageInv

\* The number of units that a command asks for is a number.
LEMMA Counted ==
  ASSUME NEW p \in Procs, Op(p)' \in Ops, Op(p)' = "read" => ns'[p].count \in Int,
         Op(p)' = "write" => ns'[p].values.n \in Nat
  PROVE  Count(p)' \in Int
<1>1. Width(p)' \in Nat
  BY DEF Width, Rpi
<1>2. CASE Op(p)' = "write"
  <2>1. Count(p)' = ns'[p].values.n * Width(p)'
    BY <1>2 DEF Count
  <2> QED BY <1>1, <1>2, <2>1
<1>3. CASE Op(p)' \in {"read", "scan"}
  BY <1>3 DEF Count
<1> QED BY <1>2, <1>3 DEF Ops

\* A step of a command that has no connection, and gets none.
LEMMA EarlyStep ==
  ASSUME NEW p \in Procs, TypeInv, ProcInv(p), conn[p] = 0,
         UNCHANGED <<job, landed, late, chunks, conn, live, pipe, back>>,
         DOMAIN ns' = Procs, \A q \in Procs : q # p => ns'[q] = ns[q],
         NEW s \in Stages, NEW n \in {None, 0, 1, 2, 130},
         pc' = [pc EXCEPT ![p] = s], code' = [code EXCEPT ![p] = n],
         s # "running", s = "exited" \/ n = None, s = "exited" => n # None,
         s \in {"parsed", "dialling"} => ns'[p].start \in Int /\ Count(p)' \in Int
  PROVE  Only(p) /\ TypeInv' /\ ProcInv(p)'
<1>1. pc'[p] = s /\ code'[p] = n
  BY DEF TypeInv
<1>2. Only(p)
  BY DEF Only, TypeInv
<1>3. TypeInv'
  BY DEF TypeInv
<1>4. /\ DOMAIN chunks[p] = {} /\ ~live[p] /\ back[p] = <<>> /\ p \notin late
      /\ \A k \in 1..(MaxLosses + 1) : pipe[p][k] = <<>>
      /\ \A x \in landed : x[1] # p
  BY BeforeConnection DEF ProcInv
<1>5. StageInv(p)'
  BY <1>1, <1>4 DEF StageInv
<1>6. WriteInv(p)'
  BY <1>4, EmptyQueue DEF WriteInv
<1>7. FirstInv(p)'
  BY <1>4 DEF FirstInv
<1> QED BY <1>2, <1>3, <1>5, <1>6, <1>7 DEF ProcInv

\* argparse accepts the command line, and the process has a namespace, or refuses
\* it and exits with 2.
LEMMA ParseStep ==
  ASSUME NEW p \in Procs, TypeInv, ProcInv(p), Parse(p)
  PROVE  Only(p) /\ TypeInv' /\ ProcInv(p)'
<1>1. /\ pc[p] = "start" /\ conn[p] = 0 /\ code[p] = None
      /\ UNCHANGED <<job, landed, late, chunks, conn, live, pipe, back>>
  BY DEF Parse, server, ProcInv, StageInv
<1>2. CASE Op(p) \in Ops /\ Parses(Op(p), job[p].words)
  <2>1. /\ ns' = [ns EXCEPT ![p] = ParseArgs(Op(p), job[p].words)]
        /\ pc' = [pc EXCEPT ![p] = "parsed"] /\ code' = [code EXCEPT ![p] = None]
    BY <1>1, <1>2 DEF Parse, TypeInv
  <2> DEFINE words == job[p].words
             op == Op(p)
  <2>2. Required[op] \subseteq DOMAIN words /\ \A o \in DOMAIN words : Numbers(o, words[o])
    BY <1>2 DEF Parses, TypeInv
  <2>3. ns'[p] = words ++ Parser(op) /\ op \in Ops /\ Op(p)' = op
    BY <1>1, <1>2, <2>1 DEF TypeInv, ParseArgs, Op
  <2>4. /\ \A o \in DOMAIN words : ns'[p][o] = words[o]
        /\ \A o \in DOMAIN Parser(op) : o \notin DOMAIN words => ns'[p][o] = Parser(op)[o]
    <3> HIDE DEF words, op
    <3> QED BY <2>3 DEF ++
  <2> HIDE DEF words, op
  <2>5. ns'[p].start \in Int
    <3>1. CASE "start" \in DOMAIN words
      BY <2>2, <2>4, <3>1 DEF Numbers
    <3>2. CASE "start" \notin DOMAIN words
      <4>1. op = "scan"
        BY <2>2, <2>3, <3>2, RequiredOptions DEF Ops
      <4>2. "start" \in DOMAIN Parser(op) /\ Parser(op)["start"] = 0
        <5>1. "start" \in DOMAIN Omitted /\ Omitted["start"] = 0 /\ "start" \notin Required[op]
          BY <4>1, OmittedOptions, RequiredOptions
        <5>2. DOMAIN Parser(op) = CommonOptions \cup OwnOptions[op]
          BY <2>3, ParserDefaults
        <5>3. "start" \in DOMAIN Parser(op)
          BY <4>1, <5>2 DEF OwnOptions
        <5>4. Parser(op)["start"] = Omitted["start"]
          BY <2>3, <5>1, <5>3, ParserDefaults
        <5> QED BY <5>1, <5>3, <5>4
      <4> QED BY <2>4, <3>2, <4>2
    <3> QED BY <3>1, <3>2
  <2>6. op = "read" => ns'[p].count \in Int
    BY <2>2, <2>4, RequiredOptions DEF Numbers
  <2>7. op = "write" => ns'[p].values.n \in Nat
    BY <2>2, <2>4, RequiredOptions DEF Numbers
  <2>8. Count(p)' \in Int
    BY <2>3, <2>6, <2>7, Counted
  <2>9. DOMAIN ns' = Procs /\ \A q \in Procs : q # p => ns'[q] = ns[q]
    BY <2>1 DEF TypeInv
  <2> QED BY <1>1, <2>1, <2>5, <2>8, <2>9, EarlyStep DEF Stages
<1>3. CASE ~(Op(p) \in Ops /\ Parses(Op(p), job[p].words))
  <2>1. /\ UNCHANGED ns
        /\ pc' = [pc EXCEPT ![p] = "exited"] /\ code' = [code EXCEPT ![p] = 2]
    BY <1>3 DEF Parse, Exit
  <2>2. DOMAIN ns' = Procs /\ \A q \in Procs : q # p => ns'[q] = ns[q]
    BY <2>1 DEF TypeInv
  <2>3. 2 # None
    BY NoneAssumption
  <2> QED BY <1>1, <2>1, <2>2, <2>3, EarlyStep DEF Stages
<1> QED BY <1>2, <1>3

\* The wizard hands the process a namespace, or its user stops at the printed
\* command.
LEMMA GuideStage ==
  ASSUME NEW p \in Procs, TypeInv, ProcInv(p), Guide(p)
  PROVE  Only(p) /\ TypeInv' /\ ProcInv(p)'
<1>1. /\ pc[p] = "start" /\ conn[p] = 0 /\ code[p] = None
      /\ UNCHANGED <<job, landed, late, chunks, conn, live, pipe, back>>
  BY DEF Guide, server, ProcInv, StageInv
<1>2. PICK a \in Answers : a.op = Op(p) /\ ns' = [ns EXCEPT ![p] = BuildNamespace(a)]
  BY DEF Guide
<1>3. /\ DOMAIN ns' = Procs /\ ns'[p] = BuildNamespace(a) /\ Op(p)' = a.op
      /\ \A q \in Procs : q # p => ns'[q] = ns[q]
  BY <1>1, <1>2 DEF TypeInv, Op
<1>4. AnsweredBy(a, ns'[p])
  BY <1>3, AnsweredOptions
<1>5. /\ a.op \in Ops /\ a["start"] \in Int /\ a["count"] \in Int /\ a["values"].n \in Nat
  BY AnswerAssumption DEF Numbers
<1>6. ns'[p].start \in Int
  BY <1>4, <1>5 DEF AnsweredBy
<1>7. Count(p)' \in Int
  BY <1>3, <1>4, <1>5, Counted DEF AnsweredBy
<1>8. \/ pc' = [pc EXCEPT ![p] = "parsed"] /\ code' = [code EXCEPT ![p] = None]
      \/ pc' = [pc EXCEPT ![p] = "exited"] /\ code' = [code EXCEPT ![p] = 0]
  BY <1>1 DEF Guide, Exit, TypeInv
<1>9. 0 # None
  BY NoneAssumption
<1>10. CASE pc' = [pc EXCEPT ![p] = "parsed"] /\ code' = [code EXCEPT ![p] = None]
  BY <1>1, <1>3, <1>6, <1>7, <1>10, EarlyStep DEF Stages
<1>11. CASE pc' = [pc EXCEPT ![p] = "exited"] /\ code' = [code EXCEPT ![p] = 0]
  BY <1>1, <1>3, <1>9, <1>11, EarlyStep DEF Stages
<1> QED BY <1>8, <1>10, <1>11

\* The value is built or refused, or the dial fails: nothing has been sent.
LEMMA BuildStep ==
  ASSUME NEW p \in Procs, TypeInv, ProcInv(p), Build(p) \/ ConnectFail(p)
  PROVE  Only(p) /\ TypeInv' /\ ProcInv(p)'
<1>1. /\ pc[p] \in {"parsed", "dialling"} /\ conn[p] = 0 /\ code[p] = None
      /\ ns[p].start \in Int /\ Count(p) \in Int
      /\ UNCHANGED <<job, ns, landed, late, chunks, conn, live, pipe, back>>
  BY DEF Build, ConnectFail, server, ProcInv, StageInv
<1>2. Count(p)' = Count(p) /\ DOMAIN ns' = Procs /\ \A q \in Procs : q # p => ns'[q] = ns[q]
  BY <1>1, PlanKept DEF TypeInv
<1>3. \/ pc' = [pc EXCEPT ![p] = "dialling"] /\ code' = [code EXCEPT ![p] = None]
      \/ \E n \in {1, 2} : pc' = [pc EXCEPT ![p] = "exited"] /\ code' = [code EXCEPT ![p] = n]
  BY <1>1 DEF Build, ConnectFail, Exit, TypeInv
<1>4. 1 # None /\ 2 # None
  BY NoneAssumption
<1>5. CASE pc' = [pc EXCEPT ![p] = "dialling"] /\ code' = [code EXCEPT ![p] = None]
  BY <1>1, <1>2, <1>5, EarlyStep DEF Stages
<1>6. ASSUME NEW n \in {1, 2},
             pc' = [pc EXCEPT ![p] = "exited"] /\ code' = [code EXCEPT ![p] = n]
      PROVE  Only(p) /\ TypeInv' /\ ProcInv(p)'
  BY <1>1, <1>2, <1>4, <1>6, EarlyStep DEF Stages
<1> QED BY <1>3, <1>5, <1>6

-----------------------------------------------------------------------------
(* Ends of attempts and of commands *)

\* A step of command p that sends nothing, to stage s with exit code n, the
\* transport's state l, the responses b and the requests h.
Silent(p, s, n, l, b, h) ==
  /\ UNCHANGED <<job, ns, landed, late, conn, pipe>>
  /\ s \in Stages /\ n \in {None, 0, 1, 2, 130} /\ l \in BOOLEAN
  /\ pc' = [pc EXCEPT ![p] = s] /\ code' = [code EXCEPT ![p] = n]
  /\ live' = [live EXCEPT ![p] = l]
  /\ DOMAIN back' = Procs /\ \A q \in Procs : back'[q] = IF q = p THEN b ELSE back[q]
  /\ DOMAIN chunks' = Procs /\ \A q \in Procs : chunks'[q] = IF q = p THEN h ELSE chunks[q]
  /\ IsSeq(b) /\ DOMAIN h = DOMAIN chunks[p]
  /\ \A c \in DOMAIN h : DOMAIN h[c] = {"n", "st", "got"} /\ h[c].n \in Nat
  /\ (s = pc[p] /\ n = code[p]) \/ (s = "exited" /\ n # None)
  /\ l => live[p] /\ s = "running"
  /\ ~l => b = <<>>
  /\ s = "running" /\ ~l => conn[p] <= MaxLosses
  /\ n = 2 => conn[p] = 0 \/ Op(p) = "scan"
  /\ n = 0 => conn[p] = 0 \/ DOMAIN chunks[p] # {}

\* It keeps the types and what is known of each stage.
LEMMA SilentStep ==
  ASSUME NEW p \in Procs, TypeInv, ProcInv(p), NEW s, NEW n, NEW l, NEW b, NEW h,
         Silent(p, s, n, l, b, h)
  PROVE  /\ Only(p) /\ TypeInv' /\ StageInv(p)' /\ Op(p)' = Op(p)
         /\ chunks'[p] = h /\ back'[p] = b /\ code'[p] = n /\ pipe'[p] = pipe[p]
         /\ conn'[p] = conn[p] /\ landed' = landed
<1> USE DEF Silent
<1>1. /\ pc'[p] = s /\ code'[p] = n /\ live'[p] = l /\ back'[p] = b /\ chunks'[p] = h
      /\ pipe'[p] = pipe[p] /\ conn'[p] = conn[p] /\ landed' = landed /\ late' = late
  BY DEF TypeInv
<1>2. Only(p)
  BY DEF Only, TypeInv
<1>3. TypeInv'
  <2>1. \A q \in Procs : q # p => back'[q] = back[q] /\ chunks'[q] = chunks[q]
    BY <1>2 DEF Only
  <2>2. \A q \in Procs :
          /\ DOMAIN pipe'[q] = 1..(MaxLosses + 1) /\ IsSeq(back'[q])
          /\ \A k \in 1..(MaxLosses + 1) : IsSeq(pipe'[q][k])
          /\ \A c \in DOMAIN chunks'[q] : /\ DOMAIN chunks'[q][c] = {"n", "st", "got"}
                                          /\ chunks'[q][c].n \in Nat
    <3>1. pipe' = pipe /\ \A q \in Procs : back'[q] = IF q = p THEN b ELSE back[q]
      OBVIOUS
    <3>2. \A q \in Procs : chunks'[q] = IF q = p THEN h ELSE chunks[q]
      OBVIOUS
    <3>3. IsSeq(b) /\ \A c \in DOMAIN h : DOMAIN h[c] = {"n", "st", "got"} /\ h[c].n \in Nat
      OBVIOUS
    <3> HIDE DEF Silent
    <3> QED BY <3>1, <3>2, <3>3 DEF TypeInv
  <2>3. /\ pc' \in [Procs -> Stages] /\ code' \in [Procs -> {None, 0, 1, 2, 130}]
        /\ live' \in [Procs -> BOOLEAN] /\ conn' \in [Procs -> 0..(MaxLosses + 1)]
        /\ DOMAIN ns' = Procs /\ DOMAIN chunks' = Procs
        /\ DOMAIN pipe' = Procs /\ DOMAIN back' = Procs
    BY DEF TypeInv
  <2>4. \A q \in Procs : \A o \in DOMAIN job'[q].words : Numbers(o, job'[q].words[o])
    BY DEF TypeInv
  <2> QED BY <2>2, <2>3, <2>4 DEF TypeInv
<1>4. ns'[p] = ns[p] /\ Op(p)' = Op(p) /\ Count(p)' = Count(p) /\ Requests(p)' = Requests(p)
  BY PlanKept
<1>5. StageInv(p)'
  BY <1>1, <1>4 DEF ProcInv, StageInv
<1> QED BY <1>1, <1>2, <1>3, <1>4, <1>5

\* All results are in, or Ctrl-C.
LEMMA ExitStep ==
  ASSUME NEW p \in Procs, TypeInv, ProcInv(p), Finish(p) \/ Interrupt(p)
  PROVE  Only(p) /\ TypeInv' /\ ProcInv(p)'
<1> DEFINE n == IF Finish(p) THEN ExitCode(p) ELSE 130
<1>1. /\ pc' = [pc EXCEPT ![p] = "exited"] /\ live' = [live EXCEPT ![p] = FALSE]
      /\ DOMAIN back' = Procs /\ \A q \in Procs : back'[q] = IF q = p THEN <<>> ELSE back[q]
      /\ DOMAIN chunks' = Procs /\ \A q \in Procs : chunks'[q] = IF q = p THEN chunks[p] ELSE chunks[q]
      /\ UNCHANGED <<job, ns, landed, late, conn, pipe>>
  BY DEF Finish, Interrupt, Exit, server, TypeInv
<1>2. code' = [code EXCEPT ![p] = n]
  BY DEF Finish, Interrupt, Exit
<1>3. /\ ExitCode(p) \in {0, 1, 2}
      /\ ExitCode(p) = 2 => Op(p) = "scan"
      /\ ExitCode(p) = 0 /\ Op(p) = "write" => \A c \in DOMAIN chunks[p] : chunks[p][c].st = "ok"
  <2> DEFINE ends == {chunks[p][c].st : c \in DOMAIN chunks[p]}
  <2>1. ExitCode(p) = 0 /\ Op(p) = "write" => ends = {"ok"}
    <3> HIDE DEF ends
    <3> QED BY DEF ExitCode, ends
  <2>2. ASSUME ends = {"ok"}, NEW c \in DOMAIN chunks[p] PROVE chunks[p][c].st = "ok"
    BY <2>2
  <2>3. ExitCode(p) \in {0, 1, 2} /\ (ExitCode(p) = 2 => Op(p) = "scan")
    BY DEF ExitCode
  <2> HIDE DEF ends
  <2> QED BY <2>1, <2>2, <2>3
<1>4. Finish(p) => DOMAIN chunks[p] # {}
  BY DEF Finish, ProcInv, StageInv
<1>5. n \in {None, 0, 1, 2, 130} /\ n # None
  BY <1>3, NoneAssumption
<1>6. /\ n = 2 => conn[p] = 0 \/ Op(p) = "scan"
      /\ n = 0 => conn[p] = 0 \/ DOMAIN chunks[p] # {}
      /\ n = 0 /\ Op(p) = "write" => \A c \in DOMAIN chunks[p] : chunks[p][c].st = "ok"
  BY <1>3, <1>4
<1> HIDE DEF n
<1>7. /\ IsSeq(<<>>)
      /\ \A c \in DOMAIN chunks[p] : DOMAIN chunks[p][c] = {"n", "st", "got"} /\ chunks[p][c].n \in Nat
  BY EmptyQueue DEF TypeInv
<1>8. /\ Only(p) /\ TypeInv' /\ StageInv(p)' /\ Op(p)' = Op(p)
      /\ chunks'[p] = chunks[p] /\ back'[p] = <<>> /\ code'[p] = n /\ pipe'[p] = pipe[p]
      /\ conn'[p] = conn[p] /\ landed' = landed
  <2>1. Silent(p, "exited", n, FALSE, <<>>, chunks[p])
    BY <1>1, <1>2, <1>5, <1>6, <1>7 DEF Stages, Silent
  <2> QED BY <2>1, SilentStep
<1>9. WriteInv(p)'
  BY <1>6, <1>8, EmptyQueue DEF ProcInv, WriteInv
<1>10. FirstInv(p)'
  <2>1. \A c \in DOMAIN chunks[p] : chunks[p][c].n <= chunks[p][c].n
    BY <1>7
  <2> QED BY <1>7, <1>8, <2>1, FirstKept DEF ProcInv
<1> QED BY <1>8, <1>9, <1>10 DEF ProcInv

\* An attempt ends with a timeout, with its connection, or fails to connect.
LEMMA FailStep ==
  ASSUME NEW p \in Procs, TypeInv, ProcInv(p),
         Lose(p) \/ \E c \in DOMAIN chunks[p] : Timeout(p, c) \/ RedialFail(p, c)
  PROVE  Only(p) /\ TypeInv' /\ ProcInv(p)'
<1>0. \A c \in DOMAIN chunks[p] : DOMAIN chunks[p][c] = {"n", "st", "got"} /\ chunks[p][c].n \in Nat
  BY DEF TypeInv
<1>1. pc[p] = "running" /\ UNCHANGED <<job, ns, landed, late, conn, pipe, pc, code>>
  BY DEF Lose, Timeout, RedialFail, server
<1>2. pc' = [pc EXCEPT ![p] = pc[p]] /\ code' = [code EXCEPT ![p] = code[p]]
  BY <1>1 DEF TypeInv
<1>3. PICK h : /\ DOMAIN chunks' = Procs /\ DOMAIN h = DOMAIN chunks[p]
               /\ \A q \in Procs : chunks'[q] = IF q = p THEN h ELSE chunks[q]
               /\ \A c \in DOMAIN h : /\ DOMAIN h[c] = {"n", "st", "got"} /\ h[c].n \in Nat
                                      /\ chunks[p][c].n <= h[c].n
                                      /\ h[c].st = "ok" => chunks[p][c].st = "ok"
  <2>1. CASE Lose(p)
    <3> DEFINE h == [c \in DOMAIN chunks[p] |->
                       IF c \in Waiting(p) THEN Ended(p, chunks[p][c], "connError", <<>>)
                       ELSE chunks[p][c]]
    <3>1. DOMAIN chunks' = Procs /\ \A q \in Procs : chunks'[q] = IF q = p THEN h ELSE chunks[q]
      BY <2>1 DEF Lose, TypeInv
    <3>2. ASSUME NEW c \in DOMAIN chunks[p]
          PROVE /\ DOMAIN h[c] = {"n", "st", "got"} /\ h[c].n \in Nat
                /\ chunks[p][c].n <= h[c].n
                /\ h[c].st = "ok" => chunks[p][c].st = "ok"
      <4>1. CASE c \in Waiting(p)
        <5>1. h[c] = Ended(p, chunks[p][c], "connError", <<>>)
          BY <4>1
        <5> HIDE DEF h
        <5>2. h[c].n = chunks[p][c].n /\ h[c].st # "ok" /\ DOMAIN h[c] = {"n", "st", "got"}
          BY <1>0, <5>1 DEF Ended
        <5> QED BY <1>0, <5>2
      <4>2. CASE c \notin Waiting(p)
        BY <1>0, <4>2
      <4> QED BY <4>1, <4>2
    <3>3. DOMAIN h = DOMAIN chunks[p]
      OBVIOUS
    <3> HIDE DEF h
    <3> QED BY <3>1, <3>2, <3>3
  <2>2. ASSUME NEW c \in DOMAIN chunks[p], Timeout(p, c)
        PROVE  \E h : /\ DOMAIN chunks' = Procs /\ DOMAIN h = DOMAIN chunks[p]
                      /\ \A q \in Procs : chunks'[q] = IF q = p THEN h ELSE chunks[q]
                      /\ \A d \in DOMAIN h : /\ DOMAIN h[d] = {"n", "st", "got"} /\ h[d].n \in Nat
                                             /\ chunks[p][d].n <= h[d].n
                                             /\ h[d].st = "ok" => chunks[p][d].st = "ok"
    <3> DEFINE e == Ended(p, chunks[p][c], "timeout", <<>>)
               h == [chunks[p] EXCEPT ![c] = e]
    <3>1. DOMAIN chunks' = Procs /\ \A q \in Procs : chunks'[q] = IF q = p THEN h ELSE chunks[q]
      BY <2>2 DEF Timeout, TypeInv
    <3>2. DOMAIN e = {"n", "st", "got"} /\ e.n = chunks[p][c].n /\ e.st # "ok"
      <4> HIDE DEF h
      <4> QED BY <1>0 DEF Ended
    <3> HIDE DEF e
    <3>3. DOMAIN h = DOMAIN chunks[p] /\ \A d \in DOMAIN h : h[d] = IF d = c THEN e ELSE chunks[p][d]
      OBVIOUS
    <3> HIDE DEF h
    <3>4. \A d \in DOMAIN h : /\ DOMAIN h[d] = {"n", "st", "got"} /\ h[d].n \in Nat
                              /\ chunks[p][d].n <= h[d].n
                              /\ h[d].st = "ok" => chunks[p][d].st = "ok"
      BY <1>0, <3>2, <3>3
    <3> QED BY <3>1, <3>3, <3>4
  <2>3. ASSUME NEW c \in DOMAIN chunks[p], RedialFail(p, c)
        PROVE  \E h : /\ DOMAIN chunks' = Procs /\ DOMAIN h = DOMAIN chunks[p]
                      /\ \A q \in Procs : chunks'[q] = IF q = p THEN h ELSE chunks[q]
                      /\ \A d \in DOMAIN h : /\ DOMAIN h[d] = {"n", "st", "got"} /\ h[d].n \in Nat
                                             /\ chunks[p][d].n <= h[d].n
                                             /\ h[d].st = "ok" => chunks[p][d].st = "ok"
    <3> DEFINE g == [chunks[p][c] EXCEPT !.n = chunks[p][c].n + 1]
               e == Ended(p, g, "connError", <<>>)
               h == [chunks[p] EXCEPT ![c] = e]
    <3>1. DOMAIN chunks' = Procs /\ \A q \in Procs : chunks'[q] = IF q = p THEN h ELSE chunks[q]
      <4>1. chunks' = [chunks EXCEPT ![p][c] = Ended(p, g, "connError", <<>>)]
        BY <2>3 DEF RedialFail
      <4> HIDE DEF g
      <4> QED BY <4>1 DEF TypeInv
    <3>2. DOMAIN g = {"n", "st", "got"} /\ g.n = chunks[p][c].n + 1
      BY <1>0
    <3> HIDE DEF g
    <3>3. DOMAIN e = {"n", "st", "got"} /\ e.n = chunks[p][c].n + 1 /\ e.st # "ok"
      <4> HIDE DEF h
      <4> QED BY <3>2 DEF Ended
    <3> HIDE DEF e
    <3>4. DOMAIN h = DOMAIN chunks[p] /\ \A d \in DOMAIN h : h[d] = IF d = c THEN e ELSE chunks[p][d]
      OBVIOUS
    <3> HIDE DEF h
    <3>5. chunks[p][c].n \in Nat /\ chunks[p][c].n + 1 \in Nat /\ chunks[p][c].n <= chunks[p][c].n + 1
      BY <1>0
    <3>6. \A d \in DOMAIN h : /\ DOMAIN h[d] = {"n", "st", "got"} /\ h[d].n \in Nat
                              /\ chunks[p][d].n <= h[d].n
                              /\ h[d].st = "ok" => chunks[p][d].st = "ok"
      BY <1>0, <3>3, <3>4, <3>5
    <3> QED BY <3>1, <3>4, <3>6
  <2> QED BY <2>1, <2>2, <2>3
<1>4. PICK l, b :
        /\ l \in BOOLEAN /\ live' = [live EXCEPT ![p] = l]
        /\ DOMAIN back' = Procs /\ \A q \in Procs : back'[q] = IF q = p THEN b ELSE back[q]
        /\ l => live[p]
        /\ ~l => b = <<>> /\ conn[p] <= MaxLosses
        /\ b = back[p] \/ b = <<>>
  <2>1. CASE Lose(p)
    BY <2>1 DEF Lose, TypeInv
  <2>2. CASE UNCHANGED <<live, back>>
    <3>1. /\ live' = [live EXCEPT ![p] = live[p]] /\ DOMAIN back' = Procs
          /\ \A q \in Procs : back'[q] = IF q = p THEN back[p] ELSE back[q]
      BY <2>2 DEF TypeInv
    <3>2. live[p] \in BOOLEAN /\ (~live[p] => back[p] = <<>> /\ conn[p] <= MaxLosses)
      BY <1>1 DEF TypeInv, ProcInv, StageInv
    <3> QED BY <3>1, <3>2
  <2> QED BY <2>1, <2>2 DEF Timeout, RedialFail
<1>5. IsSeq(b)
  BY <1>4, EmptyQueue DEF TypeInv
<1>6. /\ pc[p] \in Stages /\ code[p] \in {None, 0, 1, 2, 130}
      /\ code[p] = 2 => conn[p] = 0 \/ Op(p) = "scan"
      /\ code[p] = 0 => conn[p] = 0 \/ DOMAIN chunks[p] # {}
  BY DEF TypeInv, ProcInv, StageInv
<1>7. /\ Only(p) /\ TypeInv' /\ StageInv(p)' /\ Op(p)' = Op(p)
      /\ chunks'[p] = h /\ back'[p] = b /\ code'[p] = code[p] /\ pipe'[p] = pipe[p]
      /\ conn'[p] = conn[p] /\ landed' = landed
  <2>1. Silent(p, pc[p], code[p], l, b, h)
    BY <1>1, <1>2, <1>3, <1>4, <1>5, <1>6 DEF Silent
  <2> QED BY <2>1, SilentStep
<1>8. WriteInv(p)'
  <2>1. code[p] # 0
    BY <1>1, NoneAssumption DEF ProcInv, StageInv
  <2> QED BY <1>3, <1>4, <1>7, <2>1, EmptyQueue DEF ProcInv, WriteInv
<1>9. FirstInv(p)'
  BY <1>0, <1>3, <1>4, <1>7, FirstKept DEF ProcInv
<1> QED BY <1>7, <1>8, <1>9 DEF ProcInv

\* A response is received: it ends the attempt it answers, or is dropped.
LEMMA ReceiveStep ==
  ASSUME NEW p \in Procs, TypeInv, ProcInv(p), Receive(p)
  PROVE  Only(p) /\ TypeInv' /\ ProcInv(p)'
<1> DEFINE r == Head(back[p])
           b == Tail(back[p])
           R(g) == IF Resolves(r, g) THEN Ended(p, g, r.res, r.got) ELSE g
           h == [chunks[p] EXCEPT ![r.c] = R(chunks[p][r.c])]
<1>0. \A c \in DOMAIN chunks[p] : DOMAIN chunks[p][c] = {"n", "st", "got"} /\ chunks[p][c].n \in Nat
  BY DEF TypeInv
<1>1. /\ pc[p] = "running" /\ live[p] /\ live[p] \in BOOLEAN /\ code[p] = None
      /\ back[p] # <<>> /\ IsSeq(back[p])
  BY DEF Receive, TypeInv, ProcInv, StageInv
<1>2. /\ UNCHANGED <<job, ns, landed, late, conn, pipe>>
      /\ pc' = [pc EXCEPT ![p] = pc[p]] /\ code' = [code EXCEPT ![p] = code[p]]
      /\ live' = [live EXCEPT ![p] = live[p]]
  BY DEF Receive, server, TypeInv
<1>3. DOMAIN back' = Procs /\ \A q \in Procs : back'[q] = IF q = p THEN b ELSE back[q]
  BY DEF Receive, TypeInv
<1>4. DOMAIN chunks' = Procs /\ \A q \in Procs : chunks'[q] = IF q = p THEN h ELSE chunks[q]
  <2>1. chunks' = [chunks EXCEPT ![p][r.c] = R(chunks[p][r.c])]
    BY DEF Receive
  <2> HIDE DEF r, R
  <2> QED BY <2>1 DEF TypeInv
<1>5. /\ IsSeq(b) /\ 1 \in Indices(back[p]) /\ r = back[p][1]
      /\ \A i \in Indices(b) : i + 1 \in Indices(back[p]) /\ b[i] = back[p][i + 1]
  BY <1>1, TakeHead
<1>6. /\ DOMAIN h = DOMAIN chunks[p]
      /\ \A c \in DOMAIN h : h[c] = IF c = r.c THEN R(chunks[p][c]) ELSE chunks[p][c]
  <2> HIDE DEF r, R
  <2> QED OBVIOUS
<1> HIDE DEF r, b, h
<1>7. ASSUME NEW c \in DOMAIN h
      PROVE  /\ DOMAIN h[c] = {"n", "st", "got"} /\ h[c].n = chunks[p][c].n
             /\ h[c].st = "ok" => \/ chunks[p][c].st = "ok"
                                  \/ c = r.c /\ r.res = "ok" /\ r.n = chunks[p][c].n
  <2>1. CASE c = r.c /\ Resolves(r, chunks[p][c])
    <3>1. h[c] = Ended(p, chunks[p][c], r.res, r.got) /\ r.n = chunks[p][c].n
      BY <1>6, <2>1 DEF Resolves
    <3>2. DOMAIN chunks[p][c] = {"n", "st", "got"}
      BY <1>0, <1>6
    <3>3. /\ DOMAIN h[c] = {"n", "st", "got"} /\ h[c].n = chunks[p][c].n
          /\ h[c].st = "ok" => r.res = "ok"
      BY <3>1, <3>2 DEF Ended
    <3> QED BY <2>1, <3>1, <3>3
  <2>2. CASE ~(c = r.c /\ Resolves(r, chunks[p][c]))
    <3>1. h[c] = chunks[p][c]
      BY <1>6, <2>2
    <3> QED BY <1>0, <1>6, <3>1
  <2> QED BY <2>1, <2>2
<1> HIDE DEF R
<1>8. /\ Only(p) /\ TypeInv' /\ StageInv(p)' /\ Op(p)' = Op(p)
      /\ chunks'[p] = h /\ back'[p] = b /\ code'[p] = code[p] /\ pipe'[p] = pipe[p]
      /\ conn'[p] = conn[p] /\ landed' = landed
  <2>1. /\ pc[p] \in Stages /\ code[p] \in {None, 0, 1, 2, 130}
        /\ code[p] = 2 => conn[p] = 0 \/ Op(p) = "scan"
        /\ code[p] = 0 => conn[p] = 0 \/ DOMAIN chunks[p] # {}
    BY DEF TypeInv, ProcInv, StageInv
  <2>2. \A c \in DOMAIN h : DOMAIN h[c] = {"n", "st", "got"} /\ h[c].n \in Nat
    BY <1>0, <1>6, <1>7
  <2>3. Silent(p, pc[p], code[p], live[p], b, h)
    BY <1>1, <1>2, <1>3, <1>4, <1>5, <1>6, <2>1, <2>2 DEF Silent
  <2> QED BY <2>3, SilentStep
<1>9. WriteInv(p)'
  <2> SUFFICES ASSUME Op(p) = "write" PROVE WriteInv(p)'
    BY <1>8 DEF WriteInv
  <2>1. ASSUME NEW i \in Indices(b), b[i].res = "ok" PROVE <<p, b[i].c>> \in landed
    BY <1>5, <2>1 DEF ProcInv, WriteInv
  <2>2. ASSUME NEW c \in DOMAIN h, h[c].st = "ok" PROVE <<p, c>> \in landed
    BY <1>5, <1>6, <1>7, <2>2 DEF ProcInv, WriteInv
  <2>3. code[p] # 0
    BY <1>1, NoneAssumption
  <2> QED BY <1>8, <2>1, <2>2, <2>3 DEF WriteInv
<1>10. FirstInv(p)'
  <2> SUFFICES ASSUME conn[p] = 1, DOMAIN chunks[p] # {} PROVE FirstInv(p)'
    BY <1>6, <1>8 DEF FirstInv
  <2>1. Ahead(p)' = Ahead(p)
    BY <1>8 DEF Ahead
  <2>2. ASSUME NEW i \in Indices(Ahead(p))
        PROVE  LET e == Ahead(p)[i] IN
                 /\ e.c \in DOMAIN h /\ e.n \in Nat /\ e.n <= h[e.c].n /\ h[e.c].st # "ok"
    <3> DEFINE e == Ahead(p)[i]
    <3>1. /\ e.c \in DOMAIN chunks[p] /\ e.n \in Nat /\ e.n <= chunks[p][e.c].n
          /\ chunks[p][e.c].st # "ok"
      BY DEF ProcInv, FirstInv
    <3>2. r.n \in Nat /\ (e.c = r.c => r.n < e.n)
      BY <1>5 DEF ProcInv, FirstInv
    <3>3. chunks[p][e.c].n \in Nat
      BY <1>0, <3>1
    <3>4. e.c \in DOMAIN h /\ h[e.c].n = chunks[p][e.c].n
      BY <1>6, <1>7, <3>1
    <3> HIDE DEF e
    <3>5. ~(e.c = r.c /\ r.n = chunks[p][e.c].n)
      BY <3>1, <3>2, <3>3
    <3>6. h[e.c].st # "ok"
      BY <1>7, <3>1, <3>4, <3>5
    <3> QED BY <3>1, <3>4, <3>6 DEF e
  <2>3. ASSUME NEW i \in Indices(b)
        PROVE  /\ b[i].c \in DOMAIN h /\ b[i].n \in Nat /\ b[i].n <= h[b[i].c].n
               /\ \A j \in Indices(Ahead(p)) : Ahead(p)[j].c = b[i].c => b[i].n < Ahead(p)[j].n
    <3>1. /\ b[i].c \in DOMAIN chunks[p] /\ b[i].n \in Nat /\ b[i].n <= chunks[p][b[i].c].n
          /\ \A j \in Indices(Ahead(p)) : Ahead(p)[j].c = b[i].c => b[i].n < Ahead(p)[j].n
      BY <1>5 DEF ProcInv, FirstInv
    <3> QED BY <1>6, <1>7, <3>1
  <2>4. \A i, j \in Indices(Ahead(p)) : i < j /\ Ahead(p)[i].c = Ahead(p)[j].c =>
          Ahead(p)[i].n < Ahead(p)[j].n
    BY DEF ProcInv, FirstInv
  <2> QED BY <1>8, <2>1, <2>2, <2>3, <2>4 DEF FirstInv
<1> QED BY <1>8, <1>9, <1>10 DEF ProcInv

-----------------------------------------------------------------------------
(* Requests on their way *)

\* The next attempt of a request is sent.
LEMMA ResendStep ==
  ASSUME NEW p \in Procs, TypeInv, ProcInv(p), NEW c \in DOMAIN chunks[p], Resend(p, c)
  PROVE  Only(p) /\ TypeInv' /\ ProcInv(p)'
<1> DEFINE n == chunks[p][c].n + 1
           k == IF live[p] THEN conn[p] ELSE conn[p] + 1
           g == [chunks[p][c] EXCEPT !.st = "waiting", !.n = n]
           e == [c |-> c, n |-> n]
           h == [chunks[p] EXCEPT ![c] = g]
<1>0. \A d \in DOMAIN chunks[p] : DOMAIN chunks[p][d] = {"n", "st", "got"} /\ chunks[p][d].n \in Nat
  BY DEF TypeInv
<1>1. /\ pc[p] = "running" /\ code[p] = None /\ conn[p] # 0
      /\ UNCHANGED <<job, ns, landed, late, pc, code, back>>
  BY DEF Resend, server, TypeInv, ProcInv, StageInv
<1>2. /\ chunks' = [chunks EXCEPT ![p][c] = g] /\ conn' = [conn EXCEPT ![p] = k]
      /\ pipe' = [pipe EXCEPT ![p][k] = Append(pipe[p][k], e)]
      /\ live' = [live EXCEPT ![p] = TRUE]
  BY DEF Resend
<1>3. k \in 1..(MaxLosses + 1) /\ conn[p] \in 1..(MaxLosses + 1) /\ conn[p] <= k
      /\ (k = 1 => live[p] /\ conn[p] = 1)
  BY <1>1, LimitAssumption DEF TypeInv, ProcInv, StageInv
<1>4. /\ n \in Nat /\ DOMAIN g = {"n", "st", "got"} /\ g.n = n /\ g.st = "waiting"
      /\ e.c = c /\ e.n = n /\ chunks[p][c].n < n
  BY <1>0
<1> HIDE DEF n, k, g, e
<1>5. /\ DOMAIN chunks' = Procs /\ \A q \in Procs : chunks'[q] = IF q = p THEN h ELSE chunks[q]
      /\ DOMAIN h = DOMAIN chunks[p]
      /\ \A d \in DOMAIN h : h[d] = IF d = c THEN g ELSE chunks[p][d]
  BY <1>2 DEF TypeInv
<1>6. /\ DOMAIN pipe' = Procs /\ \A q \in Procs : q # p => pipe'[q] = pipe[q]
      /\ DOMAIN pipe'[p] = 1..(MaxLosses + 1)
      /\ \A m \in 1..(MaxLosses + 1) :
           pipe'[p][m] = IF m = k THEN Append(pipe[p][k], e) ELSE pipe[p][m]
  BY <1>2, <1>3 DEF TypeInv
<1>7. conn'[p] = k /\ live'[p] = TRUE /\ \A q \in Procs : q # p => conn'[q] = conn[q] /\ live'[q] = live[q]
  BY <1>2 DEF TypeInv
<1> DEFINE a == Append(pipe[p][k], e)
           len == Len(pipe[p][k])
<1>8. /\ IsSeq(a) /\ len \in Nat /\ Len(a) = len + 1 /\ a[len + 1] = e
      /\ \A i \in Indices(pipe[p][k]) : a[i] = pipe[p][k][i]
      /\ \A i \in Indices(a) : i \in Indices(pipe[p][k]) \/ i = len + 1
  BY <1>3, PutLast DEF TypeInv
<1> HIDE DEF h, a, len
<1>9. Only(p)
  BY <1>1, <1>5, <1>6, <1>7 DEF Only
<1>10. TypeInv'
  <2>1. ASSUME NEW q \in Procs
        PROVE  /\ DOMAIN pipe'[q] = 1..(MaxLosses + 1) /\ IsSeq(back'[q])
               /\ \A m \in 1..(MaxLosses + 1) : IsSeq(pipe'[q][m])
               /\ \A d \in DOMAIN chunks'[q] : /\ DOMAIN chunks'[q][d] = {"n", "st", "got"}
                                               /\ chunks'[q][d].n \in Nat
    <3>1. CASE q = p
      <4>1. \A m \in 1..(MaxLosses + 1) : IsSeq(pipe'[p][m])
        BY <1>6, <1>8 DEF TypeInv, a
      <4>2. \A d \in DOMAIN h : DOMAIN h[d] = {"n", "st", "got"} /\ h[d].n \in Nat
        BY <1>0, <1>4, <1>5
      <4>3. IsSeq(back'[p])
        BY <1>1 DEF TypeInv
      <4> QED BY <1>5, <1>6, <3>1, <4>1, <4>2, <4>3
    <3>2. CASE q # p
      BY <1>1, <1>5, <1>6, <3>2 DEF TypeInv
    <3> QED BY <3>1, <3>2
  <2>2. /\ pc' \in [Procs -> Stages] /\ code' \in [Procs -> {None, 0, 1, 2, 130}]
        /\ live' \in [Procs -> BOOLEAN] /\ conn' \in [Procs -> 0..(MaxLosses + 1)]
        /\ DOMAIN ns' = Procs /\ DOMAIN back' = Procs
    BY <1>1, <1>2, <1>3, LimitAssumption DEF TypeInv
  <2>3. \A q \in Procs : \A o \in DOMAIN job'[q].words : Numbers(o, job'[q].words[o])
    BY <1>1 DEF TypeInv
  <2> QED BY <1>5, <1>6, <2>1, <2>2, <2>3 DEF TypeInv
<1>11. chunks'[p] = h /\ back'[p] = back[p] /\ ns'[p] = ns[p]
  BY <1>1, <1>5
<1>12. Op(p)' = Op(p) /\ Count(p)' = Count(p) /\ Requests(p)' = Requests(p)
  BY <1>1, <1>11, PlanKept
<1>13. StageInv(p)'
  <2>1. \A m \in 1..(MaxLosses + 1) : m > k => pipe'[p][m] = <<>>
    BY <1>3, <1>6, LimitAssumption DEF ProcInv, StageInv
  <2>2. k # 0 /\ (p \in late => k > 1)
    BY <1>3, LimitAssumption DEF ProcInv, StageInv
  <2>3. None # 0 /\ None # 2
    BY NoneAssumption
  <2> QED BY <1>1, <1>5, <1>7, <1>11, <1>12, <2>1, <2>2, <2>3 DEF ProcInv, StageInv
<1>14. WriteInv(p)'
  BY <1>1, <1>4, <1>5, <1>11, <1>12, NoneAssumption DEF ProcInv, WriteInv
<1>15. FirstInv(p)'
  <2> SUFFICES ASSUME k = 1 PROVE FirstInv(p)'
    BY <1>7 DEF FirstInv
  <2>1. conn[p] = 1 /\ DOMAIN chunks[p] # {} /\ Ahead(p)' = a /\ pipe[p][k] = Ahead(p)
    BY <1>3, <1>6 DEF Ahead, a
  <2>2. \A d \in DOMAIN h : chunks[p][d].n <= h[d].n /\ h[d].n \in Nat /\ chunks[p][d].n \in Nat
    BY <1>0, <1>4, <1>5
  <2>3. ASSUME NEW i \in Indices(Ahead(p))
        PROVE  LET x == Ahead(p)[i] IN
                 /\ x.c \in DOMAIN h /\ x.n \in Nat /\ x.n <= h[x.c].n /\ h[x.c].st # "ok"
                 /\ x.c = c => x.n < n
    <3> DEFINE x == Ahead(p)[i]
    <3>1. /\ x.c \in DOMAIN chunks[p] /\ x.n \in Nat /\ x.n <= chunks[p][x.c].n
          /\ chunks[p][x.c].st # "ok"
      BY <2>1 DEF ProcInv, FirstInv
    <3> HIDE DEF x
    <3>2. x.c \in DOMAIN h /\ x.n \in Nat /\ h[x.c].st # "ok"
      BY <1>4, <1>5, <3>1
    <3>3. x.n <= h[x.c].n
      BY <2>2, <3>1, <3>2
    <3>4. x.c = c => x.n < n
      BY <1>0, <1>4, <3>1
    <3> QED BY <3>2, <3>3, <3>4 DEF x
  <2>4. ASSUME NEW i \in Indices(a)
        PROVE  LET x == a[i] IN
                 /\ x.c \in DOMAIN h /\ x.n \in Nat /\ x.n <= h[x.c].n /\ h[x.c].st # "ok"
    <3>1. CASE i \in Indices(Ahead(p))
      BY <1>8, <2>1, <2>3, <3>1
    <3>2. CASE i = len + 1
      BY <1>4, <1>5, <1>8, <3>2
    <3> QED BY <1>8, <2>1, <3>1, <3>2
  <2>5. ASSUME NEW i \in Indices(a), NEW j \in Indices(a), i < j, a[i].c = a[j].c
        PROVE  a[i].n < a[j].n
    <3>1. i \in 1..(len + 1) /\ j \in 1..(len + 1) /\ Indices(Ahead(p)) = 1..len
      BY <1>8, <2>1 DEF Indices, len
    <3>2. i \in Indices(Ahead(p))
      BY <1>8, <2>5, <3>1
    <3>3. CASE j \in Indices(Ahead(p))
      BY <1>8, <2>1, <2>5, <3>2, <3>3 DEF ProcInv, FirstInv
    <3>4. CASE j = len + 1
      <4>1. a[i] = Ahead(p)[i] /\ a[j] = e
        BY <1>8, <2>1, <3>2, <3>4
      <4>2. Ahead(p)[i].c = c
        BY <1>4, <2>5, <4>1
      <4>3. Ahead(p)[i].n < n
        BY <2>3, <3>2, <4>2
      <4> QED BY <1>4, <4>1, <4>3
    <3> QED BY <1>8, <2>1, <3>3, <3>4
  <2>6. ASSUME NEW i \in Indices(back[p])
        PROVE  LET r == back[p][i] IN
                 /\ r.c \in DOMAIN h /\ r.n \in Nat /\ r.n <= h[r.c].n
                 /\ \A j \in Indices(a) : a[j].c = r.c => r.n < a[j].n
    <3> DEFINE r == back[p][i]
    <3>1. /\ r.c \in DOMAIN chunks[p] /\ r.n \in Nat /\ r.n <= chunks[p][r.c].n
          /\ \A j \in Indices(Ahead(p)) : Ahead(p)[j].c = r.c => r.n < Ahead(p)[j].n
      BY <2>1 DEF ProcInv, FirstInv
    <3> HIDE DEF r
    <3>2. r.c \in DOMAIN h /\ r.n <= h[r.c].n
      BY <1>5, <2>2, <3>1
    <3>3. ASSUME NEW j \in Indices(a), a[j].c = r.c PROVE r.n < a[j].n
      <4>1. CASE j \in Indices(Ahead(p))
        BY <1>8, <2>1, <3>1, <3>3, <4>1
      <4>2. CASE j = len + 1
        BY <1>0, <1>4, <1>8, <3>1, <3>3, <4>2
      <4> QED BY <1>8, <2>1, <4>1, <4>2
    <3> QED BY <3>1, <3>2, <3>3 DEF r
  <2> QED BY <1>11, <2>1, <2>4, <2>5, <2>6 DEF FirstInv
<1> QED BY <1>9, <1>10, <1>13, <1>14, <1>15 DEF ProcInv

\* The handler of a connection serves its next request, or sees its end.
LEMMA ServeStep ==
  ASSUME NEW p \in Procs, TypeInv, ProcInv(p), NEW k \in DOMAIN pipe[p], Serve(p, k)
  PROVE  Only(p) /\ TypeInv' /\ ProcInv(p)'
<1> DEFINE r == Head(pipe[p][k])
           t == Tail(pipe[p][k])
           applied == Op(p) = "write" /\ ~Denied(p)
           answers == live[p] /\ k = conn[p]
           y == Response(p, r)
           b == IF answers THEN Append(back[p], y) ELSE back[p]
<1>1. /\ k \in 1..(MaxLosses + 1) /\ pipe[p][k] # <<>> /\ IsSeq(pipe[p][k]) /\ IsSeq(back[p])
      /\ UNCHANGED <<job, ns, pc, code, chunks, conn, live>>
  BY DEF Serve, TypeInv
<1>2. /\ pipe' = [pipe EXCEPT ![p][k] = t]
      /\ landed' = IF applied THEN landed \cup {<<p, r.c>>} ELSE landed
      /\ late' = IF applied /\ code[p] = 0 THEN late \cup {p} ELSE late
      /\ back' = IF answers THEN [back EXCEPT ![p] = Append(back[p], y)] ELSE back
  BY DEF Serve
<1>3. /\ y.c = r.c /\ y.n = r.n
      /\ y.res = "ok" /\ Op(p) = "write" => applied
  BY DEF Response
<1>4. conn[p] \in 1..(MaxLosses + 1) /\ k <= conn[p]
  BY <1>1, LimitAssumption DEF ProcInv, StageInv, TypeInv
<1>5. /\ IsSeq(t) /\ 1 \in Indices(pipe[p][k]) /\ r = pipe[p][k][1]
      /\ \A i \in Indices(t) : i + 1 \in Indices(pipe[p][k]) /\ t[i] = pipe[p][k][i + 1]
  BY <1>1, TakeHead
<1>6. applied => Op(p) = "write"
  OBVIOUS
<1> HIDE DEF r, t, applied, y, answers
<1>7. /\ DOMAIN pipe' = Procs /\ \A q \in Procs : q # p => pipe'[q] = pipe[q]
      /\ DOMAIN pipe'[p] = 1..(MaxLosses + 1)
      /\ \A m \in 1..(MaxLosses + 1) : pipe'[p][m] = IF m = k THEN t ELSE pipe[p][m]
  BY <1>1, <1>2 DEF TypeInv
<1>8. DOMAIN back' = Procs /\ \A q \in Procs : back'[q] = IF q = p THEN b ELSE back[q]
  BY <1>2 DEF TypeInv
<1>9. /\ IsSeq(b)
      /\ \A i \in Indices(b) : (i \in Indices(back[p]) /\ b[i] = back[p][i]) \/ b[i] = y
  <2>1. CASE answers
    <3>1. b = Append(back[p], y)
      BY <2>1
    <3> HIDE DEF b
    <3>2. /\ IsSeq(Append(back[p], y)) /\ Append(back[p], y)[Len(back[p]) + 1] = y
          /\ \A i \in Indices(back[p]) : Append(back[p], y)[i] = back[p][i]
          /\ \A i \in Indices(Append(back[p], y)) : i \in Indices(back[p]) \/ i = Len(back[p]) + 1
      BY <1>1, PutLast
    <3> QED BY <3>1, <3>2
  <2>2. CASE ~answers
    BY <1>1, <2>2
  <2> QED BY <2>1, <2>2
<1> HIDE DEF b
<1>10. \A x \in landed' : x \in landed \/ (x = <<p, r.c>> /\ applied)
  BY <1>2
<1>11. Only(p)
  <2>1. \A x \in landed' : x \in landed \/ x[1] = p
    BY <1>10
  <2> QED BY <1>1, <1>2, <1>7, <1>8, <2>1 DEF Only
<1>12. TypeInv'
  <2>1. ASSUME NEW q \in Procs
        PROVE  /\ DOMAIN pipe'[q] = 1..(MaxLosses + 1) /\ IsSeq(back'[q])
               /\ \A m \in 1..(MaxLosses + 1) : IsSeq(pipe'[q][m])
    <3>1. CASE q = p
      BY <1>5, <1>7, <1>8, <1>9, <3>1 DEF TypeInv
    <3>2. CASE q # p
      BY <1>7, <1>8, <3>2 DEF TypeInv
    <3> QED BY <3>1, <3>2
  <2> QED BY <1>1, <1>7, <1>8, <2>1 DEF TypeInv
<1>13. /\ Op(p)' = Op(p) /\ Count(p)' = Count(p) /\ Requests(p)' = Requests(p)
  BY <1>1, PlanKept
<1>14. k = 1 /\ conn[p] = 1 => code[p] # 0 \/ ~applied
  <2> SUFFICES ASSUME k = 1, conn[p] = 1, code[p] = 0, applied PROVE FALSE
    OBVIOUS
  <2>1. DOMAIN chunks[p] # {} /\ Op(p) = "write"
    BY <1>6 DEF ProcInv, StageInv
  <2>2. \A c \in DOMAIN chunks[p] : chunks[p][c].st = "ok"
    BY <2>1 DEF ProcInv, WriteInv
  <2>3. r.c \in DOMAIN chunks[p] /\ chunks[p][r.c].st # "ok"
    BY <1>5, <2>1 DEF ProcInv, FirstInv, Ahead
  <2> QED BY <2>2, <2>3
<1>15. StageInv(p)'
  <2>1. p \in late' => conn[p] > 1
    BY <1>1, <1>2, <1>4, <1>14, LimitAssumption DEF ProcInv, StageInv
  <2>2. \A m \in 1..(MaxLosses + 1) : m > conn[p] => pipe'[p][m] = <<>>
    BY <1>1, <1>4, <1>7, LimitAssumption DEF ProcInv, StageInv
  <2>3. ~live[p] => b = <<>>
    BY DEF b, answers, ProcInv, StageInv
  <2>4. \A x \in landed' : x[1] = p => Op(p) = "write"
    BY <1>6, <1>10 DEF ProcInv, StageInv
  <2>5. conn[p] # 0
    BY <1>4
  <2> QED BY <1>1, <1>8, <1>13, <2>1, <2>2, <2>3, <2>4, <2>5 DEF ProcInv, StageInv
<1>16. WriteInv(p)'
  <2> SUFFICES ASSUME Op(p) = "write" PROVE WriteInv(p)'
    BY <1>13 DEF WriteInv
  <2>1. landed \subseteq landed' /\ (applied => <<p, r.c>> \in landed')
    BY <1>2
  <2>2. ASSUME NEW i \in Indices(b), b[i].res = "ok" PROVE <<p, b[i].c>> \in landed'
    <3>1. CASE i \in Indices(back[p]) /\ b[i] = back[p][i]
      BY <2>1, <2>2, <3>1 DEF ProcInv, WriteInv
    <3>2. CASE b[i] = y
      BY <1>3, <2>1, <2>2, <3>2
    <3> QED BY <1>9, <3>1, <3>2
  <2>3. ASSUME NEW c \in DOMAIN chunks[p], chunks[p][c].st = "ok" PROVE <<p, c>> \in landed'
    BY <2>1, <2>3 DEF ProcInv, WriteInv
  <2>4. code[p] = 0 => \A c \in DOMAIN chunks[p] : chunks[p][c].st = "ok"
    BY DEF ProcInv, WriteInv
  <2>5. back'[p] = b /\ chunks' = chunks /\ code' = code
    BY <1>1, <1>8
  <2> QED BY <2>2, <2>3, <2>4, <2>5 DEF WriteInv
<1>17. FirstInv(p)'
  <2> SUFFICES ASSUME conn[p] = 1, DOMAIN chunks[p] # {} PROVE FirstInv(p)'
    BY <1>1 DEF FirstInv
  <2>1. k = 1 /\ Ahead(p) = pipe[p][k] /\ Ahead(p)' = t
    BY <1>1, <1>4, <1>7 DEF Ahead
  <2>2. /\ \A i \in Indices(Ahead(p)) : LET e == Ahead(p)[i] IN
             /\ e.c \in DOMAIN chunks[p] /\ e.n \in Nat /\ e.n <= chunks[p][e.c].n
             /\ chunks[p][e.c].st # "ok"
        /\ \A i, j \in Indices(Ahead(p)) : i < j /\ Ahead(p)[i].c = Ahead(p)[j].c =>
             Ahead(p)[i].n < Ahead(p)[j].n
        /\ \A i \in Indices(back[p]) : LET x == back[p][i] IN
             /\ x.c \in DOMAIN chunks[p] /\ x.n \in Nat /\ x.n <= chunks[p][x.c].n
             /\ \A j \in Indices(Ahead(p)) : Ahead(p)[j].c = x.c => x.n < Ahead(p)[j].n
    BY DEF ProcInv, FirstInv
  <2>3. \A i \in Indices(t) : i + 1 \in Indices(Ahead(p)) /\ t[i] = Ahead(p)[i + 1]
    BY <1>5, <2>1
  <2>4. ASSUME NEW i \in Indices(t)
        PROVE  LET e == t[i] IN
                 /\ e.c \in DOMAIN chunks[p] /\ e.n \in Nat /\ e.n <= chunks[p][e.c].n
                 /\ chunks[p][e.c].st # "ok"
    BY <2>2, <2>3
  <2>5. ASSUME NEW i \in Indices(t), NEW j \in Indices(t), i < j, t[i].c = t[j].c
        PROVE  t[i].n < t[j].n
    <3>1. i \in Int /\ j \in Int
      BY DEF Indices
    <3>2. i + 1 < j + 1
      BY <2>5, <3>1
    <3> QED BY <2>2, <2>3, <2>5, <3>2
  <2>6. ASSUME NEW i \in Indices(b)
        PROVE  LET x == b[i] IN
                 /\ x.c \in DOMAIN chunks[p] /\ x.n \in Nat /\ x.n <= chunks[p][x.c].n
                 /\ \A j \in Indices(t) : t[j].c = x.c => x.n < t[j].n
    <3>1. CASE i \in Indices(back[p]) /\ b[i] = back[p][i]
      BY <2>2, <2>3, <3>1
    <3>2. CASE b[i] = y
      <4>1. y.c \in DOMAIN chunks[p] /\ y.n \in Nat /\ y.n <= chunks[p][y.c].n
        BY <1>3, <1>5, <2>1, <2>2
      <4>2. ASSUME NEW j \in Indices(t), t[j].c = y.c PROVE y.n < t[j].n
        <5>1. j + 1 \in Indices(Ahead(p)) /\ 1 < j + 1 /\ 1 \in Indices(Ahead(p))
          BY <1>5, <2>1, <2>3 DEF Indices
        <5>2. Ahead(p)[1].c = Ahead(p)[j + 1].c
          BY <1>3, <1>5, <2>1, <2>3, <4>2
        <5> QED BY <1>3, <1>5, <2>1, <2>2, <2>3, <5>1, <5>2
      <4> QED BY <3>2, <4>1, <4>2
    <3> QED BY <1>9, <3>1, <3>2
  <2>7. back'[p] = b /\ chunks' = chunks
    BY <1>1, <1>8
  <2> QED BY <2>1, <2>4, <2>5, <2>6, <2>7 DEF FirstInv
<1> QED BY <1>11, <1>12, <1>15, <1>16, <1>17 DEF ProcInv

\* What a connection still held is dropped.
LEMMA DropStep ==
  ASSUME NEW p \in Procs, ProcInv(p), TypeInv,
         UNCHANGED <<job, ns, landed, late, pc, code, chunks, conn, live, back>>,
         DOMAIN pipe'[p] = 1..(MaxLosses + 1),
         \A k \in 1..(MaxLosses + 1) : pipe'[p][k] = pipe[p][k] \/ pipe'[p][k] = <<>>
  PROVE  ProcInv(p)' /\ \A k \in 1..(MaxLosses + 1) : IsSeq(pipe'[p][k])
<1>1. /\ Op(p)' = Op(p) /\ Count(p)' = Count(p) /\ Requests(p)' = Requests(p)
  BY PlanKept
<1>2. StageInv(p)'
  BY <1>1 DEF ProcInv, StageInv
<1>3. WriteInv(p)'
  BY <1>1 DEF ProcInv, WriteInv
<1>4. FirstInv(p)'
  <2>1. \A c \in DOMAIN chunks[p] : chunks[p][c].n \in Nat /\ chunks[p][c].n <= chunks[p][c].n
    BY DEF TypeInv
  <2>2. 1 \in 1..(MaxLosses + 1)
    BY LimitAssumption
  <2> QED BY <2>1, <2>2, FirstKept DEF ProcInv
<1>5. \A k \in 1..(MaxLosses + 1) : IsSeq(pipe'[p][k])
  BY EmptyQueue DEF TypeInv
<1> QED BY <1>2, <1>3, <1>4, <1>5 DEF ProcInv

\* The server drops what was left unserved on a connection.
LEMMA HangupStep ==
  ASSUME NEW p \in Procs, TypeInv, ProcInv(p), NEW k \in DOMAIN pipe[p], Hangup(p, k)
  PROVE  Only(p) /\ TypeInv' /\ ProcInv(p)'
<1>1. UNCHANGED <<job, ns, landed, late, pc, code, chunks, conn, live, back>>
  BY DEF Hangup, server
<1>2. /\ DOMAIN pipe' = Procs /\ \A q \in Procs : q # p => pipe'[q] = pipe[q]
      /\ DOMAIN pipe'[p] = 1..(MaxLosses + 1)
      /\ \A m \in 1..(MaxLosses + 1) : pipe'[p][m] = pipe[p][m] \/ pipe'[p][m] = <<>>
  BY DEF Hangup, TypeInv
<1>3. ProcInv(p)' /\ \A m \in 1..(MaxLosses + 1) : IsSeq(pipe'[p][m])
  BY <1>1, <1>2, DropStep
<1>4. Only(p)
  BY <1>1, <1>2 DEF Only
<1>5. TypeInv'
  BY <1>1, <1>2, <1>3 DEF TypeInv
<1> QED BY <1>3, <1>4, <1>5

\* The simulator is stopped.
LEMMA StopStep ==
  ASSUME IInv, StopServe
  PROVE  IInv'
<1>1. /\ UNCHANGED <<job, ns, landed, late, pc, code, chunks, conn, live, back>>
      /\ DOMAIN pipe' = Procs
      /\ \A p \in Procs : DOMAIN pipe'[p] = 1..(MaxLosses + 1)
      /\ \A p \in Procs : \A k \in 1..(MaxLosses + 1) : pipe'[p][k] = <<>>
  BY DEF StopServe, IInv, TypeInv
<1>2. \A p \in Procs : ProcInv(p)' /\ \A k \in 1..(MaxLosses + 1) : IsSeq(pipe'[p][k])
  BY <1>1, DropStep DEF IInv
<1>3. TypeInv'
  BY <1>1, <1>2 DEF IInv, TypeInv
<1> QED BY <1>2, <1>3 DEF IInv

\* The first connection: the plan is made and every request that can be framed
\* is sent once, in order.
LEMMA ConnectStep ==
  ASSUME NEW p \in Procs, TypeInv, ProcInv(p), ConnectOk(p)
  PROVE  /\ Only(p) /\ TypeInv' /\ ProcInv(p)'
         /\ \A k \in 1..(MaxLosses + 1) : \A i \in Indices(pipe'[p][k]) :
              pipe'[p][k][i].c \in Requests(p)
         /\ back'[p] = <<>> /\ code'[p] # 0
         /\ \A c \in DOMAIN chunks'[p] : chunks'[p][c].st = "waiting"
<1> DEFINE reqs == IF Plannable(p) THEN Requests(p) ELSE {}
           sent == {c \in reqs : c.from \in 0..AddressMax}
           order == InOrder(sent)
           first == [i \in DOMAIN order |-> [c |-> order[i], n |-> 1]]
           h == [c \in reqs |-> [n |-> 1, st |-> "waiting", got |-> <<>>]]
           good == reqs # {} /\ sent = reqs
           m == Cardinality(sent)
<1>1. /\ pc[p] = "dialling" /\ conn[p] = 0 /\ code[p] = None
      /\ ns[p].start \in Int /\ Count(p) \in Int
      /\ UNCHANGED <<job, ns, landed, late, back>>
  BY DEF ConnectOk, server, ProcInv, StageInv
<1>2. /\ conn' = [conn EXCEPT ![p] = 1] /\ pipe' = [pipe EXCEPT ![p][1] = first]
      /\ good => /\ chunks' = [chunks EXCEPT ![p] = h] /\ live' = [live EXCEPT ![p] = TRUE]
                 /\ pc' = [pc EXCEPT ![p] = "running"] /\ code' = code
      /\ ~good => /\ chunks' = chunks /\ live' = live
                  /\ pc' = [pc EXCEPT ![p] = "exited"] /\ code' = [code EXCEPT ![p] = 1]
  BY DEF ConnectOk, Exit
<1>3. /\ DOMAIN chunks[p] = {} /\ ~live[p] /\ back[p] = <<>> /\ p \notin late
      /\ \A k \in 1..(MaxLosses + 1) : pipe[p][k] = <<>>
      /\ \A x \in landed : x[1] # p
  BY <1>1, BeforeConnection DEF ProcInv
<1>4. /\ IsFiniteSet(sent) /\ \A c \in sent : c.from \in Int
      /\ \A c, d \in sent : c.from = d.from => c = d
  <2> DEFINE P == Pieces(ns[p].start, ns[p].start + Count(p), Limit(p))
  <2>1. Limit(p) \in Nat \ {0} /\ ns[p].start + Count(p) \in Int
    BY <1>1, LimitAssumption DEF Limit
  <2>2. /\ IsFiniteSet(P) /\ \A c \in P : c.from \in Int
        /\ \A c, d \in P : c.from = d.from => c = d
    BY <1>1, <2>1, PiecesDiffer
  <2> HIDE DEF P
  <2>3. sent \subseteq P
    BY DEF Requests, P
  <2>4. IsFiniteSet(sent)
    BY <2>2, <2>3, FS_Subset
  <2> QED BY <2>2, <2>3, <2>4
<1> HIDE DEF sent, reqs
<1>5. /\ order \in [1..m -> sent]
      /\ \A i, j \in 1..m : i < j => order[i].from < order[j].from
  BY <1>4, PiecesInOrder
<1>6. m \in Nat
  BY <1>4, FS_CardinalityType
<1> HIDE DEF order, m
<1>7. /\ DOMAIN first = 1..m
      /\ \A i \in 1..m : first[i] = [c |-> order[i], n |-> 1] /\ order[i] \in sent
  BY <1>5
<1>8. IsSeq(first) /\ Indices(first) = 1..m
  <2> DEFINE T == [c : sent, n : {1}]
  <2>1. first \in [1..m -> T]
    BY <1>5
  <2> HIDE DEF first, T
  <2>2. first \in Seq(T) /\ Len(first) = m
    BY <1>6, <2>1
  <2>3. IsSeq(first)
    BY <2>2, Zenon DEF IsSeq
  <2> QED BY <2>2, <2>3 DEF Indices
<1> HIDE DEF first, h, good
<1>9. 1 \in 1..(MaxLosses + 1)
  BY LimitAssumption
<1>10. /\ DOMAIN pipe' = Procs /\ \A q \in Procs : q # p => pipe'[q] = pipe[q]
       /\ DOMAIN pipe'[p] = 1..(MaxLosses + 1)
       /\ \A k \in 1..(MaxLosses + 1) : pipe'[p][k] = IF k = 1 THEN first ELSE <<>>
  <2>1. /\ DOMAIN pipe' = Procs /\ \A q \in Procs : q # p => pipe'[q] = pipe[q]
        /\ pipe'[p] = [pipe[p] EXCEPT ![1] = first]
    BY <1>2 DEF TypeInv
  <2>2. DOMAIN pipe[p] = 1..(MaxLosses + 1)
    BY DEF TypeInv
  <2> QED BY <1>3, <1>9, <2>1, <2>2
<1>11. /\ conn'[p] = 1 /\ DOMAIN chunks' = Procs
       /\ good => chunks'[p] = h /\ live'[p] = TRUE /\ pc'[p] = "running" /\ code'[p] = None
       /\ ~good => chunks'[p] = chunks[p] /\ live'[p] = live[p] /\ pc'[p] = "exited" /\ code'[p] = 1
       /\ \A q \in Procs : q # p => /\ chunks'[q] = chunks[q] /\ live'[q] = live[q]
                                    /\ conn'[q] = conn[q] /\ pc'[q] = pc[q] /\ code'[q] = code[q]
  BY <1>1, <1>2 DEF TypeInv
<1>12. /\ DOMAIN h = reqs
       /\ \A c \in DOMAIN h : /\ DOMAIN h[c] = {"n", "st", "got"} /\ h[c].n = 1
                              /\ h[c].st = "waiting"
  BY DEF h
<1>13. Only(p)
  BY <1>1, <1>10, <1>11 DEF Only
<1>14. TypeInv'
  <2>1. ASSUME NEW q \in Procs
        PROVE  /\ DOMAIN pipe'[q] = 1..(MaxLosses + 1) /\ IsSeq(back'[q])
               /\ \A k \in 1..(MaxLosses + 1) : IsSeq(pipe'[q][k])
               /\ \A c \in DOMAIN chunks'[q] : /\ DOMAIN chunks'[q][c] = {"n", "st", "got"}
                                               /\ chunks'[q][c].n \in Nat
    <3>1. CASE q = p
      <4>1. \A k \in 1..(MaxLosses + 1) : IsSeq(pipe'[p][k])
        BY <1>8, <1>10, EmptyQueue
      <4>2. IsSeq(back'[p])
        BY <1>1 DEF TypeInv
      <4>3. \A c \in DOMAIN chunks'[p] : /\ DOMAIN chunks'[p][c] = {"n", "st", "got"}
                                         /\ chunks'[p][c].n \in Nat
        BY <1>3, <1>11, <1>12
      <4> QED BY <1>10, <3>1, <4>1, <4>2, <4>3
    <3>2. CASE q # p
      BY <1>1, <1>10, <1>11, <3>2 DEF TypeInv
    <3> QED BY <3>1, <3>2
  <2>2. /\ pc' \in [Procs -> Stages] /\ code' \in [Procs -> {None, 0, 1, 2, 130}]
        /\ live' \in [Procs -> BOOLEAN]
    BY <1>2 DEF TypeInv, Stages
  <2>3. /\ conn' \in [Procs -> 0..(MaxLosses + 1)] /\ DOMAIN ns' = Procs /\ DOMAIN back' = Procs
    BY <1>1, <1>2, LimitAssumption DEF TypeInv
  <2>4. \A q \in Procs : \A o \in DOMAIN job'[q].words : Numbers(o, job'[q].words[o])
    BY <1>1 DEF TypeInv
  <2> QED BY <1>10, <1>11, <2>1, <2>2, <2>3, <2>4 DEF TypeInv
<1>15. /\ Op(p)' = Op(p) /\ Count(p)' = Count(p) /\ Requests(p)' = Requests(p)
  BY <1>1, PlanKept
<1>16. back'[p] = <<>> /\ landed' = landed /\ late' = late
  BY <1>1, <1>3
<1>17. good => reqs # {} /\ sent = reqs /\ reqs = Requests(p)
  BY DEF good, reqs
<1>18. StageInv(p)'
  <2>1. None \notin {0, 1, 2}
    BY NoneAssumption
  <2>2. /\ conn'[p] # 0 /\ p \notin late' /\ \A x \in landed' : x[1] # p
        /\ \A k \in 1..(MaxLosses + 1) : k > conn'[p] => pipe'[p][k] = <<>>
    BY <1>3, <1>10, <1>11, <1>16
  <2>3. CASE good
    BY <1>11, <1>12, <1>15, <1>16, <1>17, <2>1, <2>2, <2>3 DEF StageInv
  <2>4. CASE ~good
    BY <1>3, <1>11, <1>15, <1>16, <2>1, <2>2, <2>4 DEF StageInv
  <2> QED BY <2>3, <2>4
<1>19. WriteInv(p)'
  <2>1. None # 0
    BY NoneAssumption
  <2>2. CASE good
    BY <1>11, <1>12, <1>16, <2>1, <2>2, EmptyQueue DEF WriteInv
  <2>3. CASE ~good
    BY <1>3, <1>11, <1>16, <2>3, EmptyQueue DEF WriteInv
  <2> QED BY <2>2, <2>3
<1>20. FirstInv(p)'
  <2>1. CASE good
    <3>1. Ahead(p)' = first
      BY <1>9, <1>10 DEF Ahead
    <3>2. ASSUME NEW i \in Indices(first)
          PROVE  LET e == first[i] IN
                   /\ e.c \in DOMAIN h /\ e.n \in Nat /\ e.n <= h[e.c].n /\ h[e.c].st # "ok"
      <4>1. first[i].c \in reqs /\ first[i].n = 1
        BY <1>7, <1>8, <1>17, <2>1
      <4> QED BY <1>12, <4>1
    <3>3. ASSUME NEW i \in Indices(first), NEW j \in Indices(first), i < j PROVE first[i].c # first[j].c
      <4>1. /\ order[i].from < order[j].from /\ order[i].from \in Int
            /\ first[i].c = order[i] /\ first[j].c = order[j]
        BY <1>4, <1>5, <1>7, <1>8, <3>3
      <4>2. order[i] # order[j]
        BY <4>1
      <4> QED BY <4>1, <4>2
    <3> QED BY <1>11, <1>16, <2>1, <3>1, <3>2, <3>3, EmptyQueue DEF FirstInv
  <2>2. CASE ~good
    BY <1>3, <1>11, <2>2 DEF FirstInv
  <2> QED BY <2>1, <2>2
<1>21. \A k \in 1..(MaxLosses + 1) : \A i \in Indices(pipe'[p][k]) : pipe'[p][k][i].c \in Requests(p)
  <2>1. \A c \in sent : c \in Requests(p)
    BY DEF sent, reqs
  <2>2. \A i \in Indices(first) : first[i].c \in Requests(p)
    BY <1>7, <1>8, <2>1
  <2> QED BY <1>10, <2>2, EmptyQueue
<1>22. code'[p] # 0 /\ \A c \in DOMAIN chunks'[p] : chunks'[p][c].st = "waiting"
  BY <1>3, <1>11, <1>12, NoneAssumption
<1> QED BY <1>13, <1>14, <1>16, <1>18, <1>19, <1>20, <1>21, <1>22 DEF ProcInv

-----------------------------------------------------------------------------
(* The exit codes *)

\* Every reachable state satisfies the inductive invariant.
THEOREM Invariance == Spec => []IInv
<1>1. Init => IInv
  <2> SUFFICES ASSUME Init PROVE IInv
    OBVIOUS
  <2>1. \A p \in Procs : \A o \in DOMAIN job[p].words : Numbers(o, job[p].words[o])
    BY JobAssumption DEF Init
  <2>2. /\ \A p \in Procs : /\ pc[p] = "start" /\ code[p] = None /\ live[p] = FALSE /\ conn[p] = 0
                            /\ chunks[p] = <<>> /\ back[p] = <<>>
                            /\ \A k \in 1..(MaxLosses + 1) : pipe[p][k] = <<>>
      /\ landed = {} /\ late = {}
    BY DEF Init
  <2>3. DOMAIN <<>> = {}
    OBVIOUS
  <2>4. \A p \in Procs : /\ DOMAIN pipe[p] = 1..(MaxLosses + 1) /\ IsSeq(back[p])
                         /\ \A k \in 1..(MaxLosses + 1) : IsSeq(pipe[p][k])
                         /\ DOMAIN chunks[p] = {}
    BY <2>2, <2>3, EmptyQueue DEF Init
  <2>5. /\ pc \in [Procs -> Stages] /\ code \in [Procs -> {None, 0, 1, 2, 130}]
        /\ live \in [Procs -> BOOLEAN] /\ conn \in [Procs -> 0..(MaxLosses + 1)]
        /\ DOMAIN ns = Procs /\ DOMAIN chunks = Procs /\ DOMAIN pipe = Procs /\ DOMAIN back = Procs
    BY LimitAssumption DEF Init, Stages
  <2>6. TypeInv
    BY <2>1, <2>4, <2>5 DEF TypeInv
  <2>7. None # 0 /\ None # 2
    BY NoneAssumption
  <2>8. ASSUME NEW p \in Procs PROVE StageInv(p) /\ WriteInv(p) /\ FirstInv(p)
    <3>1. StageInv(p)
      BY <2>2, <2>4, <2>7 DEF StageInv
    <3>2. WriteInv(p)
      BY <2>2, <2>4, <2>7, EmptyQueue DEF WriteInv
    <3>3. FirstInv(p)
      BY <2>2 DEF FirstInv
    <3> QED BY <3>1, <3>2, <3>3
  <2> QED BY <2>6, <2>8 DEF IInv, ProcInv
<1>2. IInv /\ [Next]_vars => IInv'
  <2> SUFFICES ASSUME IInv, [Next]_vars PROVE IInv'
    OBVIOUS
  <2>1. TypeInv /\ \A p \in Procs : ProcInv(p)
    BY DEF IInv
  <2>2. ASSUME NEW p \in Procs, Only(p), TypeInv', ProcInv(p)' PROVE IInv'
    <3>1. \A q \in Procs : q # p => ProcInv(q)'
      BY <2>1, <2>2, OthersKept
    <3> QED BY <2>2, <3>1 DEF IInv
  <2>3. CASE UNCHANGED vars
    <3>1. UNCHANGED <<job, ns, landed, late, pc, code, chunks, conn, live, back, pipe>>
      BY <2>3 DEF vars
    <3>2. TypeInv'
      BY <2>1, <3>1 DEF TypeInv
    <3>3. \A p \in Procs : ProcInv(p)'
      BY <2>1, <3>1, DropStep DEF TypeInv
    <3> QED BY <3>2, <3>3 DEF IInv
  <2>4. CASE StopServe
    BY <2>4, StopStep
  <2>5. ASSUME NEW p \in Procs, Parse(p) \/ Guide(p) PROVE IInv'
    BY <2>1, <2>2, <2>5, ParseStep, GuideStage
  <2>6. ASSUME NEW p \in Procs, Later(p) PROVE IInv'
    <3>1. CASE Build(p) \/ ConnectFail(p)
      BY <2>1, <2>2, <3>1, BuildStep
    <3>2. CASE ConnectOk(p)
      BY <2>1, <2>2, <3>2, ConnectStep
    <3>3. CASE Finish(p) \/ Interrupt(p)
      BY <2>1, <2>2, <3>3, ExitStep
    <3>4. CASE Receive(p)
      BY <2>1, <2>2, <3>4, ReceiveStep
    <3>5. CASE Lose(p) \/ \E c \in DOMAIN chunks[p] : Timeout(p, c) \/ RedialFail(p, c)
      BY <2>1, <2>2, <3>5, FailStep
    <3>6. ASSUME NEW c \in DOMAIN chunks[p], Resend(p, c) PROVE IInv'
      BY <2>1, <2>2, <3>6, ResendStep
    <3>7. ASSUME NEW k \in DOMAIN pipe[p], Serve(p, k) PROVE IInv'
      BY <2>1, <2>2, <3>7, ServeStep
    <3>8. ASSUME NEW k \in DOMAIN pipe[p], Hangup(p, k) PROVE IInv'
      BY <2>1, <2>2, <3>8, HangupStep
    <3> QED BY <2>6, <3>1, <3>2, <3>3, <3>4, <3>5, <3>6, <3>7, <3>8 DEF Later
  <2> QED BY <2>3, <2>4, <2>5, <2>6, Steps
<1> QED BY <1>1, <1>2, PTL DEF Spec

\* What a command that ended with 1 or 2 knows of its requests.
ExitInv(p) ==
  /\ conn[p] # 0 => ns[p].start \in Int
  /\ code[p] = 1 /\ Op(p) = "write" =>
       DOMAIN chunks[p] = {} \/ \E c \in DOMAIN chunks[p] : chunks[p][c].st # "ok"
  /\ code[p] = 1 /\ conn[p] = 0 => ~Buildable(p)
  /\ code[p] = 2 => \A c \in DOMAIN chunks[p] : chunks[p][c].st = "connError"

\* A scan has one request.
LEMMA ScanOnce ==
  ASSUME NEW p \in Procs, TypeInv, ProcInv(p), Op(p) = "scan", ns[p].start \in Int,
         NEW c \in Requests(p), NEW d \in Requests(p)
  PROVE  c = d
<1> DEFINE s == ns[p].start
           L == Limit(p)
<1>1. L \in Nat \ {0} /\ s \in Int /\ s + 1 \in Int
  BY LimitAssumption DEF Limit
<1>2. c \in Pieces(s, s + 1, L) /\ d \in Pieces(s, s + 1, L)
  BY DEF Requests, Count
<1> HIDE DEF s, L
<1>3. c.from \in s..(s + 1 - 1) /\ d.from \in s..(s + 1 - 1)
  BY <1>1, <1>2, PieceUnits
<1>4. c.from = d.from
  BY <1>1, <1>3
<1> QED BY <1>1, <1>2, <1>4, PiecesDiffer

\* A command that goes on, or has ended, keeps what it knows.
LEMMA ExitKept ==
  ASSUME NEW p \in Procs, ExitInv(p), job' = job, ns'[p] = ns[p], conn'[p] = conn[p],
         chunks'[p] = chunks[p], code'[p] = code[p]
  PROVE  ExitInv(p)'
<1>1. Op(p)' = Op(p)
  BY DEF Op
<1>2. Area(p)' = Area(p)
  BY <1>1 DEF Area
<1>3. Buildable(p)' = Buildable(p)
  BY <1>1 DEF Buildable
<1> QED BY <1>1, <1>3 DEF ExitInv

\* The results of all requests are in: what the exit code says of them.
LEMMA FinishKnows ==
  ASSUME NEW p \in Procs, TypeInv, ProcInv(p), ExitInv(p), Finish(p)
  PROVE  ExitInv(p)'
<1> DEFINE ends == {chunks[p][c].st : c \in DOMAIN chunks[p]}
<1>1. /\ pc[p] = "running" /\ code'[p] = ExitCode(p)
      /\ job' = job /\ ns' = ns /\ conn' = conn /\ chunks' = chunks
  BY DEF Finish, Exit, server, TypeInv
<1>2. conn[p] # 0 /\ DOMAIN chunks[p] # {} /\ DOMAIN chunks[p] = Requests(p) /\ ns[p].start \in Int
  BY <1>1 DEF ProcInv, StageInv, ExitInv
<1>3. Op(p)' = Op(p)
  BY <1>1 DEF Op
<1>4. ExitCode(p) = 1 /\ Op(p) = "write" => ends # {"ok"}
  <2> HIDE DEF ends
  <2> QED BY DEF ExitCode, ends
<1>5. ASSUME ends # {"ok"} PROVE \E c \in DOMAIN chunks[p] : chunks[p][c].st # "ok"
  BY <1>2, <1>5
<1>6. ExitCode(p) = 2 => Op(p) = "scan" /\ "connError" \in ends
  <2> HIDE DEF ends
  <2> QED BY DEF ExitCode, ends
<1>7. ASSUME ExitCode(p) = 2, NEW c \in DOMAIN chunks[p] PROVE chunks[p][c].st = "connError"
  <2>1. Op(p) = "scan"
    BY <1>6, <1>7
  <2>2. PICK d \in DOMAIN chunks[p] : chunks[p][d].st = "connError"
    BY <1>6, <1>7
  <2>3. c = d
    BY <1>2, <2>1, ScanOnce
  <2> QED BY <2>2, <2>3
<1> HIDE DEF ends
<1> QED BY <1>1, <1>2, <1>3, <1>4, <1>5, <1>7 DEF ExitInv

\* Every step keeps what the commands know.
LEMMA ExitKnows ==
  ASSUME IInv, \A p \in Procs : ExitInv(p), [Next]_vars
  PROVE  \A p \in Procs : ExitInv(p)'
<1>1. TypeInv /\ \A p \in Procs : ProcInv(p) /\ ExitInv(p)
  BY DEF IInv
<1>2. 1 # None /\ 2 # None
  BY NoneAssumption
<1>3. ASSUME UNCHANGED <<job, ns, code, chunks, conn>> PROVE \A p \in Procs : ExitInv(p)'
  BY <1>1, <1>3, ExitKept
<1>4. ASSUME NEW p \in Procs, Only(p), ExitInv(p)' PROVE \A q \in Procs : ExitInv(q)'
  <2>1. ASSUME NEW q \in Procs, q # p PROVE ExitInv(q)'
    BY <1>1, <1>4, <2>1, ExitKept DEF Only
  <2> QED BY <1>4, <2>1
<1>5. CASE StopServe \/ UNCHANGED vars
  BY <1>3, <1>5 DEF StopServe, vars
<1>6. ASSUME NEW p \in Procs, Parse(p) \/ Guide(p) PROVE \A q \in Procs : ExitInv(q)'
  <2>1. Only(p)
    BY <1>1, <1>6, ParseStep, GuideStage
  <2>2. pc[p] = "start" /\ UNCHANGED <<chunks, conn>> /\ code'[p] \in {code[p], 0, 2}
    BY <1>1, <1>6 DEF Parse, Guide, Exit, server, TypeInv
  <2>3. conn[p] = 0 /\ code[p] = None /\ DOMAIN chunks[p] = {}
    BY <1>1, <2>2, BeforeConnection DEF ProcInv, StageInv
  <2>4. ExitInv(p)'
    BY <1>2, <2>2, <2>3 DEF ExitInv
  <2> QED BY <1>4, <2>1, <2>4
<1>7. ASSUME NEW p \in Procs, Later(p) PROVE \A q \in Procs : ExitInv(q)'
  <2>0. job' = job /\ ns' = ns
    BY <1>7, LaterKeeps
  <2>1. Op(p)' = Op(p) /\ Area(p)' = Area(p)
    BY <2>0 DEF Op, Area
  <2>2. Buildable(p)' = Buildable(p)
    BY <2>0, <2>1 DEF Buildable
  <2>3. CASE Build(p) \/ ConnectFail(p)
    <3>1. Only(p)
      BY <1>1, <2>3, BuildStep
    <3>2. /\ pc[p] \in {"parsed", "dialling"} /\ UNCHANGED <<chunks, conn>>
          /\ code'[p] \in {code[p], 2} \/ (code'[p] = 1 /\ ~Buildable(p))
      BY <1>1, <2>3 DEF Build, ConnectFail, Exit, server, TypeInv
    <3>3. conn[p] = 0 /\ code[p] = None /\ DOMAIN chunks[p] = {}
      BY <1>1, <3>2, BeforeConnection DEF ProcInv, StageInv
    <3>4. ExitInv(p)'
      BY <1>2, <2>2, <3>2, <3>3 DEF ExitInv
    <3> QED BY <1>4, <3>1, <3>4
  <2>4. CASE ConnectOk(p)
    <3>1. Only(p)
      BY <1>1, <2>4, ConnectStep
    <3>2. /\ pc[p] = "dialling" /\ conn'[p] = 1
          /\ code'[p] = code[p] \/ (code'[p] = 1 /\ chunks' = chunks)
      BY <1>1, <2>4 DEF ConnectOk, Exit, TypeInv
    <3>3. conn[p] = 0 /\ code[p] = None /\ DOMAIN chunks[p] = {} /\ ns[p].start \in Int
      BY <1>1, <3>2, BeforeConnection DEF ProcInv, StageInv
    <3>4. ExitInv(p)'
      BY <1>2, <2>0, <3>2, <3>3 DEF ExitInv
    <3> QED BY <1>4, <3>1, <3>4
  <2>5. CASE Finish(p)
    <3>1. Only(p) /\ ExitInv(p)'
      BY <1>1, <2>5, ExitStep, FinishKnows
    <3> QED BY <1>4, <3>1
  <2>6. CASE Interrupt(p)
    <3>1. Only(p)
      BY <1>1, <2>6, ExitStep
    <3>2. code'[p] = 130 /\ conn' = conn
      BY <1>1, <2>6 DEF Interrupt, Exit, TypeInv
    <3>3. ExitInv(p)'
      BY <1>1, <2>0, <3>2 DEF ExitInv
    <3> QED BY <1>4, <3>1, <3>3
  <2>7. CASE Receive(p) \/ Lose(p)
             \/ \E c \in DOMAIN chunks[p] : Timeout(p, c) \/ Resend(p, c) \/ RedialFail(p, c)
    <3>1. Only(p)
      BY <1>1, <2>7, ReceiveStep, FailStep, ResendStep
    <3>2. pc[p] = "running" /\ code' = code
      BY <2>7 DEF Receive, Lose, Timeout, Resend, RedialFail
    <3>3. code[p] = None /\ ns[p].start \in Int
      BY <1>1, <3>2 DEF ProcInv, StageInv, ExitInv
    <3>4. ExitInv(p)'
      BY <1>2, <2>0, <3>2, <3>3 DEF ExitInv
    <3> QED BY <1>4, <3>1, <3>4
  <2>8. CASE \E k \in DOMAIN pipe[p] : Serve(p, k) \/ Hangup(p, k)
    BY <1>3, <2>0, <2>8 DEF Serve, Hangup
  <2> QED BY <1>7, <2>3, <2>4, <2>5, <2>6, <2>7, <2>8 DEF Later
<1> QED BY <1>5, <1>6, <1>7, Steps

\* For any number of commands, plans and losses: exit code 0 of a write means
\* that all of it has been applied, and that nothing of it is applied again
\* later unless a connection was lost; 1 of a write, that it was not confirmed
\* in full, and without a connection that it could not be built; 2 means that
\* nothing has been applied or answered.
THEOREM ExitCodesTrue == Spec => []ExitStatusTruthful
<1>1. IInv /\ (\A p \in Procs : ExitInv(p)) => ExitStatusTruthful
  <2> SUFFICES ASSUME IInv, NEW p \in Procs, ExitInv(p)
               PROVE  /\ code[p] = 0 /\ Op(p) = "write" /\ pc[p] = "exited" /\ DOMAIN chunks[p] # {} =>
                           {<<p, c>> : c \in Requests(p)} \subseteq landed
                      /\ p \in late => conn[p] > 1
                      /\ code[p] = 1 /\ Op(p) = "write" =>
                           DOMAIN chunks[p] = {} \/ \E c \in DOMAIN chunks[p] : chunks[p][c].st # "ok"
                      /\ code[p] = 1 /\ conn[p] = 0 => ~Buildable(p)
                      /\ code[p] = 2 => /\ \A x \in landed : x[1] # p
                                        /\ \A c \in DOMAIN chunks[p] : chunks[p][c].st = "connError"
    BY DEF ExitStatusTruthful
  <2>1. StageInv(p) /\ WriteInv(p)
    BY DEF IInv, ProcInv
  <2>2. code[p] = 2 => \A x \in landed : x[1] # p
    BY <2>1 DEF StageInv
  <2>3. ASSUME code[p] = 0, Op(p) = "write", DOMAIN chunks[p] # {}, NEW c \in Requests(p)
        PROVE  <<p, c>> \in landed
    BY <2>1, <2>3 DEF StageInv, WriteInv
  <2> QED BY <2>1, <2>2, <2>3 DEF StageInv, ExitInv
<1>2. Init => \A p \in Procs : ExitInv(p)
  <2>1. ASSUME Init, NEW p \in Procs PROVE conn[p] = 0 /\ code[p] = None
    BY <2>1 DEF Init
  <2>2. 1 # None /\ 2 # None
    BY NoneAssumption
  <2> QED BY <2>1, <2>2 DEF ExitInv
<1>3. IInv /\ (\A p \in Procs : ExitInv(p)) /\ [Next]_vars => (\A p \in Procs : ExitInv(p))'
  BY ExitKnows
<1> QED BY <1>1, <1>2, <1>3, Invariance, PTL DEF Spec

-----------------------------------------------------------------------------
(* Who wrote the registers of a value *)

\* A writer with a connection whose requests do not carry exactly the units W
\* as one of its values, in one request.
WritesWhole(q, W) == \E j \in Values(q) : Window(q, j) = W /\ OneRequest(q, j)
Cuts(q, W) == conn[q] # 0 /\ ~WritesWhole(q, W)

\* Units W with the contents S are of one writer, unless a writer cut them.
Untorn(W, S) == (\A v, w \in S : v = w) \/ \E q \in S \cap Procs : Cuts(q, W)

\* What the memory holds at W; what a response to request c holds.
Held(area, W) == {mem[x].by : x \in ({area} \X W) \cap DOMAIN mem}
MemInv == \A area, W : Untorn(W, Held(area, W))
Snapshot(c, got) == \A W \in SUBSET Units(c) : Untorn(W, {got[a] : a \in W})

\* Requests on the way are of the plan; values on the way to the result of a
\* read were in the memory together.
PlanInv(p) ==
  /\ conn[p] # 0 => ns[p].start \in Int /\ Count(p) \in Int
  /\ \A k \in 1..(MaxLosses + 1) : \A i \in Indices(pipe[p][k]) : pipe[p][k][i].c \in Requests(p)
ReadInv(p) ==
  Op(p) = "read" =>
    /\ \A i \in Indices(back[p]) : back[p][i].res = "ok" => Snapshot(back[p][i].c, back[p][i].got)
    /\ \A c \in DOMAIN chunks[p] : chunks[p][c].st = "ok" => Snapshot(c, chunks[p][c].got)
    /\ code[p] = 0 => \A c \in DOMAIN chunks[p] : chunks[p][c].st = "ok"
TornInv == MemInv /\ \A p \in Procs : PlanInv(p) /\ ReadInv(p)

\* A connected command keeps its namespace and stays connected once.
Frame == job' = job /\ \A q \in Procs : conn[q] # 0 => ns'[q] = ns[q] /\ conn'[q] # 0

\* The number of units of a value, and a request's.
LEMMA Sizes ==
  ASSUME NEW p \in Procs
  PROVE  Width(p) \in {1, 2, 4} /\ Limit(p) \in Nat \ {0}
BY LimitAssumption DEF Width, Rpi, Limit

\* The units of a value are units of the command.
LEMMA WindowUnits ==
  ASSUME NEW p \in Procs, ns[p].start \in Int, Count(p) \in Int, NEW j \in Values(p)
  PROVE  /\ (j - 1) * Width(p) \in Nat /\ j * Width(p) - 1 \in Nat
         /\ (j - 1) * Width(p) <= j * Width(p) - 1
         /\ j * Width(p) <= Count(p)
         /\ \A a : a \in Window(p, j) <=>
              a \in Int /\ a - ns[p].start \in ((j - 1) * Width(p))..(j * Width(p) - 1)
<1> DEFINE w == Width(p)
           n == Count(p)
           s == ns[p].start
<1>1. w \in {1, 2, 4}
  BY Sizes
<1>2. j \in 1..(n \div w)
  BY DEF Values
<1>3. Window(p, j) = {s + i : i \in ((j - 1) * w)..(j * w - 1)}
  BY DEF Window
<1>4. n \in Int /\ s \in Int
  OBVIOUS
<1> HIDE DEF w, n, s
<1>5. n \div w \in Int /\ (n \div w) * w <= n
  BY <1>1, <1>4, Division
<1>6. j \in Int /\ 1 <= j /\ j <= n \div w
  BY <1>2, <1>5
<1> DEFINE q == n \div w
<1> HIDE DEF q
<1>7. (j - 1) * w \in Nat /\ j * w - 1 \in Nat /\ (j - 1) * w <= j * w - 1 /\ j * w <= n
  <2>1. q \in Int /\ q * w <= n /\ j <= q
    BY <1>5, <1>6 DEF q
  <2> QED BY <1>1, <1>4, <1>6, <2>1
<1>8. \A a : a \in Window(p, j) <=> a \in Int /\ a - s \in ((j - 1) * w)..(j * w - 1)
  BY <1>3, <1>4, <1>7
<1> QED BY <1>7, <1>8 DEF w, n, s

\* A value that one request carries is carried by every request that holds a
\* unit of it.
LEMMA WindowInPiece ==
  ASSUME NEW p \in Procs, ns[p].start \in Int, Count(p) \in Int,
         NEW j \in Values(p), OneRequest(p, j),
         NEW c \in Requests(p), NEW a \in Units(c) \cap Window(p, j)
  PROVE  /\ Window(p, j) \subseteq Units(c)
         /\ (a - ns[p].start) \div Limit(p) = (c.from - ns[p].start) \div Limit(p)
<1> DEFINE s == ns[p].start
           L == Limit(p)
           lo == (j - 1) * Width(p)
           hi == j * Width(p) - 1
           e == s + Count(p)
<1>1. /\ lo \in Nat /\ hi \in Nat /\ lo <= hi /\ hi + 1 <= Count(p) /\ s \in Int /\ e \in Int
      /\ \A b : b \in Window(p, j) <=> b \in Int /\ b - s \in lo..hi
      /\ L \in Nat \ {0}
  <2>1. /\ lo \in Nat /\ hi \in Nat /\ lo <= hi /\ j * Width(p) <= Count(p)
        /\ \A b : b \in Window(p, j) <=> b \in Int /\ b - s \in lo..hi
    BY WindowUnits
  <2>2. hi + 1 = j * Width(p)
    BY Sizes DEF Values
  <2>3. L \in Nat \ {0} /\ s \in Int /\ e \in Int
    BY Sizes
  <2> HIDE DEF s, L, lo, hi, e
  <2> QED BY <2>1, <2>2, <2>3
<1>2. lo \div L = hi \div L
  BY DEF OneRequest
<1>3. c \in Pieces(s, e, L)
  BY DEF Requests
<1>4. e = s + Count(p) /\ Count(p) \in Int
  OBVIOUS
<1> HIDE DEF s, L, lo, hi, e
<1>5. \A b \in Int : b \in Span(c) <=> b \in s..(e - 1) /\ (b - s) \div L = (c.from - s) \div L
  BY <1>1, <1>3, PieceUnits
<1>6. Units(c) = Span(c)
  BY DEF Units, Span
<1>7. ASSUME NEW b \in Window(p, j) PROVE b \in Int /\ b \in s..(e - 1) /\ (b - s) \div L = lo \div L
  <2>1. b \in Int /\ b - s \in Int /\ lo <= b - s /\ b - s <= hi
    BY <1>1
  <2>2. lo \div L <= (b - s) \div L /\ (b - s) \div L <= hi \div L
    <3> DEFINE d == b - s
    <3>1. d \in Int /\ lo <= d /\ d <= hi /\ lo \in Int /\ hi \in Int
      BY <1>1, <2>1
    <3> HIDE DEF d
    <3>2. lo \div L <= d \div L /\ d \div L <= hi \div L
      BY <1>1, <3>1, QuotientGrows
    <3> QED BY <3>2 DEF d
  <2>3. (b - s) \div L \in Int /\ lo \div L \in Int /\ hi \div L \in Int
    BY <1>1, <2>1, Division
  <2>4. b \in s..(e - 1)
    BY <1>1, <1>4, <2>1
  <2>5. (b - s) \div L = lo \div L
    <3> DEFINE x == (b - s) \div L
               y == lo \div L
               z == hi \div L
    <3>1. x \in Int /\ y \in Int /\ z \in Int /\ y <= x /\ x <= z /\ y = z
      BY <1>2, <2>2, <2>3
    <3> HIDE DEF x, y, z
    <3>2. x = y
      BY <3>1
    <3> QED BY <3>2 DEF x, y
  <2> QED BY <2>1, <2>4, <2>5
<1>8. lo \div L = (c.from - s) \div L
  BY <1>5, <1>6, <1>7
<1>9. (a - s) \div L = (c.from - s) \div L
  BY <1>7, <1>8
<1>10. Window(p, j) \subseteq Units(c)
  BY <1>5, <1>6, <1>7, <1>8
<1> QED BY <1>9, <1>10 DEF s, L

\* A connected command carries a value in one request, or not, for good.
LEMMA CutsKept ==
  ASSUME NEW q \in Procs, NEW W, Frame, Cuts(q, W)
  PROVE  Cuts(q, W)'
<1>1. job' = job /\ ns'[q] = ns[q] /\ conn'[q] # 0
  BY DEF Frame, Cuts
<1>2. Op(q)' = Op(q) /\ Count(q)' = Count(q)
  BY <1>1, PlanKept
<1>3. Width(q)' = Width(q)
  BY <1>1, <1>2 DEF Width, Area
<1>4. Limit(q)' = Limit(q)
  BY <1>2 DEF Limit
<1>5. Values(q)' = Values(q) /\ \A j : Window(q, j)' = Window(q, j) /\ OneRequest(q, j)' = OneRequest(q, j)
  BY <1>1, <1>2, <1>3, <1>4 DEF Values, Window, OneRequest
<1> QED BY <1>1, <1>5 DEF Cuts, WritesWhole

\* Contents that are of one writer, or cut, stay so.
LEMMA UntornKept ==
  ASSUME NEW W, NEW S, Frame, Untorn(W, S)
  PROVE  Untorn(W, S)'
BY CutsKept DEF Untorn

\* And so does what a response holds.
LEMMA SnapshotKept ==
  ASSUME NEW c, NEW got, Frame, Snapshot(c, got)
  PROVE  Snapshot(c, got)'
<1> SUFFICES ASSUME NEW W \in SUBSET Units(c) PROVE Untorn(W, {got[a] : a \in W})'
  BY DEF Snapshot, Units
<1> DEFINE S == {got[a] : a \in W}
<1>1. Untorn(W, S)
  BY DEF Snapshot
<1> HIDE DEF S
<1>2. Untorn(W, S)'
  BY <1>1, UntornKept
<1> QED BY <1>2 DEF S

\* What a step of a command must do to keep its part of the invariant.
LEMMA ReadStep ==
  ASSUME NEW p \in Procs, Frame, PlanInv(p), ns'[p] = ns[p],
         conn'[p] # 0 => ns[p].start \in Int /\ Count(p) \in Int,
         \A k \in 1..(MaxLosses + 1) : \A i \in Indices(pipe'[p][k]) :
           pipe'[p][k][i].c \in Requests(p),
         Op(p) = "read" =>
           /\ \A i \in Indices(back'[p]) : back'[p][i].res = "ok" =>
                Snapshot(back'[p][i].c, back'[p][i].got)
           /\ \A c \in DOMAIN chunks'[p] : chunks'[p][c].st = "ok" => Snapshot(c, chunks'[p][c].got)
           /\ code'[p] = 0 => \A c \in DOMAIN chunks'[p] : chunks'[p][c].st = "ok"
  PROVE  PlanInv(p)' /\ ReadInv(p)'
<1>1. Op(p)' = Op(p) /\ Count(p)' = Count(p) /\ Requests(p)' = Requests(p)
  BY PlanKept DEF Frame
<1>2. PlanInv(p)'
  BY <1>1 DEF PlanInv
<1>3. ASSUME Op(p) = "read", NEW i \in Indices(back'[p]), back'[p][i].res = "ok"
      PROVE  Snapshot(back[p][i].c, back[p][i].got)'
  <2>1. PICK c, got : c = back'[p][i].c /\ got = back'[p][i].got
    OBVIOUS
  <2>2. Snapshot(c, got)
    BY <1>3, <2>1
  <2>3. Snapshot(c, got)'
    BY <2>2, SnapshotKept
  <2> QED BY <2>1, <2>3 DEF Snapshot, Units
<1>4. ASSUME Op(p) = "read", NEW c \in DOMAIN chunks'[p], chunks'[p][c].st = "ok"
      PROVE  Snapshot(c, chunks[p][c].got)'
  <2>1. PICK got : got = chunks'[p][c].got
    OBVIOUS
  <2>2. Snapshot(c, got)
    BY <1>4, <2>1
  <2>3. Snapshot(c, got)'
    BY <2>2, SnapshotKept
  <2> QED BY <2>1, <2>3 DEF Snapshot, Units
<1>5. ReadInv(p)'
  BY <1>1, <1>3, <1>4 DEF ReadInv
<1> QED BY <1>2, <1>5

\* A command is not disturbed by the steps of others, or by its own that send
\* and receive nothing.
LEMMA ReadKept ==
  ASSUME NEW p \in Procs, Frame, PlanInv(p), ReadInv(p), ns'[p] = ns[p], conn'[p] = conn[p],
         \A k \in 1..(MaxLosses + 1) : pipe'[p][k] = pipe[p][k] \/ pipe'[p][k] = <<>>,
         back'[p] = back[p] \/ back'[p] = <<>>,
         DOMAIN chunks'[p] = DOMAIN chunks[p],
         \A c \in DOMAIN chunks[p] : chunks'[p][c].st = "ok" => chunks'[p][c] = chunks[p][c],
         code'[p] = 0 /\ Op(p) = "read" => \A c \in DOMAIN chunks'[p] : chunks'[p][c].st = "ok"
  PROVE  PlanInv(p)' /\ ReadInv(p)'
<1>1. conn'[p] # 0 => ns[p].start \in Int /\ Count(p) \in Int
  BY DEF PlanInv
<1>2. \A k \in 1..(MaxLosses + 1) : \A i \in Indices(pipe'[p][k]) : pipe'[p][k][i].c \in Requests(p)
  BY EmptyQueue DEF PlanInv
<1>3. Op(p) = "read" =>
        /\ \A i \in Indices(back'[p]) : back'[p][i].res = "ok" =>
             Snapshot(back'[p][i].c, back'[p][i].got)
        /\ \A c \in DOMAIN chunks'[p] : chunks'[p][c].st = "ok" => Snapshot(c, chunks'[p][c].got)
  BY EmptyQueue DEF ReadInv
<1> QED BY <1>1, <1>2, <1>3, ReadStep

\* A command without a connection has nothing on the way.
LEMMA UnconnectedRead ==
  ASSUME NEW p \in Procs, TypeInv, ProcInv(p), conn[p] = 0,
         UNCHANGED <<chunks, conn, pipe, back>>
  PROVE  PlanInv(p)' /\ ReadInv(p)'
<1>1. DOMAIN chunks[p] = {} /\ back[p] = <<>> /\ \A k \in 1..(MaxLosses + 1) : pipe[p][k] = <<>>
  BY BeforeConnection DEF ProcInv
<1>2. PlanInv(p)'
  BY <1>1, EmptyQueue DEF PlanInv
<1>3. ReadInv(p)'
  BY <1>1, EmptyQueue DEF ReadInv
<1> QED BY <1>2, <1>3

\* The steps keep the connected commands' namespaces.
LEMMA StepFrame ==
  ASSUME IInv, [Next]_vars
  PROVE  Frame
<1>1. CASE UNCHANGED vars
  BY <1>1 DEF Frame, vars
<1>2. CASE StopServe
  BY <1>2 DEF StopServe, Frame
<1>3. ASSUME NEW p \in Procs, Parse(p) \/ Guide(p) PROVE Frame
  <2>1. pc[p] = "start" /\ job' = job /\ conn' = conn /\ \A q \in Procs : q # p => ns'[q] = ns[q]
    BY <1>3 DEF Parse, Guide, server, IInv, TypeInv
  <2>2. conn[p] = 0
    BY <2>1 DEF IInv, ProcInv, StageInv
  <2> QED BY <2>1, <2>2 DEF Frame
<1>4. ASSUME NEW p \in Procs, Later(p) PROVE Frame
  <2>1. job' = job /\ ns' = ns
    BY <1>4, LaterKeeps
  <2>2. conn' = conn \/ \E k \in 1..(MaxLosses + 1) : conn' = [conn EXCEPT ![p] = k]
    <3>1. CASE Build(p) \/ ConnectFail(p) \/ Finish(p) \/ Interrupt(p) \/ Receive(p) \/ Lose(p)
      BY <3>1 DEF Build, ConnectFail, Finish, Interrupt, Receive, Lose
    <3>2. CASE ConnectOk(p)
      <4>1. conn' = [conn EXCEPT ![p] = 1]
        BY <3>2 DEF ConnectOk
      <4>2. 1 \in 1..(MaxLosses + 1)
        BY LimitAssumption
      <4> QED BY <4>1, <4>2
    <3>3. ASSUME NEW c \in DOMAIN chunks[p], Timeout(p, c) \/ RedialFail(p, c) PROVE conn' = conn
      BY <3>3 DEF Timeout, RedialFail
    <3>4. ASSUME NEW c \in DOMAIN chunks[p], Resend(p, c)
          PROVE \E k \in 1..(MaxLosses + 1) : conn' = [conn EXCEPT ![p] = k]
      <4> DEFINE k == IF live[p] THEN conn[p] ELSE conn[p] + 1
      <4>1. pc[p] = "running" /\ conn' = [conn EXCEPT ![p] = k]
        BY <3>4 DEF Resend
      <4>2. k \in 1..(MaxLosses + 1)
        <5>1. conn[p] \in 0..(MaxLosses + 1) /\ MaxLosses \in Nat
          BY LimitAssumption DEF IInv, TypeInv
        <5>2. conn[p] # 0 /\ (~live[p] => conn[p] <= MaxLosses)
          BY <4>1 DEF IInv, ProcInv, StageInv
        <5> QED BY <5>1, <5>2
      <4> QED BY <4>1, <4>2
    <3>5. ASSUME NEW k \in DOMAIN pipe[p], Serve(p, k) \/ Hangup(p, k) PROVE conn' = conn
      BY <3>5 DEF Serve, Hangup
    <3> QED BY <1>4, <3>1, <3>2, <3>3, <3>4, <3>5 DEF Later
  <2>3. \A q \in Procs : conn[q] # 0 => conn'[q] # 0
    BY <2>2 DEF IInv, TypeInv
  <2> QED BY <2>1, <2>3 DEF Frame
<1> QED BY <1>1, <1>2, <1>3, <1>4, Steps

\* Results are printed, or Ctrl-C.
LEMMA ExitRead ==
  ASSUME NEW p \in Procs, TypeInv, ProcInv(p), Frame, PlanInv(p), ReadInv(p), Finish(p) \/ Interrupt(p)
  PROVE  PlanInv(p)' /\ ReadInv(p)'
<1>1. ns' = ns /\ conn' = conn /\ pipe' = pipe /\ chunks' = chunks /\ back'[p] = <<>>
  BY DEF Finish, Interrupt, TypeInv
<1>2. CASE Finish(p)
  <2> DEFINE ends == {chunks[p][c].st : c \in DOMAIN chunks[p]}
  <2>1. code'[p] = ExitCode(p)
    BY <1>2 DEF Finish, Exit, TypeInv
  <2>2. ExitCode(p) = 0 /\ Op(p) = "read" => ends = {"ok"}
    <3> HIDE DEF ends
    <3> QED BY DEF ExitCode, ends
  <2>3. ASSUME ends = {"ok"}, NEW c \in DOMAIN chunks[p] PROVE chunks[p][c].st = "ok"
    BY <2>3
  <2> HIDE DEF ends
  <2> QED BY <1>1, <2>1, <2>2, <2>3, ReadKept
<1>3. CASE Interrupt(p)
  <2>1. code'[p] = 130
    BY <1>3 DEF Interrupt, Exit, TypeInv
  <2> QED BY <1>1, <2>1, ReadKept
<1> QED BY <1>2, <1>3

\* An attempt fails.
LEMMA FailRead ==
  ASSUME NEW p \in Procs, TypeInv, ProcInv(p), Frame, PlanInv(p), ReadInv(p),
         Lose(p) \/ \E c \in DOMAIN chunks[p] : Timeout(p, c) \/ RedialFail(p, c)
  PROVE  PlanInv(p)' /\ ReadInv(p)'
<1>0. \A c \in DOMAIN chunks[p] : DOMAIN chunks[p][c] = {"n", "st", "got"}
  BY DEF TypeInv
<1>1. /\ pc[p] = "running" /\ ns' = ns /\ conn' = conn /\ pipe' = pipe /\ code' = code
      /\ back'[p] = back[p] \/ back'[p] = <<>>
  BY DEF Lose, Timeout, RedialFail, TypeInv
<1>2. code'[p] # 0
  BY <1>1, NoneAssumption DEF ProcInv, StageInv
<1>3. ASSUME NEW h, DOMAIN h = {"n", "st", "got"}, NEW res \in {"timeout", "connError"}, NEW got
      PROVE  Ended(p, h, res, got).st # "ok"
  BY <1>3 DEF Ended
<1>4. /\ DOMAIN chunks'[p] = DOMAIN chunks[p]
      /\ \A c \in DOMAIN chunks[p] : chunks'[p][c].st = "ok" => chunks'[p][c] = chunks[p][c]
  <2>1. CASE Lose(p)
    <3>1. chunks'[p] = [c \in DOMAIN chunks[p] |->
                          IF c \in Waiting(p) THEN Ended(p, chunks[p][c], "connError", <<>>)
                          ELSE chunks[p][c]]
      BY <2>1 DEF Lose, TypeInv
    <3>2. \A c \in DOMAIN chunks[p] : Ended(p, chunks[p][c], "connError", <<>>).st # "ok"
      BY <1>0, <1>3
    <3> QED BY <3>1, <3>2
  <2>2. ASSUME NEW c \in DOMAIN chunks[p], Timeout(p, c)
        PROVE  /\ DOMAIN chunks'[p] = DOMAIN chunks[p]
               /\ \A d \in DOMAIN chunks[p] : chunks'[p][d].st = "ok" => chunks'[p][d] = chunks[p][d]
    <3> DEFINE e == Ended(p, chunks[p][c], "timeout", <<>>)
    <3>1. chunks'[p] = [chunks[p] EXCEPT ![c] = e]
      BY <2>2 DEF Timeout, TypeInv
    <3>2. e.st # "ok"
      BY <1>0, <1>3
    <3> HIDE DEF e
    <3> QED BY <3>1, <3>2
  <2>3. ASSUME NEW c \in DOMAIN chunks[p], RedialFail(p, c)
        PROVE  /\ DOMAIN chunks'[p] = DOMAIN chunks[p]
               /\ \A d \in DOMAIN chunks[p] : chunks'[p][d].st = "ok" => chunks'[p][d] = chunks[p][d]
    <3> DEFINE g == [chunks[p][c] EXCEPT !.n = chunks[p][c].n + 1]
    <3>1. DOMAIN g = {"n", "st", "got"}
      BY <1>0
    <3>2. chunks' = [chunks EXCEPT ![p][c] = Ended(p, g, "connError", <<>>)]
      BY <2>3 DEF RedialFail
    <3> HIDE DEF g
    <3>3. chunks'[p] = [chunks[p] EXCEPT ![c] = Ended(p, g, "connError", <<>>)]
      BY <3>2 DEF TypeInv
    <3> DEFINE e == Ended(p, g, "connError", <<>>)
    <3>4. e.st # "ok"
      BY <1>3, <3>1
    <3>5. chunks'[p] = [chunks[p] EXCEPT ![c] = e]
      BY <3>3
    <3> HIDE DEF e
    <3> QED BY <3>4, <3>5
  <2> QED BY <2>1, <2>2, <2>3
<1> QED BY <1>1, <1>2, <1>4, ReadKept

\* A response is received: a read keeps its values.
LEMMA ReceiveRead ==
  ASSUME NEW p \in Procs, TypeInv, ProcInv(p), Frame, PlanInv(p), ReadInv(p), Receive(p)
  PROVE  PlanInv(p)' /\ ReadInv(p)'
<1> DEFINE r == Head(back[p])
           R(g) == IF Resolves(r, g) THEN Ended(p, g, r.res, r.got) ELSE g
<1>0. \A c \in DOMAIN chunks[p] : DOMAIN chunks[p][c] = {"n", "st", "got"}
  BY DEF TypeInv
<1>1. /\ pc[p] = "running" /\ back[p] # <<>> /\ IsSeq(back[p])
      /\ ns' = ns /\ conn' = conn /\ pipe' = pipe /\ code' = code /\ back'[p] = Tail(back[p])
  BY DEF Receive, TypeInv
<1>2. code'[p] # 0
  BY <1>1, NoneAssumption DEF ProcInv, StageInv
<1>3. /\ 1 \in Indices(back[p]) /\ r = back[p][1]
      /\ \A i \in Indices(back'[p]) : \E j \in Indices(back[p]) : back'[p][i] = back[p][j]
  <2>1. /\ 1 \in Indices(back[p]) /\ Head(back[p]) = back[p][1]
        /\ \A i \in Indices(Tail(back[p])) :
             i + 1 \in Indices(back[p]) /\ Tail(back[p])[i] = back[p][i + 1]
    BY <1>1, TakeHead
  <2> QED BY <1>1, <2>1
<1>4. chunks'[p] = [chunks[p] EXCEPT ![r.c] = R(chunks[p][r.c])]
  <2>1. chunks' = [chunks EXCEPT ![p][r.c] = R(chunks[p][r.c])]
    BY DEF Receive
  <2> HIDE DEF r, R
  <2> QED BY <2>1 DEF TypeInv
<1> HIDE DEF r
<1>5. ASSUME Op(p) = "read", NEW c \in DOMAIN chunks'[p], chunks'[p][c].st = "ok"
      PROVE  Snapshot(c, chunks'[p][c].got)
  <2>1. c \in DOMAIN chunks[p]
    BY <1>4
  <2>2. CASE chunks'[p][c] = chunks[p][c]
    BY <1>5, <2>1, <2>2 DEF ReadInv
  <2>3. CASE c = r.c /\ Resolves(r, chunks[p][c])
    <3>1. chunks'[p][c] = Ended(p, chunks[p][c], r.res, r.got)
      BY <1>4, <2>1, <2>3
    <3>2. r.res = "ok" /\ chunks'[p][c].got = r.got
      BY <1>0, <1>5, <2>1, <3>1 DEF Ended
    <3> QED BY <1>3, <1>5, <2>3, <3>2 DEF ReadInv
  <2> QED BY <1>4, <2>1, <2>2, <2>3
<1>6. Op(p) = "read" => \A i \in Indices(back'[p]) : back'[p][i].res = "ok" =>
                          Snapshot(back'[p][i].c, back'[p][i].got)
  BY <1>3 DEF ReadInv
<1>7. /\ conn'[p] # 0 => ns[p].start \in Int /\ Count(p) \in Int
      /\ \A k \in 1..(MaxLosses + 1) : \A i \in Indices(pipe'[p][k]) : pipe'[p][k][i].c \in Requests(p)
  BY <1>1 DEF PlanInv
<1> QED BY <1>1, <1>2, <1>5, <1>6, <1>7, ReadStep
\* The requests are sent.
LEMMA ConnectRead ==
  ASSUME NEW p \in Procs, TypeInv, ProcInv(p), Frame, PlanInv(p), ConnectOk(p)
  PROVE  PlanInv(p)' /\ ReadInv(p)'
<1>1. ns'[p] = ns[p] /\ ns[p].start \in Int /\ Count(p) \in Int
  BY DEF ConnectOk, ProcInv, StageInv
<1>2. /\ \A k \in 1..(MaxLosses + 1) : \A i \in Indices(pipe'[p][k]) : pipe'[p][k][i].c \in Requests(p)
      /\ back'[p] = <<>> /\ code'[p] # 0
      /\ \A c \in DOMAIN chunks'[p] : chunks'[p][c].st = "waiting"
  BY ConnectStep
<1>3. Op(p) = "read" =>
        /\ \A i \in Indices(back'[p]) : back'[p][i].res = "ok" =>
             Snapshot(back'[p][i].c, back'[p][i].got)
        /\ \A c \in DOMAIN chunks'[p] : chunks'[p][c].st = "ok" => Snapshot(c, chunks'[p][c].got)
        /\ code'[p] = 0 => \A c \in DOMAIN chunks'[p] : chunks'[p][c].st = "ok"
  BY <1>2, EmptyQueue
<1> QED BY <1>1, <1>2, <1>3, ReadStep

\* A request is sent again.
LEMMA ResendRead ==
  ASSUME NEW p \in Procs, TypeInv, ProcInv(p), Frame, PlanInv(p), ReadInv(p),
         NEW c \in DOMAIN chunks[p], Resend(p, c)
  PROVE  PlanInv(p)' /\ ReadInv(p)'
<1> DEFINE k == IF live[p] THEN conn[p] ELSE conn[p] + 1
           n == chunks[p][c].n + 1
           e == [c |-> c, n |-> n]
           g == [chunks[p][c] EXCEPT !.st = "waiting", !.n = n]
<1>1. /\ pc[p] = "running" /\ ns' = ns /\ code' = code /\ back' = back
      /\ pipe' = [pipe EXCEPT ![p][k] = Append(pipe[p][k], e)]
      /\ chunks' = [chunks EXCEPT ![p][c] = g]
  BY DEF Resend
<1>2. g.st = "waiting"
  <2>1. DOMAIN chunks[p][c] = {"n", "st", "got"}
    BY DEF TypeInv
  <2> HIDE DEF n
  <2> QED BY <2>1
<1>3. conn[p] # 0 /\ code'[p] # 0 /\ c \in Requests(p)
  BY <1>1, NoneAssumption DEF ProcInv, StageInv
<1>4. e.c = c
  OBVIOUS
<1> HIDE DEF e, g, k
<1>5. \A m \in 1..(MaxLosses + 1) : \A i \in Indices(pipe'[p][m]) : pipe'[p][m][i].c \in Requests(p)
  <2> SUFFICES ASSUME NEW m \in 1..(MaxLosses + 1), NEW i \in Indices(pipe'[p][m])
               PROVE  pipe'[p][m][i].c \in Requests(p)
    OBVIOUS
  <2>1. pipe'[p][m] = IF m = k THEN Append(pipe[p][m], e) ELSE pipe[p][m]
    BY <1>1 DEF TypeInv
  <2>2. CASE pipe'[p][m] = pipe[p][m]
    BY <2>2 DEF PlanInv
  <2>3. CASE pipe'[p][m] = Append(pipe[p][m], e)
    <3> DEFINE s == pipe[p][m]
    <3>1. IsSeq(s)
      BY DEF TypeInv
    <3>2. \A x \in Indices(s) : s[x].c \in Requests(p)
      BY DEF PlanInv
    <3>3. pipe'[p][m] = Append(s, e)
      BY <2>3
    <3> HIDE DEF s
    <3>4. /\ Append(s, e)[Len(s) + 1] = e
          /\ \A x \in Indices(s) : Append(s, e)[x] = s[x]
          /\ \A x \in Indices(Append(s, e)) : x \in Indices(s) \/ x = Len(s) + 1
      BY <3>1, PutLast
    <3> QED BY <1>3, <1>4, <3>2, <3>3, <3>4
  <2> QED BY <2>1, <2>2, <2>3
<1>6. chunks'[p] = [chunks[p] EXCEPT ![c] = g]
  BY <1>1 DEF TypeInv
<1>7. \A d \in DOMAIN chunks'[p] : d \in DOMAIN chunks[p] /\ (chunks'[p][d] = chunks[p][d] \/ chunks'[p][d] = g)
  BY <1>6
<1>8. Op(p) = "read" =>
        /\ \A i \in Indices(back'[p]) : back'[p][i].res = "ok" =>
             Snapshot(back'[p][i].c, back'[p][i].got)
        /\ \A d \in DOMAIN chunks'[p] : chunks'[p][d].st = "ok" => Snapshot(d, chunks'[p][d].got)
  BY <1>1, <1>2, <1>7 DEF ReadInv
<1>9. ns[p].start \in Int /\ Count(p) \in Int
  BY <1>3 DEF PlanInv
<1> QED BY <1>1, <1>3, <1>5, <1>8, <1>9, ReadStep

\* A write leaves every range of units to its writer, or it cuts the range.
LEMMA WriteMem ==
  ASSUME NEW p \in Procs, Frame, MemInv, conn[p] # 0, PlanInv(p), NEW c \in Requests(p),
         mem' = Written(p, c)
  PROVE  MemInv'
<1> SUFFICES ASSUME NEW area, NEW W PROVE Untorn(W, Held(area, W))'
  BY DEF MemInv
<1>1. /\ DOMAIN mem' = Cells(p, c) \cup DOMAIN mem
      /\ \A x \in Cells(p, c) : mem'[x].by = p
      /\ \A x \in DOMAIN mem \ Cells(p, c) : mem'[x] = mem[x]
  BY DEF Written, ++
<1>2. \A x : x \in Cells(p, c) <=> \E a \in Units(c) : x = <<Area(p), a>>
  BY DEF Cells
<1> DEFINE S == {mem'[x].by : x \in ({area} \X W) \cap DOMAIN mem'}
<1>3. CASE area # Area(p) \/ Units(c) \cap W = {}
  <2>1. ASSUME NEW x \in {area} \X W PROVE x \notin Cells(p, c)
    BY <1>2, <1>3
  <2>2. ({area} \X W) \cap DOMAIN mem' = ({area} \X W) \cap DOMAIN mem
    BY <1>1, <2>1
  <2>3. S = Held(area, W)
    BY <1>1, <2>1, <2>2 DEF Held
  <2>4. Untorn(W, S)
    BY <2>3 DEF MemInv
  <2> HIDE DEF S
  <2>5. \E T : T = S /\ Untorn(W, T)
    BY <2>4
  <2>6. PICK T : T = S /\ Untorn(W, T)
    BY <2>5
  <2>7. Untorn(W, T)'
    BY <2>6, UntornKept
  <2> QED BY <2>6, <2>7 DEF S, Untorn, Held
<1>4. CASE area = Area(p) /\ Units(c) \cap W # {}
  <2>1. PICK a : a \in Units(c) \cap W
    BY <1>4
  <2>2. p \in S
    <3>1. <<area, a>> \in Cells(p, c)
      BY <1>2, <1>4, <2>1
    <3>2. <<area, a>> \in ({area} \X W) \cap DOMAIN mem' /\ mem'[<<area, a>>].by = p
      BY <1>1, <2>1, <3>1
    <3> QED BY <3>2
  <2>3. CASE Cuts(p, W)
    <3>1. Cuts(p, W)'
      BY <2>3, CutsKept
    <3> HIDE DEF S
    <3>2. Held(area, W)' = S
      BY DEF Held, S
    <3> QED BY <2>2, <3>1, <3>2 DEF Untorn
  <2>4. CASE ~Cuts(p, W)
    <3>1. PICK j \in Values(p) : Window(p, j) = W /\ OneRequest(p, j)
      BY <2>4 DEF Cuts, WritesWhole
    <3>2. ns[p].start \in Int /\ Count(p) \in Int
      BY DEF PlanInv
    <3>3. W \subseteq Units(c)
      BY <2>1, <3>1, <3>2, WindowInPiece
    <3>4. ASSUME NEW x \in {area} \X W PROVE mem'[x].by = p
      BY <1>1, <1>2, <1>4, <3>3
    <3>5. \A v \in S : v = p
      BY <3>4
    <3> HIDE DEF S
    <3>6. Held(area, W)' = S
      BY DEF Held, S
    <3> QED BY <3>5, <3>6 DEF Untorn
  <2> QED BY <2>3, <2>4
<1> QED BY <1>3, <1>4

\* Steps that do not write keep the memory.
LEMMA MemKept ==
  ASSUME Frame, MemInv, mem' = mem
  PROVE  MemInv'
<1> SUFFICES ASSUME NEW area, NEW W PROVE Untorn(W, Held(area, W))'
  BY DEF MemInv
<1>1. PICK S : S = Held(area, W)
  OBVIOUS
<1>2. Untorn(W, S)'
  BY <1>1, UntornKept DEF MemInv
<1>3. Held(area, W)' = S
  BY <1>1 DEF Held
<1> QED BY <1>2, <1>3 DEF Untorn

\* The simulator serves a request: a read sees what the memory holds.
LEMMA ServeRead ==
  ASSUME NEW p \in Procs, TypeInv, ProcInv(p), Frame, MemInv, PlanInv(p), ReadInv(p),
         NEW k \in DOMAIN pipe[p], Serve(p, k)
  PROVE  MemInv' /\ PlanInv(p)' /\ ReadInv(p)'
<1> DEFINE r == Head(pipe[p][k])
           t == Tail(pipe[p][k])
           applied == Op(p) = "write" /\ ~Denied(p)
           answers == live[p] /\ k = conn[p]
           y == Response(p, r)
<1>1. /\ k \in 1..(MaxLosses + 1) /\ pipe[p][k] # <<>> /\ IsSeq(pipe[p][k]) /\ IsSeq(back[p])
      /\ ns' = ns /\ code' = code /\ chunks' = chunks /\ conn' = conn
      /\ pipe' = [pipe EXCEPT ![p][k] = t]
      /\ mem' = IF applied THEN Written(p, r.c) ELSE mem
      /\ back' = IF answers THEN [back EXCEPT ![p] = Append(back[p], y)] ELSE back
  BY DEF Serve, TypeInv
<1>2. /\ 1 \in Indices(pipe[p][k]) /\ r = pipe[p][k][1]
      /\ \A i \in Indices(t) : i + 1 \in Indices(pipe[p][k]) /\ t[i] = pipe[p][k][i + 1]
  BY <1>1, TakeHead
<1>3. r.c \in Requests(p) /\ \A i \in Indices(t) : t[i].c \in Requests(p)
  BY <1>1, <1>2 DEF PlanInv
<1>4. conn[p] # 0
  BY <1>1, LimitAssumption DEF ProcInv, StageInv, TypeInv
<1>5. ASSUME Op(p) = "read", y.res = "ok" PROVE Snapshot(y.c, y.got)
  <2>1. Readable(p, r.c) /\ y.c = r.c /\ y.got = [a \in Units(r.c) |-> mem[<<Area(p), a>>].by]
    BY <1>5 DEF Response
  <2> SUFFICES ASSUME NEW W \in SUBSET Units(r.c) PROVE Untorn(W, {y.got[a] : a \in W})
    BY <2>1 DEF Snapshot
  <2>2. \A a \in W : y.got[a] = mem[<<Area(p), a>>].by /\ <<Area(p), a>> \in DOMAIN mem
    BY <2>1 DEF Readable, Cells
  <2> HIDE DEF y
  <2>3. {y.got[a] : a \in W} = Held(Area(p), W)
    <3> DEFINE A == Area(p)
    <3>1. \A a \in W : y.got[a] = mem[<<A, a>>].by /\ <<A, a>> \in DOMAIN mem
      BY <2>2
    <3> HIDE DEF A
    <3>2. {y.got[a] : a \in W} \subseteq Held(A, W)
      BY <3>1 DEF Held
    <3>3. Held(A, W) \subseteq {y.got[a] : a \in W}
      <4> SUFFICES ASSUME NEW x \in ({A} \X W) \cap DOMAIN mem
                   PROVE  mem[x].by \in {y.got[a] : a \in W}
        BY DEF Held
      <4>1. PICK a \in W : x = <<A, a>>
        OBVIOUS
      <4> QED BY <3>1, <4>1
    <3> QED BY <3>2, <3>3 DEF A
  <2> QED BY <2>3 DEF MemInv
<1> HIDE DEF r, t, y, answers
<1>6. MemInv'
  <2>1. CASE applied
    BY <1>1, <1>3, <1>4, <2>1, WriteMem
  <2>2. CASE ~applied
    BY <1>1, <2>2, MemKept
  <2> QED BY <2>1, <2>2
<1>7. \A m \in 1..(MaxLosses + 1) : \A i \in Indices(pipe'[p][m]) : pipe'[p][m][i].c \in Requests(p)
  <2>1. \A m \in 1..(MaxLosses + 1) : pipe'[p][m] = IF m = k THEN t ELSE pipe[p][m]
    BY <1>1 DEF TypeInv
  <2> QED BY <1>3, <2>1 DEF PlanInv
<1>8. \A i \in Indices(back'[p]) : (i \in Indices(back[p]) /\ back'[p][i] = back[p][i]) \/ back'[p][i] = y
  <2>1. CASE answers
    <3>1. back'[p] = Append(back[p], y)
      BY <1>1, <2>1 DEF TypeInv
    <3>2. /\ Append(back[p], y)[Len(back[p]) + 1] = y
          /\ \A i \in Indices(back[p]) : Append(back[p], y)[i] = back[p][i]
          /\ \A i \in Indices(Append(back[p], y)) : i \in Indices(back[p]) \/ i = Len(back[p]) + 1
      BY <1>1, PutLast
    <3> QED BY <3>1, <3>2
  <2>2. CASE ~answers
    BY <1>1, <2>2
  <2> QED BY <2>1, <2>2
<1>9. Op(p) = "read" =>
        /\ \A i \in Indices(back'[p]) : back'[p][i].res = "ok" =>
             Snapshot(back'[p][i].c, back'[p][i].got)
        /\ \A c \in DOMAIN chunks'[p] : chunks'[p][c].st = "ok" => Snapshot(c, chunks'[p][c].got)
        /\ code'[p] = 0 => \A c \in DOMAIN chunks'[p] : chunks'[p][c].st = "ok"
  BY <1>1, <1>5, <1>8 DEF ReadInv
<1>10. ns[p].start \in Int /\ Count(p) \in Int
  BY <1>4 DEF PlanInv
<1> QED BY <1>1, <1>6, <1>7, <1>9, <1>10, ReadStep
\* Steps of p that keep the memory and what the others have on the way.
LEMMA OneStep ==
  ASSUME NEW p \in Procs, Frame, TornInv, Only(p), MemInv', PlanInv(p)', ReadInv(p)'
  PROVE  TornInv'
<1>1. ASSUME NEW q \in Procs, q # p PROVE PlanInv(q)' /\ ReadInv(q)'
  <2>1. /\ ns'[q] = ns[q] /\ code'[q] = code[q] /\ chunks'[q] = chunks[q]
        /\ conn'[q] = conn[q] /\ pipe'[q] = pipe[q] /\ back'[q] = back[q]
    BY <1>1 DEF Only
  <2>2. PlanInv(q) /\ ReadInv(q)
    BY DEF TornInv
  <2>3. code'[q] = 0 /\ Op(q) = "read" => \A c \in DOMAIN chunks'[q] : chunks'[q][c].st = "ok"
    BY <2>1, <2>2 DEF ReadInv
  <2> QED BY <2>1, <2>2, <2>3, ReadKept
<1> QED BY <1>1 DEF TornInv

\* Every step keeps the registers of a value together.
LEMMA TornStep ==
  ASSUME IInv, TornInv, [Next]_vars
  PROVE  TornInv'
<1>1. Frame
  BY StepFrame
<1>2. TypeInv /\ MemInv /\ \A p \in Procs : ProcInv(p) /\ PlanInv(p) /\ ReadInv(p)
  BY DEF IInv, TornInv
<1>3. ASSUME mem' = mem PROVE MemInv'
  BY <1>1, <1>2, <1>3, MemKept
<1>4. ASSUME UNCHANGED <<mem, ns, code, chunks, conn, back>>,
             \A p \in Procs : \A k \in 1..(MaxLosses + 1) : pipe'[p][k] = pipe[p][k] \/ pipe'[p][k] = <<>>
      PROVE  TornInv'
  <2>1. ASSUME NEW p \in Procs PROVE PlanInv(p)' /\ ReadInv(p)'
    <3>1. code'[p] = 0 /\ Op(p) = "read" => \A c \in DOMAIN chunks'[p] : chunks'[p][c].st = "ok"
      BY <1>2, <1>4 DEF ReadInv
    <3> QED BY <1>1, <1>2, <1>4, <3>1, ReadKept
  <2> QED BY <1>3, <1>4, <2>1 DEF TornInv
<1>5. CASE UNCHANGED vars
  BY <1>4, <1>5 DEF vars
<1>6. CASE StopServe
  <2>1. UNCHANGED <<mem, ns, code, chunks, conn, back>>
    BY <1>6 DEF StopServe
  <2>2. \A p \in Procs : \A k \in 1..(MaxLosses + 1) : pipe'[p][k] = <<>>
    BY <1>2, <1>6 DEF StopServe, TypeInv
  <2> QED BY <1>4, <2>1, <2>2
<1>7. ASSUME NEW p \in Procs, Only(p), mem' = mem, PlanInv(p)', ReadInv(p)' PROVE TornInv'
  BY <1>1, <1>3, <1>7, OneStep
<1>8. ASSUME NEW p \in Procs, Parse(p) \/ Guide(p) PROVE TornInv'
  <2>1. Only(p)
    BY <1>2, <1>8, ParseStep, GuideStage
  <2>2. pc[p] = "start" /\ UNCHANGED <<mem, chunks, conn, pipe, back>>
    BY <1>8 DEF Parse, Guide, server
  <2>3. conn[p] = 0
    BY <1>2, <2>2 DEF ProcInv, StageInv
  <2>4. PlanInv(p)' /\ ReadInv(p)'
    BY <1>2, <2>2, <2>3, UnconnectedRead
  <2> QED BY <1>7, <2>1, <2>2, <2>4
<1>9. ASSUME NEW p \in Procs, Later(p) PROVE TornInv'
  <2>1. CASE Build(p) \/ ConnectFail(p)
    <3>1. Only(p)
      BY <1>2, <2>1, BuildStep
    <3>2. pc[p] \in {"parsed", "dialling"} /\ UNCHANGED <<mem, chunks, conn, pipe, back>>
      BY <2>1 DEF Build, ConnectFail, server
    <3>3. conn[p] = 0
      BY <1>2, <3>2 DEF ProcInv, StageInv
    <3>4. PlanInv(p)' /\ ReadInv(p)'
      BY <1>2, <3>2, <3>3, UnconnectedRead
    <3> QED BY <1>7, <3>1, <3>2, <3>4
  <2>2. CASE ConnectOk(p)
    <3>1. Only(p) /\ mem' = mem /\ PlanInv(p)' /\ ReadInv(p)'
      BY <1>1, <1>2, <2>2, ConnectStep, ConnectRead DEF ConnectOk, server
    <3> QED BY <1>7, <3>1
  <2>3. CASE Finish(p) \/ Interrupt(p)
    <3>1. Only(p) /\ mem' = mem /\ PlanInv(p)' /\ ReadInv(p)'
      BY <1>1, <1>2, <2>3, ExitStep, ExitRead DEF Finish, Interrupt, server
    <3> QED BY <1>7, <3>1
  <2>4. CASE Receive(p)
    <3>1. Only(p) /\ mem' = mem /\ PlanInv(p)' /\ ReadInv(p)'
      BY <1>1, <1>2, <2>4, ReceiveStep, ReceiveRead DEF Receive, server
    <3> QED BY <1>7, <3>1
  <2>5. CASE Lose(p) \/ \E c \in DOMAIN chunks[p] : Timeout(p, c) \/ RedialFail(p, c)
    <3>1. Only(p) /\ PlanInv(p)' /\ ReadInv(p)'
      BY <1>1, <1>2, <2>5, FailStep, FailRead
    <3>2. mem' = mem
      BY <2>5 DEF Lose, Timeout, RedialFail, server
    <3> QED BY <1>7, <3>1, <3>2
  <2>6. ASSUME NEW c \in DOMAIN chunks[p], Resend(p, c) PROVE TornInv'
    <3>1. Only(p) /\ mem' = mem /\ PlanInv(p)' /\ ReadInv(p)'
      BY <1>1, <1>2, <2>6, ResendStep, ResendRead DEF Resend, server
    <3> QED BY <1>7, <3>1
  <2>7. ASSUME NEW k \in DOMAIN pipe[p], Serve(p, k) PROVE TornInv'
    <3>1. Only(p)
      BY <1>2, <2>7, ServeStep
    <3>2. MemInv' /\ PlanInv(p)' /\ ReadInv(p)'
      BY <1>1, <1>2, <2>7, ServeRead
    <3> QED BY <1>1, <3>1, <3>2, OneStep
  <2>8. ASSUME NEW k \in DOMAIN pipe[p], Hangup(p, k) PROVE TornInv'
    <3>1. UNCHANGED <<mem, ns, code, chunks, conn, back>>
      BY <2>8 DEF Hangup, server
    <3>2. \A q \in Procs : \A m \in 1..(MaxLosses + 1) : pipe'[q][m] = pipe[q][m] \/ pipe'[q][m] = <<>>
      BY <1>2, <2>8 DEF Hangup, TypeInv
    <3> QED BY <1>4, <3>1, <3>2
  <2> QED BY <1>9, <2>1, <2>2, <2>3, <2>4, <2>5, <2>6, <2>7, <2>8 DEF Later
<1> QED BY <1>5, <1>6, <1>8, <1>9, Steps

\* What the invariant says of a finished read.
LEMMA ReadUntorn ==
  ASSUME IInv, TornInv, NEW p \in Procs, Op(p) = "read", code[p] = 0, DOMAIN chunks[p] # {},
         NEW k \in Values(p), OneRequest(p, k)
  PROVE  LET seen == UNION {{chunks[p][c].got[a] : a \in Units(c) \cap Window(p, k)} :
                              c \in DOMAIN chunks[p]}
         IN Cardinality(seen) = 1 \/ \E q \in seen \cap Procs : ~WritesWhole(q, Window(p, k))
<1> DEFINE W == Window(p, k)
           S(c) == {chunks[p][c].got[a] : a \in Units(c) \cap W}
           seen == UNION {S(c) : c \in DOMAIN chunks[p]}
           s == ns[p].start
           e == s + Count(p)
           L == Limit(p)
           b == s + (k - 1) * Width(p)
<1>1. DOMAIN chunks[p] = Requests(p) /\ s \in Int /\ Count(p) \in Int
  BY DEF IInv, ProcInv, StageInv, TornInv, PlanInv
<1>2. b \in W /\ b \in s..(e - 1) /\ L \in Nat \ {0} /\ e \in Int
  <2>1. /\ (k - 1) * Width(p) \in Nat /\ k * Width(p) - 1 \in Nat
        /\ (k - 1) * Width(p) <= k * Width(p) - 1 /\ k * Width(p) <= Count(p)
        /\ \A a : a \in Window(p, k) <=>
             a \in Int /\ a - ns[p].start \in ((k - 1) * Width(p))..(k * Width(p) - 1)
    BY <1>1, WindowUnits
  <2> DEFINE lo == (k - 1) * Width(p)
             hi == k * Width(p)
  <2>2. /\ lo \in Nat /\ hi - 1 \in Nat /\ lo <= hi - 1 /\ hi <= Count(p) /\ hi \in Int
        /\ \A a : a \in W <=> a \in Int /\ a - s \in lo..(hi - 1)
    <3>1. hi \in Int
      BY Sizes DEF Values
    <3> QED BY <2>1, <3>1
  <2>3. b = s + lo /\ e = s + Count(p) /\ L \in Nat \ {0}
    BY Sizes
  <2> HIDE DEF lo, hi, b, e, s, W, L
  <2> QED BY <1>1, <2>2, <2>3
<1> HIDE DEF b
<1>3. PICK c \in Requests(p) : b \in Units(c)
  <2>1. Requests(p) = Pieces(s, e, L)
    BY DEF Requests
  <2>2. \A c : Units(c) = Span(c)
    BY DEF Units, Span
  <2> HIDE DEF s, e, L
  <2> QED BY <1>1, <1>2, <2>1, <2>2, PieceOf
<1>4. W \subseteq Units(c)
  BY <1>1, <1>2, <1>3, WindowInPiece
<1>5. ASSUME NEW d \in Requests(p), Units(d) \cap W # {} PROVE d = c
  <2>1. PICK a : a \in Units(d) \cap W
    BY <1>5
  <2>2. W \subseteq Units(d)
    BY <1>1, <2>1, WindowInPiece
  <2>3. /\ (b - s) \div L = (c.from - s) \div L
        /\ (b - s) \div L = (d.from - s) \div L
    BY <1>1, <1>2, <1>3, <2>2, WindowInPiece
  <2>4. c \in Pieces(s, e, L) /\ d \in Pieces(s, e, L)
    BY DEF Requests
  <2> HIDE DEF s, e, L
  <2>5. /\ c.from = s + ((c.from - s) \div L) * L
        /\ d.from = s + ((d.from - s) \div L) * L
    BY <1>1, <1>2, <2>4, PieceUnits
  <2>6. c.from = d.from
    BY <2>3, <2>5
  <2> QED BY <1>1, <1>2, <2>4, <2>6, PiecesDiffer
<1> DEFINE got == chunks[p][c].got
           T == {got[a] : a \in W}
<1>6. seen = T
  <2>1. S(c) = T
    <3>1. Units(c) \cap W = W
      BY <1>4
    <3> QED BY <3>1
  <2>2. \A d \in Requests(p) : d # c => S(d) = {}
    BY <1>5
  <2> HIDE DEF S, T
  <2> QED BY <1>1, <1>3, <2>1, <2>2
<1>7. Untorn(W, T)
  <2>1. chunks[p][c].st = "ok"
    BY <1>1, <1>3 DEF TornInv, ReadInv
  <2>2. Snapshot(c, got)
    BY <1>1, <1>3, <2>1 DEF TornInv, ReadInv
  <2> HIDE DEF got, W
  <2> QED BY <1>4, <2>2 DEF Snapshot
<1>8. got[b] \in T
  BY <1>2
<1> HIDE DEF T, got, W
<1>9. CASE \A v, w \in T : v = w
  <2>1. T = {got[b]}
    BY <1>8, <1>9
  <2>2. Cardinality(T) = 1
    BY <2>1, FS_Singleton
  <2> QED BY <1>6, <2>2 DEF W
<1>10. CASE \E q \in T \cap Procs : Cuts(q, W)
  BY <1>6, <1>10 DEF Cuts, W
<1> QED BY <1>7, <1>9, <1>10 DEF Untorn

\* For any number of commands, plans, layouts and losses: a value read with
\* success, by one request, is of one writer, unless a writer of it had cut or
\* displaced it.
THEOREM ValuesUntorn == Spec => []TornOnlyAcrossRequests
<1>1. Init => TornInv
  <2> SUFFICES ASSUME Init PROVE TornInv
    OBVIOUS
  <2>1. \A x \in DOMAIN mem : mem[x].by = None
    BY ScenarioAssumption DEF Init, BuildSimState, ++
  <2>2. MemInv
    BY <2>1 DEF MemInv, Untorn, Held
  <2>3. ASSUME NEW p \in Procs PROVE PlanInv(p) /\ ReadInv(p)
    <3>1. /\ conn[p] = 0 /\ back[p] = <<>> /\ chunks[p] = <<>> /\ code[p] = None
          /\ \A k \in 1..(MaxLosses + 1) : pipe[p][k] = <<>>
      BY <2>3 DEF Init
    <3>2. DOMAIN <<>> = {} /\ None # 0
      BY NoneAssumption
    <3> QED BY <3>1, <3>2, EmptyQueue DEF PlanInv, ReadInv
  <2> QED BY <2>2, <2>3 DEF TornInv
<1>2. IInv /\ TornInv /\ [Next]_vars => TornInv'
  BY TornStep
<1>3. IInv /\ TornInv => TornOnlyAcrossRequests
  BY ReadUntorn, Zenon DEF TornOnlyAcrossRequests, WritesWhole
<1> QED BY <1>1, <1>2, <1>3, Invariance, PTL DEF Spec
=============================================================================
