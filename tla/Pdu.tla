-------------------------------- MODULE Pdu --------------------------------
(***************************************************************************)
(* pymod.protocol.pdu: the client's and the server's codecs for the eight  *)
(* standard function codes, as functions between requests and sequences of *)
(* bytes.                                                                  *)
(*                                                                         *)
(* A request is a record [fc, start, arg]; arg is the count of a read, the *)
(* value of a single write, or the sequence of values of a multiple write. *)
(* A coil's value is 0 or 1.                                               *)
(***************************************************************************)
EXTENDS Integers, Sequences, FiniteSetsExt

BitReads == {1, 2}
RegisterReads == {3, 4}
Reads == BitReads \cup RegisterReads
WriteCoil == 5
WriteRegister == 6
WriteCoils == 15
WriteRegisters == 16
MultipleWrites == {WriteCoils, WriteRegisters}
FunctionCodes == Reads \cup {WriteCoil, WriteRegister} \cup MultipleWrites

\* MAX_READ_COILS and the other limits.
MaxCount == [fc \in Reads \cup MultipleWrites |->
               CASE fc \in BitReads -> 2000 [] fc \in RegisterReads -> 125
                 [] fc = WriteCoils -> 1968 [] fc = WriteRegisters -> 123]

ADDRESS_MAX == 65535
Words == 0..65535
COIL_ON == 65280
COIL_OFF == 0

IllegalFunction == 1
IllegalDataAddress == 2
IllegalDataValue == 3

-----------------------------------------------------------------------------
(* Bytes *)

\* struct's ">H" at position i of s.
U16(n) == <<n \div 256, n % 256>>
U16At(s, i) == s[i] * 256 + s[i + 1]

BytesFor(bits) == (bits + 7) \div 8

\* Bit i goes to bit i % 8 of byte i // 8.
PackBits(bits) ==
  [b \in 1..BytesFor(Len(bits)) |->
     MapThenSumSet(LAMBDA i : bits[8 * (b - 1) + i + 1] * 2^i,
                   {i \in 0..7 : 8 * (b - 1) + i < Len(bits)})]

UnpackBits(data, count) ==
  [i \in 1..count |-> (data[(i - 1) \div 8 + 1] \div 2^((i - 1) % 8)) % 2]

PackRegisters(values) ==
  [i \in 1..(2 * Len(values)) |-> LET v == values[(i + 1) \div 2] IN
                                   IF i % 2 = 1 THEN v \div 256 ELSE v % 256]

UnpackRegisters(data) == [i \in 1..(Len(data) \div 2) |-> U16At(data, 2 * i - 1)]

Pack(fc, values) == IF fc \in BitReads \cup {WriteCoils} THEN PackBits(values)
                    ELSE PackRegisters(values)

Unpack(fc, data, count) == IF fc \in BitReads \cup {WriteCoils} THEN UnpackBits(data, count)
                           ELSE UnpackRegisters(data)

ByteCount(fc, count) == IF fc \in BitReads \cup {WriteCoils} THEN BytesFor(count)
                        ELSE 2 * count

CodedCoil(bit) == IF bit = 1 THEN COIL_ON ELSE COIL_OFF

Rest(pdu, n) == SubSeq(pdu, n, Len(pdu))

-----------------------------------------------------------------------------
(* Requests *)

CountOf(q) == CASE q.fc \in Reads -> q.arg
                [] q.fc \in MultipleWrites -> Len(q.arg)
                [] OTHER -> 1

\* The checks of the encoders; ValueError otherwise.
Encodable(q) ==
  /\ q.start \in 0..ADDRESS_MAX
  /\ q.fc \in Reads \cup MultipleWrites => CountOf(q) \in 1..MaxCount[q.fc]
  /\ q.fc = WriteRegister => q.arg \in Words
  /\ q.fc = WriteRegisters => \A i \in DOMAIN q.arg : q.arg[i] \in Words

EncodeRequest(q) ==
  <<q.fc>> \o U16(q.start) \o
    CASE q.fc \in Reads -> U16(q.arg)
      [] q.fc = WriteCoil -> U16(CodedCoil(q.arg))
      [] q.fc = WriteRegister -> U16(q.arg)
      [] q.fc \in MultipleWrites -> U16(CountOf(q)) \o <<ByteCount(q.fc, CountOf(q))>>
                                      \o Pack(q.fc, q.arg)

\* Fault: the server's limit is one lower than the client's.
WellFormed_LimitOffByOne(pdu) ==
  LET fc == pdu[1] IN
  IF fc \in MultipleWrites
  THEN /\ Len(pdu) >= 6
       /\ U16At(pdu, 4) \in 1..(MaxCount[fc] - 1)
       /\ pdu[6] = ByteCount(fc, U16At(pdu, 4))
       /\ Len(pdu) = 6 + pdu[6]
  ELSE /\ Len(pdu) = 5
       /\ fc \in Reads => U16At(pdu, 4) \in 1..(MaxCount[fc] - 1)
       /\ fc = WriteCoil => U16At(pdu, 4) \in {COIL_ON, COIL_OFF}

\* The checks of the server's decoders; IllegalDataValue otherwise.
WellFormed(pdu) ==
  LET fc == pdu[1] IN
  IF fc \in MultipleWrites
  THEN /\ Len(pdu) >= 6
       /\ U16At(pdu, 4) \in 1..MaxCount[fc]
       /\ pdu[6] = ByteCount(fc, U16At(pdu, 4))
       /\ Len(pdu) = 6 + pdu[6]
  ELSE /\ Len(pdu) = 5
       /\ fc \in Reads => U16At(pdu, 4) \in 1..MaxCount[fc]
       /\ fc = WriteCoil => U16At(pdu, 4) \in {COIL_ON, COIL_OFF}

DecodeRequest(pdu) ==
  LET fc == pdu[1]
      word == U16At(pdu, 4)
  IN [fc |-> fc, start |-> U16At(pdu, 2),
      arg |-> CASE fc \in MultipleWrites -> Unpack(fc, Rest(pdu, 7), word)
                [] fc = WriteCoil -> IF word = COIL_ON THEN 1 ELSE 0
                [] OTHER -> word]

-----------------------------------------------------------------------------
(* Responses *)

\* Reads return their values, single writes echo the request, multiple writes
\* its address and count.
EncodeResponse(q, values) ==
  IF q.fc \in Reads
  THEN LET body == Pack(q.fc, values) IN <<q.fc, Len(body)>> \o body
  ELSE <<q.fc>> \o U16(q.start) \o
         CASE q.fc = WriteCoil -> U16(CodedCoil(q.arg))
           [] q.fc = WriteRegister -> U16(q.arg)
           [] OTHER -> U16(CountOf(q))

ExceptionBit(fc) == IF fc >= 128 THEN fc ELSE fc + 128

EncodeException(fc, code) == <<ExceptionBit(fc), code>>

\* What the client makes of a response to q: its values, the slave's exception,
\* or a protocol error.  The echo of a write is decoded and not compared.
ProtocolError == [kind |-> "protocolError", value |-> <<>>]

DecodeResponse(q, pdu) ==
  LET payload ==
        IF q.fc \in Reads
        THEN IF Len(pdu) >= 2 /\ pdu[2] = ByteCount(q.fc, q.arg) /\ Len(pdu) = 2 + pdu[2]
             THEN [kind |-> "ok", value |-> Unpack(q.fc, Rest(pdu, 3), q.arg)]
             ELSE ProtocolError
        ELSE IF /\ Len(pdu) = 5
                /\ q.fc = WriteCoil => U16At(pdu, 4) \in {COIL_ON, COIL_OFF}
             THEN [kind |-> "ok", value |-> <<U16At(pdu, 2), U16At(pdu, 4)>>]
             ELSE ProtocolError
  IN CASE pdu = <<>> -> ProtocolError
       [] pdu[1] = q.fc -> payload
       [] pdu[1] = ExceptionBit(q.fc) /\ Len(pdu) >= 2 ->
            [kind |-> "exception", value |-> <<pdu[2]>>]
       [] OTHER -> ProtocolError
=============================================================================
