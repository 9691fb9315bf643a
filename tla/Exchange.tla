------------------------------ MODULE Exchange ------------------------------
(***************************************************************************)
(* One request and its response, byte by byte, through the codecs and the  *)
(* framing of both sides.  Over "tcp" the device is pymod.server.Server,   *)
(* over "rtu" a slave that follows the Modbus standard.  On an RTU line    *)
(* noise may change up to two adjacent bytes of one frame.                 *)
(***************************************************************************)
EXTENDS Adu

CONSTANTS Requests,        \* what the client is asked to do
          Content(_, _),   \* the device's memory: function code, address -> value
          Noisy,           \* bound: the requests whose frames noise may hit,
          Masks,           \*        and the changes of one or two bytes
          UnitId, Tid,
          Following        \* framing -> bytes that follow the response in the stream

Framings == {"tcp", "rtu"}

ASSUME MaskAssumption == \A m \in Masks : Len(m) \in {1, 2} /\ m[1] \in 1..255

VARIABLES
  framing,  \* the transport's
  request,  \* the call's argument
  stage,    \* new, sent, answered, done
  wire,     \* the frame on its way
  damaged,  \* has noise changed a frame?
  seen,     \* the request as the device understood it: a set of at most one
  rest,     \* what the client's reader left in the stream
  result    \* what the call returned or raised

vars == <<framing, request, stage, wire, damaged, seen, rest, result>>

Result(k) == [kind |-> k, value |-> <<>>]

Init ==
  /\ framing \in Framings /\ request \in Requests
  /\ stage = "new" /\ wire = <<>> /\ damaged = FALSE
  /\ seen = {} /\ rest = <<>> /\ result = Result("none")

-----------------------------------------------------------------------------
(* The client sends *)

Frame(pdu) == IF framing = "tcp" THEN EncodeMbap(Tid, UnitId, pdu)
                                 ELSE EncodeRtu(UnitId, pdu)

Send ==
  /\ stage = "new"
  /\ IF Encodable(request)
     THEN /\ wire' = Frame(EncodeRequest(request))
          /\ stage' = "sent"
          /\ UNCHANGED result
     ELSE /\ result' = Result("valueError")
          /\ stage' = "done"
          /\ UNCHANGED wire
  /\ UNCHANGED <<framing, request, damaged, seen, rest>>

-----------------------------------------------------------------------------
(* The device *)

\* The bitwise definition of the standard, which a foreign slave follows.
StandardCrc(data) ==
  LET loop[crc \in Words, n \in 1..(Len(data) + 1)] ==
        IF n > Len(data) THEN crc ELSE loop[ShiftByte(crc ^^ data[n]), n + 1]
  IN loop[65535, 1]

SlaveAccepts(frame) ==
  /\ StandardCrc(SubSeq(frame, 1, Len(frame) - 2))
       = frame[Len(frame) - 1] + 256 * frame[Len(frame)]
  /\ frame[1] = UnitId

Stored(q) == [i \in 1..CountOf(q) |-> Content(q.fc, q.start + i - 1)]

\* Server._handle, with callbacks that have all addresses of the address space.
Handle(pdu) ==
  IF pdu[1] \notin FunctionCodes THEN EncodeException(pdu[1], IllegalFunction)
  ELSE IF ~WellFormed(pdu) THEN EncodeException(pdu[1], IllegalDataValue)
  ELSE LET q == DecodeRequest(pdu) IN
       IF q.start + CountOf(q) - 1 > ADDRESS_MAX
       THEN EncodeException(pdu[1], IllegalDataAddress)
       ELSE EncodeResponse(q, IF q.fc \in Reads THEN Stored(q) ELSE <<>>)

Understood(pdu) == IF pdu[1] \in FunctionCodes /\ WellFormed(pdu)
                   THEN {DecodeRequest(pdu)} ELSE {}

\* A malformed frame is dropped, and the client's timeout ends the call.
Serve ==
  /\ stage = "sent"
  /\ LET frame == IF framing = "tcp" THEN SubSeq(wire, 1, ExpectedFrameLength(wire)) ELSE wire
         pdu == IF framing = "tcp" THEN MbapPdu(frame) ELSE RtuPdu(frame)
     IN IF IF framing = "tcp" THEN MbapOk(frame) ELSE SlaveAccepts(frame)
        THEN /\ seen' = Understood(pdu)
             /\ wire' = Frame(Handle(pdu))
             /\ stage' = "answered"
             /\ UNCHANGED result
        ELSE /\ result' = Result("timeout")
             /\ stage' = "done"
             /\ UNCHANGED <<seen, wire>>
  /\ UNCHANGED <<framing, request, damaged, rest>>

-----------------------------------------------------------------------------
(* The client receives *)

FrameLength(stream) == IF framing = "tcp" THEN ExpectedFrameLength(stream)
                                          ELSE RtuResponseLength(stream)

Accepts(frame) == IF framing = "tcp" THEN MbapOk(frame)
                                     ELSE RtuOk(frame) /\ frame[1] = UnitId

PduOf(frame) == IF framing = "tcp" THEN MbapPdu(frame) ELSE RtuPdu(frame)

\* The reader takes n bytes, or waits for them until the timeout.  It gives up
\* on an unknown function code after two.  The read loop drops a malformed MBAP
\* frame and the call times out.
Receive(stream, n) ==
  \/ /\ n = 0
     /\ result' = ProtocolError /\ rest' = Rest(stream, 3)
  \/ /\ n > Len(stream)
     /\ result' = Result("timeout") /\ rest' = stream
  \/ /\ n \in 1..Len(stream)
     /\ rest' = Rest(stream, n + 1)
     /\ LET frame == SubSeq(stream, 1, n) IN
          result' = IF Accepts(frame) THEN DecodeResponse(request, PduOf(frame))
                    ELSE IF framing = "tcp" THEN Result("timeout") ELSE ProtocolError

Deliver ==
  /\ stage = "answered"
  /\ stage' = "done"
  /\ LET stream == wire \o Following[framing] IN Receive(stream, FrameLength(stream))
  /\ UNCHANGED <<framing, request, wire, damaged, seen>>

-----------------------------------------------------------------------------
(* The line *)

Noise ==
  /\ framing = "rtu" /\ request \in Noisy
  /\ stage \in {"sent", "answered"} /\ ~damaged
  /\ damaged' = TRUE
  /\ \E mask \in Masks, at \in 1..Len(wire) :
       /\ at + Len(mask) - 1 <= Len(wire)
       /\ wire' = [i \in 1..Len(wire) |-> IF i \in at..(at + Len(mask) - 1)
                                          THEN wire[i] ^^ mask[i - at + 1] ELSE wire[i]]
  /\ UNCHANGED <<framing, request, stage, seen, rest, result>>

Terminated == stage = "done" /\ UNCHANGED vars

Next == Send \/ Serve \/ Deliver \/ Noise \/ Terminated

Spec == Init /\ [][Next]_vars

-----------------------------------------------------------------------------
(* Properties *)

InMemory == request.start + CountOf(request) - 1 <= ADDRESS_MAX

\* What the device holds at the addresses asked for, in order, the echo of the
\* client's own write, or the device's exception.
Expected ==
  CASE ~InMemory -> [kind |-> "exception", value |-> <<IllegalDataAddress>>]
    [] request.fc \in Reads -> [kind |-> "ok", value |-> Stored(request)]
    [] OTHER -> [kind |-> "ok",
                 value |-> <<request.start,
                             CASE request.fc = WriteCoil -> CodedCoil(request.arg)
                               [] request.fc = WriteRegister -> request.arg
                               [] OTHER -> CountOf(request)>>]

\* The two ends understand each other: whatever the client's encoders let pass
\* fits the longest legal frame and is within the server's limits too, the
\* device decodes exactly the request that was made, and the client decodes
\* exactly its answer, for each function code, at both ends of the ranges.
ExchangeUnderstood ==
  /\ stage = "sent" /\ ~damaged => Len(wire) <= (IF framing = "tcp" THEN 260 ELSE 256)
  /\ stage = "done" /\ ~damaged /\ result.kind # "valueError" =>
       seen = {request} /\ result = Expected

\* The reader of a response takes the bytes of its frame and no other, so that
\* the next response in the stream is read from its first byte.
FramesSelfDelimiting ==
  stage = "done" /\ ~damaged /\ result.kind # "valueError" => rest = Following[framing]

\* One or two adjacent bytes changed by noise never pass for a request or a
\* response.  CRC-16 promises that for frames of the right length; the run also
\* covers the bytes from which read_rtu_response infers the length, and a frame
\* that is cut short or runs into the one that follows.
DamageDetected ==
  stage = "done" /\ damaged => result.kind \in {"timeout", "protocolError"}
=============================================================================
