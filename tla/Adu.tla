-------------------------------- MODULE Adu --------------------------------
(***************************************************************************)
(* pymod.protocol.adu_tcp and adu_rtu, and pymod.transport._rtu_response:  *)
(* how a PDU is framed, and how many bytes of a stream a reader takes for  *)
(* one frame.                                                              *)
(***************************************************************************)
EXTENDS Pdu, Bitwise

-----------------------------------------------------------------------------
(* Modbus TCP: transaction id, protocol id 0, length, unit id *)

EncodeMbap(tid, uid, pdu) == U16(tid) \o U16(0) \o U16(1 + Len(pdu)) \o <<uid>> \o pdu

\* Fault: the length field is taken not to count the unit id.
ExpectedFrameLength_Short(prefix) == 5 + U16At(prefix, 5)

ExpectedFrameLength(prefix) == 6 + U16At(prefix, 5)

MbapOk(frame) == /\ Len(frame) > 7
                 /\ U16At(frame, 3) = 0
                 /\ U16At(frame, 5) - 1 = Len(frame) - 7

MbapPdu(frame) == Rest(frame, 8)

-----------------------------------------------------------------------------
(* Modbus RTU: unit id, PDU, CRC with its low byte first *)

ShiftOut(crc) == IF crc % 2 = 1 THEN (crc \div 2) ^^ 40961 ELSE crc \div 2   \* 0xA001

\* All eight bits of a byte.
ShiftByte(crc) == LET shifted[n \in 0..8] == IF n = 0 THEN crc ELSE ShiftOut(shifted[n - 1])
                  IN shifted[8]

Crc16Table == [byte \in 0..255 |-> ShiftByte(byte)]

\* The loop over the bytes, from byte n on.
Crc16(data) ==
  LET loop[crc \in Words, n \in 1..(Len(data) + 1)] ==
        IF n > Len(data) THEN crc
        ELSE loop[(crc \div 256) ^^ Crc16Table[(crc ^^ data[n]) % 256], n + 1]
  IN loop[65535, 1]

EncodeRtu(uid, pdu) ==
  LET body == <<uid>> \o pdu
      crc == Crc16(body)
  IN body \o <<crc % 256, crc \div 256>>

\* Fault: the CRC is not compared.
RtuOk_NoCrc(frame) == Len(frame) >= 4

RtuOk(frame) ==
  /\ Len(frame) >= 4
  /\ Crc16(SubSeq(frame, 1, Len(frame) - 2))
       = frame[Len(frame) - 1] + 256 * frame[Len(frame)]

RtuPdu(frame) == SubSeq(frame, 2, Len(frame) - 2)

\* read_rtu_response: the length of the frame that starts the stream, known from
\* its first two or three bytes.  0 when the function code is unknown.
RtuResponseLength(stream) ==
  LET fc == stream[2] IN
  CASE fc >= 128 -> 5
    [] fc \in Reads -> 5 + stream[3]
    [] fc \in FunctionCodes \ Reads -> 8
    [] OTHER -> 0
=============================================================================
