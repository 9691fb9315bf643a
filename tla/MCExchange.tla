----------------------------- MODULE MCExchange -----------------------------
(* Requests at both ends of every range, and one frame that follows. *)
EXTENDS Exchange

\* Neighbouring addresses differ, and so do the two bytes of a register.
MCContent(fc, a) == IF fc \in BitReads THEN ((a + fc) % 3) \div 2
                    ELSE (a * 25717 + fc) % 65536

Bits(n) == [i \in 1..n |-> ((i * i) % 7) % 2]
Registers(n) == [i \in 1..n |-> (i * 25717) % 65536]

Req(fc, start, arg) == [fc |-> fc, start |-> start, arg |-> arg]

MCRequests ==
  {Req(fc, s, n) : fc \in Reads, s \in {-1, 0, 300, 65535, 65536},
                   n \in {0, 1, 2, 8, 9, 125, 126, 2000, 2001}}
  \cup {Req(WriteCoil, s, b) : s \in {0, 65535, 65536}, b \in {0, 1}}
  \cup {Req(WriteRegister, s, v) : s \in {0, 65535, 65536}, v \in {-1, 0, 255, 256, 65535, 65536}}
  \cup {Req(WriteCoils, s, Bits(n)) : s \in {0, 65535}, n \in {0, 1, 7, 8, 9, 1968, 1969}}
  \cup {Req(WriteRegisters, s, Registers(n)) : s \in {0, 65535}, n \in {0, 1, 2, 123, 124}}
  \cup {Req(WriteRegisters, 0, <<65536>>)}

MCNoisy == {Req(1, 300, 9), Req(3, 300, 2), Req(4, 65535, 2), Req(WriteCoil, 0, 1),
            Req(WriteRegister, 0, 256), Req(WriteCoils, 0, Bits(9)),
            Req(WriteRegisters, 0, Registers(2))}

MCMasks == {<<m>> : m \in 1..255} \cup {<<m, n>> : m \in {1, 128, 255}, n \in {2^k : k \in 0..7} \cup {255}}

MCFollowing == [f \in Framings |->
                  IF f = "tcp" THEN EncodeMbap(Tid + 1, UnitId, EncodeResponse(Req(3, 0, 1), <<7>>))
                               ELSE EncodeRtu(UnitId, EncodeResponse(Req(3, 0, 1), <<7>>))]
=============================================================================
