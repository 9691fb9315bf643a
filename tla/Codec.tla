-------------------------------- MODULE Codec --------------------------------
(***************************************************************************)
(* pymod.codec: typed values in blocks of registers, and bits of blocks.   *)
(*                                                                         *)
(* A register is two bytes.  The width of a byte is a parameter, so that   *)
(* the widest type stays within TLC's integers: with ByteBits = 2 a        *)
(* register has 4 bits and a uint64 has 16.  A floating-point value stands *)
(* for its IEEE bit pattern, which struct.pack and struct.unpack keep.     *)
(***************************************************************************)
EXTENDS Integers, Sequences, SequencesExt

CONSTANT ByteBits  \* 8

ASSUME ByteAssumption == ByteBits \in Nat \ {0}

\* The n-th power of b.
Power(b, n) == LET p[k \in Nat] == IF k = 0 THEN 1 ELSE b * p[k - 1] IN p[n]

ByteBase == Power(2, ByteBits)
RegisterBase == ByteBase * ByteBase   \* 0xFFFF + 1
RegisterBits == 2 * ByteBits

Orders == {"big", "little"}
Numberings == {"lsb_first", "msb_first"}

RegsPerItem == [uint16 |-> 1, int16 |-> 1, uint32 |-> 2, int32 |-> 2, float32 |-> 2,
                uint64 |-> 4, int64 |-> 4, float64 |-> 4]
NumericDTypes == DOMAIN RegsPerItem
SignedDTypes == {"int16", "int32", "int64"}
FloatDTypes == {"float32", "float64"}

\* The number of bit patterns of a dtype.
Patterns(dtype) == Power(RegisterBase, RegsPerItem[dtype])

-----------------------------------------------------------------------------
(* _common: registers and bytes *)

\* Fault: word_order is ignored.
RegistersToBytes_NoWordOrder(registers, word_order, byte_order) ==
  [i \in 1..2 * Len(registers) |->
     LET r == registers[(i + 1) \div 2]
     IN IF (i % 2 = 1) = (byte_order = "big") THEN r \div ByteBase ELSE r % ByteBase]

RegistersToBytes(registers, word_order, byte_order) ==
  LET seq == IF word_order = "little" THEN Reverse(registers) ELSE registers
  IN [i \in 1..2 * Len(registers) |->
        LET r == seq[(i + 1) \div 2]
        IN IF (i % 2 = 1) = (byte_order = "big") THEN r \div ByteBase ELSE r % ByteBase]

BytesToRegisters(raw, word_order, byte_order) ==
  LET regs == [i \in 1..(Len(raw) \div 2) |->
                 IF byte_order = "big" THEN raw[2 * i - 1] * ByteBase + raw[2 * i]
                                       ELSE raw[2 * i] * ByteBase + raw[2 * i - 1]]
  IN IF word_order = "little" THEN Reverse(regs) ELSE regs

-----------------------------------------------------------------------------
(* values *)

\* int.from_bytes(raw, "big") and n.to_bytes(size, "big").
FromBytes(raw) ==
  LET value[i \in 0..Len(raw)] == IF i = 0 THEN 0 ELSE value[i - 1] * ByteBase + raw[i]
  IN value[Len(raw)]
ToBytes(n, size) == [i \in 1..size |-> (n \div Power(ByteBase, size - i)) % ByteBase]

\* A value given to a write: whole (an int, or a float that is an integer),
\* fraction, or huge (beyond the range of float32).  n is the integer or, for
\* a float dtype, the bit pattern.
IntRange(dtype) == IF dtype \in SignedDTypes
                   THEN -(Patterns(dtype) \div 2)..(Patterns(dtype) \div 2 - 1)
                   ELSE 0..(Patterns(dtype) - 1)

Encodable(value, dtype) ==
  IF dtype \in FloatDTypes THEN value.kind = "huge" => dtype = "float64"
                           ELSE value.kind = "whole" /\ value.n \in IntRange(dtype)

\* Two's complement for negative integers.
EncodeOne(value, dtype) == ToBytes(value.n % Patterns(dtype), 2 * RegsPerItem[dtype])

DecodeOne(raw, dtype) ==
  LET n == FromBytes(raw)
  IN IF dtype \in SignedDTypes /\ n >= Patterns(dtype) \div 2 THEN n - Patterns(dtype) ELSE n

EncodeRegisters(values, dtype, word_order, byte_order) ==
  LET rpi == RegsPerItem[dtype]
      regs == [k \in DOMAIN values |->
                 BytesToRegisters(EncodeOne(values[k], dtype), word_order, byte_order)]
  IN [i \in 1..Len(values) * rpi |-> regs[(i - 1) \div rpi + 1][((i - 1) % rpi) + 1]]

DecodeRegisters(registers, dtype, word_order, byte_order) ==
  LET rpi == RegsPerItem[dtype]
  IN [k \in 1..(Len(registers) \div rpi) |->
        DecodeOne(RegistersToBytes(SubSeq(registers, (k - 1) * rpi + 1, k * rpi),
                                   word_order, byte_order), dtype)]

-----------------------------------------------------------------------------
(* bits *)

ResolvePos(bit_index, total_bits, bit_numbering) ==
  IF bit_numbering = "lsb_first" THEN bit_index ELSE total_bits - 1 - bit_index

\* extract_bit is the case of one index.
ExtractBits(registers, bit_indices, word_order, byte_order, bit_numbering) ==
  LET value == FromBytes(RegistersToBytes(registers, word_order, byte_order))
  IN [j \in DOMAIN bit_indices |->
        (value \div Power(2, ResolvePos(bit_indices[j], Len(registers) * RegisterBits,
                                        bit_numbering))) % 2]

-----------------------------------------------------------------------------
(* The layouts as the documentation states them, by the weight of each byte *)

\* The rank of a block's j-th register of n: 0 is the least significant.
WordRank(j, n, word_order) == IF word_order = "big" THEN n - j ELSE j - 1

\* The weight of a register's high and low byte, as a power of ByteBase.
HighWeight(j, n, word_order, byte_order) ==
  2 * WordRank(j, n, word_order) + (IF byte_order = "big" THEN 1 ELSE 0)
LowWeight(j, n, word_order, byte_order) ==
  2 * WordRank(j, n, word_order) + (IF byte_order = "big" THEN 0 ELSE 1)

\* What a block of registers means as one unsigned number.
BlockValue(registers, word_order, byte_order) ==
  LET n == Len(registers)
      Part(j) ==
        (registers[j] \div ByteBase) * Power(ByteBase, HighWeight(j, n, word_order, byte_order))
        + (registers[j] % ByteBase) * Power(ByteBase, LowWeight(j, n, word_order, byte_order))
      sum[j \in 0..n] == IF j = 0 THEN 0 ELSE sum[j - 1] + Part(j)
  IN sum[n]

\* The j-th register of n that hold the bit pattern.
RegisterOf(pattern, j, n, word_order, byte_order) ==
  LET ByteAt(w) == (pattern \div Power(ByteBase, w)) % ByteBase
  IN ByteAt(HighWeight(j, n, word_order, byte_order)) * ByteBase
     + ByteAt(LowWeight(j, n, word_order, byte_order))
=============================================================================
