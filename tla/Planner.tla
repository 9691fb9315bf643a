------------------------------- MODULE Planner -------------------------------
(***************************************************************************)
(* pymod.planner: a batch of typed items becomes a set of Modbus requests  *)
(* (chunks) that asyncio.gather runs concurrently; their results are put   *)
(* together per item.  Reads are merged and split by the PDU limit, writes *)
(* are only split.                                                         *)
(*                                                                         *)
(* The executor is the client's (retries, timeouts): a chunk it accepts    *)
(* ends in a response or in a ModbusError.  The device's memory changes    *)
(* once while a batch is under way, so that a value read in two parts can  *)
(* be told from one read at once.                                          *)
(***************************************************************************)
EXTENDS Integers, Sequences, FiniteSets, SequencesExt, Plan, Codec

CONSTANTS ReadLimit,   \* _READ_LIMITS: area -> units per request
          WriteLimit,  \* MAX_WRITE_REGISTERS / MAX_WRITE_COILS
          AddressMax,  \* ADDRESS_MAX
          Batches      \* the batches to plan: [op, mem, items], where mem is
                       \* what the device's units hold at first

Areas == DOMAIN ReadLimit
BitAreas == {"coil", "discrete"}
DTypes == NumericDTypes \cup {"bit", "bits"}
Layouts == [word_order : Orders, byte_order : Orders]
DefaultLayout == [word_order |-> "big", byte_order |-> "big"]

\* Items of bit areas have no dtype: theirs is left at uint16.  bits is the one
\* bit_index or the bit_indices, given whether they are not None.
ReadItems == [area : Areas, start : Int, count : Int, dtype : DTypes, layout : Layouts,
              given : BOOLEAN, bits : Seq(Int), numbering : Numberings]
WriteItems == [area : DOMAIN WriteLimit, start : Int, dtype : NumericDTypes, layout : Layouts,
               values : Seq([kind : {"whole", "fraction", "huge"}, n : Int])]

ASSUME LimitAssumption == /\ \A a \in Areas : ReadLimit[a] \in Nat \ {0}
                          /\ \A a \in DOMAIN WriteLimit : WriteLimit[a] \in Nat \ {0}
                          /\ AddressMax \in Nat

\* Items of bit areas have no dtype, and the pattern of a float fits its type.
Sound(op, item) ==
  /\ item.area \in BitAreas => item.dtype = "uint16"
  /\ op = "write" /\ item.dtype \in FloatDTypes =>
       \A k \in DOMAIN item.values : item.values[k].n \in 0..(Patterns(item.dtype) - 1)
ASSUME BatchAssumption ==
  \A b \in Batches : /\ b.op \in {"read", "write"}
                     /\ b.mem \in [0..AddressMax -> 0..(RegisterBase - 1)]
                     /\ b.items \in Seq(IF b.op = "read" THEN ReadItems ELSE WriteItems)
                     /\ \A i \in DOMAIN b.items : Sound(b.op, b.items[i])

VARIABLES
  batch,    \* the call's argument
  phase,    \* of the call: called, running, done, rejected, raised
  plan,     \* the chunks
  state,    \* of each chunk: new, sent, ok, error, raised
  got,      \* what a read chunk returned: a sequence of [addr, version, value]
  version,  \* 1 once the device's memory has changed
  applied,  \* units the device has written: [item, addr, value]
  results   \* the returned list; units (history) are what was decoded

vars == <<batch, phase, plan, state, got, version, applied, results>>

Init ==
  /\ batch \in Batches /\ phase = "called"
  /\ plan = {} /\ state = <<>> /\ got = <<>>
  /\ version = 0 /\ applied = {} /\ results = <<>>

-----------------------------------------------------------------------------
(* Planning *)

Registers(item) == item.area \notin BitAreas

\* The units an item stands for.
Size(op, item) == IF op = "read" THEN item.count
                  ELSE Len(item.values) * RegsPerItem[item.dtype]

RangesOf(area, items) == {<<items[i].start, items[i].start + items[i].count>> :
                            i \in {j \in DOMAIN items : items[j].area = area}}

\* A read chunk belongs to no item in particular: item is 0.
PlanReadChunks(items) ==
  UNION {{[area |-> area, start |-> p.from, count |-> p.size, item |-> 0] :
            p \in UNION {Pieces(r[1], r[2], ReadLimit[area]) :
                           r \in Range(MergeRanges(RangesOf(area, items)))}} : area \in Areas}

PlanWrites(items) ==
  UNION {{[area |-> items[i].area, start |-> p.from, count |-> p.size, item |-> i] :
            p \in Pieces(items[i].start, items[i].start + Size("write", items[i]),
                         WriteLimit[items[i].area])} : i \in DOMAIN items}

ValidRead(item) == /\ item.count > 0
                   /\ Registers(item) /\ item.dtype \in {"bit", "bits"} => item.given

\* encode_registers raises for a value it cannot encode.
ValidWrite(item) == /\ item.values # <<>>
                    /\ Registers(item) =>
                         \A k \in DOMAIN item.values : Encodable(item.values[k], item.dtype)

Valid(op, item) == IF op = "read" THEN ValidRead(item) ELSE ValidWrite(item)

-----------------------------------------------------------------------------
(* Assembling *)

End(c) == c.start + c.count

\* Fault: every chunk of the area is taken.
Covering_Area(item) == {c \in plan : c.area = item.area}

Covering(item) == {c \in plan : c.area = item.area /\ c.start < item.start + item.count
                                 /\ End(c) > item.start}

ChunkBefore(c, d) == c.start < d.start

Failure(e) == [ok |-> FALSE, values |-> <<>>, units |-> <<>>, error |-> e]

Contents(units) == [i \in DOMAIN units |-> units[i].value]

\* _decode_register_item: a ValueError of the codec fails the item.
DecodeRegisterItem(item, units) ==
  LET l == item.layout
      regs == Contents(units)
      total == Len(regs) * RegisterBits
      Ok(values) == [ok |-> TRUE, values |-> values, units |-> units, error |-> "none"]
  IN IF item.dtype \in {"bit", "bits"}
     THEN IF \A j \in DOMAIN item.bits : item.bits[j] \in 0..(total - 1)
          THEN Ok(ExtractBits(regs, item.bits, l.word_order, l.byte_order, item.numbering))
          ELSE Failure("decode")
     ELSE IF Len(regs) % RegsPerItem[item.dtype] = 0
          THEN Ok(DecodeRegisters(regs, item.dtype, l.word_order, l.byte_order))
          ELSE Failure("decode")

\* The chunk that comes first.
First(S) == CHOOSE c \in S : \A d \in S : c.start <= d.start

\* The values of chunks, laid end to end.
Flat(covering) == FlattenSeq([i \in 1..Len(covering) |-> got[covering[i]]])

\* Fault: the item is taken to begin where its first chunk begins.
DecodeReadItem_NoOffset(item) ==
  LET covering == Covering(item)
      failed == {c \in covering : state[c] = "error"}
      units == SubSeq(Flat(Sorted(covering, ChunkBefore)), 1, item.count)
  IN IF failed # {} THEN Failure(First(failed))
     ELSE IF Registers(item) THEN DecodeRegisterItem(item, units)
     ELSE [ok |-> TRUE, values |-> Contents(units), units |-> units, error |-> "none"]

\* _decode_read_item: the first failed chunk, or the item's slice of the
\* covering chunks' values laid end to end.
DecodeReadItem(item) ==
  LET covering == Covering(item)
      failed == {c \in covering : state[c] = "error"}
      rel == item.start - First(covering).start
      units == SubSeq(Flat(Sorted(covering, ChunkBefore)), rel + 1, rel + item.count)
  IN IF covering = {} THEN Failure("internal")
     ELSE IF failed # {} THEN Failure(First(failed))
     ELSE IF Registers(item) THEN DecodeRegisterItem(item, units)
     ELSE [ok |-> TRUE, values |-> Contents(units), units |-> units, error |-> "none"]

\* Fault: a later chunk's success hides an earlier failure.
WriteResult_LastWins(i) ==
  LET mine == {c \in plan : c.item = i}
      last == CHOOSE c \in mine : \A d \in mine : d.start <= c.start
  IN IF state[last] = "error" THEN Failure(last)
     ELSE [ok |-> TRUE, values |-> <<>>, units |-> <<>>, error |-> "none"]

\* The loop that applies errors: the first in chunk order wins.
WriteResult(i) ==
  LET failed == {c \in plan : c.item = i /\ state[c] = "error"}
  IN IF failed # {} THEN Failure(First(failed))
     ELSE [ok |-> TRUE, values |-> <<>>, units |-> <<>>, error |-> "none"]

-----------------------------------------------------------------------------
(* The call *)

\* Validation and planning come before any request.
Begin ==
  /\ phase = "called"
  /\ \/ /\ batch.items = <<>>
        /\ phase' = "done"
        /\ UNCHANGED <<plan, state, got>>
     \/ /\ \E i \in DOMAIN batch.items : ~Valid(batch.op, batch.items[i])
        /\ phase' = "rejected"
        /\ UNCHANGED <<plan, state, got>>
     \/ /\ batch.items # <<>> /\ \A i \in DOMAIN batch.items : Valid(batch.op, batch.items[i])
        /\ phase' = "running"
        /\ plan' = IF batch.op = "read" THEN PlanReadChunks(batch.items)
                                        ELSE PlanWrites(batch.items)
        /\ state' = [c \in plan' |-> "new"]
        /\ got' = [c \in plan' |-> <<>>]
  /\ UNCHANGED <<batch, version, applied, results>>

\* A chunk's task encodes its request and hands it to the executor.  A start
\* address that cannot be encoded raises ValueError, which is no ModbusError:
\* gather raises it to the caller, and the other chunks run on.
Send(c) ==
  /\ state[c] = "new"
  /\ IF c.start \in 0..AddressMax
     THEN state' = [state EXCEPT ![c] = "sent"] /\ UNCHANGED phase
     ELSE /\ state' = [state EXCEPT ![c] = "raised"]
          /\ phase' = "raised"
  /\ UNCHANGED <<batch, plan, got, version, applied, results>>

Units(c) == c.start..(End(c) - 1)

\* The values a write item puts into its units.
Encoded(item) == IF Registers(item)
                 THEN EncodeRegisters(item.values, item.dtype,
                                      item.layout.word_order, item.layout.byte_order)
                 ELSE [k \in DOMAIN item.values |-> item.values[k].n]

Written(c) == LET item == batch.items[c.item] IN
  {[item |-> c.item, addr |-> a, value |-> Encoded(item)[a - item.start + 1]] : a \in Units(c)}

\* What a unit of the device holds; one update changes every unit.
Stored(area, addr, v) == LET n == (batch.mem[addr] + v) % RegisterBase
                         IN IF area \in BitAreas THEN n % 2 ELSE n

\* The device serves the request and the response arrives; a device refuses
\* addresses it does not have.
Reply(c) ==
  /\ state[c] = "sent" /\ End(c) - 1 <= AddressMax
  /\ state' = [state EXCEPT ![c] = "ok"]
  /\ IF batch.op = "read"
     THEN /\ got' = [got EXCEPT ![c] = [i \in 1..c.count |->
                                  [addr |-> c.start + i - 1, version |-> version,
                                   value |-> Stored(c.area, c.start + i - 1, version)]]]
          /\ UNCHANGED applied
     ELSE applied' = applied \cup Written(c) /\ UNCHANGED got
  /\ UNCHANGED <<batch, phase, plan, version, results>>

\* The executor raises a ModbusError, in the case of a lost response after the
\* device has served the request.
Fail(c) ==
  /\ state[c] = "sent"
  /\ state' = [state EXCEPT ![c] = "error"]
  /\ \/ UNCHANGED applied
     \/ /\ batch.op = "write" /\ End(c) - 1 <= AddressMax
        /\ applied' = applied \cup Written(c)
  /\ UNCHANGED <<batch, phase, plan, got, version, results>>

\* gather has every chunk's result.
Return ==
  /\ phase = "running" /\ \A c \in plan : state[c] \in {"ok", "error"}
  /\ phase' = "done"
  /\ results' = [i \in DOMAIN batch.items |->
                   IF batch.op = "read" THEN DecodeReadItem(batch.items[i]) ELSE WriteResult(i)]
  /\ UNCHANGED <<batch, plan, state, got, version, applied>>

DeviceUpdate ==
  /\ phase = "running" /\ batch.op = "read" /\ version = 0
  /\ version' = 1
  /\ UNCHANGED <<batch, phase, plan, state, got, applied, results>>

Terminated == /\ phase \in {"done", "rejected", "raised"}
              /\ \A c \in plan : state[c] \in {"ok", "error", "raised"}
              /\ UNCHANGED vars

Next == \/ Begin \/ Return \/ DeviceUpdate
        \/ \E c \in plan : Send(c) \/ Reply(c) \/ Fail(c)
        \/ Terminated

Spec == Init /\ [][Next]_vars

-----------------------------------------------------------------------------
(* Properties *)

Planned == phase \notin {"called", "rejected"}

Extent(item) == item.start..(item.start + Size(batch.op, item) - 1)

Requested(area) == UNION {Extent(batch.items[i]) :
                            i \in {j \in DOMAIN batch.items : batch.items[j].area = area}}

\* The read chunks of an area cover exactly the requested units, no unit
\* twice, and each fits its PDU; and no plan has fewer reads: a read that fits
\* the PDU and asks only for requested units never reaches the start of two
\* chunks, so every plan needs one read for each of them.
ReadPlanExact ==
  Planned /\ batch.op = "read" =>
    \A area \in Areas :
      LET mine == {c \in plan : c.area = area} IN
      /\ UNION {Units(c) : c \in mine} = Requested(area)
      /\ \A c, d \in mine : c # d => Units(c) \cap Units(d) = {}
      /\ \A c \in mine : c.count \in 1..ReadLimit[area]
      /\ \A c, d \in mine : c.start < d.start =>
           \/ d.start - c.start >= ReadLimit[area]
           \/ ~(c.start..d.start \subseteq Requested(area))

\* The length of the stretch of requested units around an item.
RunLength(item) ==
  LET units == Requested(item.area)
      run == {u \in units : Min2(u, item.start)..Max2(u, item.start) \subseteq units}
  IN Cardinality(run)

\* A successful read is made of the item's own units in order, from wherever
\* the chunks were cut; units of different moments appear together only when
\* the item's stretch of requested units is longer than one PDU.
ReadsAreSlices ==
  phase = "done" /\ batch.op = "read" =>
    \A i \in DOMAIN results : results[i].ok =>
      LET item == batch.items[i]
          u == results[i].units IN
      /\ Len(u) = item.count
      /\ \A j \in 1..item.count : /\ u[j].addr = item.start + j - 1
                                   /\ u[j].value = Stored(item.area, u[j].addr, u[j].version)
      /\ (\E j, k \in 1..item.count : u[j].version # u[k].version) =>
           RunLength(item) > ReadLimit[item.area]

\* The k-th value of a block of registers, by the documented weights: a signed
\* type counts its upper half from below zero.
DocumentedValue(regs, k, dtype, layout) ==
  LET rpi == RegsPerItem[dtype]
      n == BlockValue(SubSeq(regs, (k - 1) * rpi + 1, k * rpi),
                      layout.word_order, layout.byte_order)
  IN IF dtype \in SignedDTypes /\ 2 * n >= Patterns(dtype) THEN n - Patterns(dtype) ELSE n

\* A bit of a block: bit i of lsb_first has weight 2^i, and msb_first counts
\* from the other end of the block.
DocumentedBit(regs, i, layout, numbering) ==
  LET weight == IF numbering = "lsb_first" THEN i ELSE Len(regs) * RegisterBits - 1 - i
  IN (BlockValue(regs, layout.word_order, layout.byte_order) \div Power(2, weight)) % 2

\* A successful read returns what its registers mean in the layout asked for
\* (ABCD, CDAB, BADC or DCBA), for every dtype and bit numbering.
ReadsDecodeAsDocumented ==
  phase = "done" /\ batch.op = "read" =>
    \A i \in DOMAIN results : results[i].ok =>
      LET item == batch.items[i]
          regs == Contents(results[i].units)
          v == results[i].values IN
      IF ~Registers(item) THEN v = regs
      ELSE IF item.dtype \in {"bit", "bits"}
      THEN /\ Len(v) = Len(item.bits)
           /\ \A j \in DOMAIN v :
                v[j] = DocumentedBit(regs, item.bits[j], item.layout, item.numbering)
      ELSE /\ Len(v) * RegsPerItem[item.dtype] = item.count
           /\ \A k \in DOMAIN v : v[k] = DocumentedValue(regs, k, item.dtype, item.layout)

\* An item whose registers make no whole number of values, or that asks for a
\* bit beyond its block, cannot be decoded.
Decodes(item) ==
  Registers(item) =>
    IF item.dtype \in {"bit", "bits"}
    THEN \A j \in DOMAIN item.bits : item.bits[j] \in 0..(item.count * RegisterBits - 1)
    ELSE \E n \in 1..item.count : item.count = n * RegsPerItem[item.dtype]

\* One failed request fails the items that need it and no others, a failed
\* item reports the error of the first failed request it needs, an item that
\* cannot be decoded fails alone, and the call as a whole raises only if some
\* item, on its own, names an address beyond the address space: merging a legal
\* item with others never makes it fatal.
FailuresIsolated ==
  /\ phase = "done" =>
       \A i \in DOMAIN results :
         LET item == batch.items[i]
             needs == {c \in plan : /\ c.area = item.area /\ c.item \in {0, i}
                                    /\ Units(c) \cap Extent(item) # {}}
             bad == {c \in needs : state[c] = "error"} IN
         /\ bad # {} => /\ results[i].error \in bad
                        /\ \A c \in bad : results[i].error.start <= c.start
         /\ bad = {} => results[i].ok = (batch.op = "write" \/ Decodes(item))
  /\ phase = "raised" =>
       \E i \in DOMAIN batch.items : ~(Extent(batch.items[i]) \subseteq 0..AddressMax)

\* The j-th unit of a write item, by the documented weights.
DocumentedUnit(item, j) ==
  LET rpi == RegsPerItem[item.dtype]
      n == item.values[(j - 1) \div rpi + 1].n
  IN IF Registers(item)
     THEN RegisterOf(IF n < 0 THEN n + Patterns(item.dtype) ELSE n, ((j - 1) % rpi) + 1, rpi,
                     item.layout.word_order, item.layout.byte_order)
     ELSE n

\* An item reported as written is written: every value at its address and in
\* the layout asked for, however the item was cut and whatever happened to the
\* other items.
WriteOkMeansApplied ==
  phase = "done" /\ batch.op = "write" =>
    \A i \in DOMAIN results : results[i].ok =>
      LET item == batch.items[i] IN
      \A j \in 1..Size("write", item) :
        [item |-> i, addr |-> item.start + j - 1, value |-> DocumentedUnit(item, j)] \in applied
=============================================================================
