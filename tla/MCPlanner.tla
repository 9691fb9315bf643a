------------------------------ MODULE MCPlanner ------------------------------
(* Limits and widths scaled down, and the batches to plan. *)
EXTENDS Planner

MCReadLimit == [holding |-> 2, coil |-> 3]
MCWriteLimit == [holding |-> 2, coil |-> 3]

Mem == [a \in 0..AddressMax |-> (5 * a + 3) % RegisterBase]

Item(area, start, count) ==
  [area |-> area, start |-> start, count |-> count, dtype |-> "uint16",
   layout |-> DefaultLayout, given |-> FALSE, bits |-> <<>>, numbering |-> "lsb_first"]

Whole(n) == [kind |-> "whole", n |-> n]

WriteItem(area, start, count) ==
  [area |-> area, start |-> start, dtype |-> "uint16", layout |-> DefaultLayout,
   values |-> [k \in 1..count |-> Whole(k % 2)]]

\* Every placement of up to three holding items around the end of the address
\* space (AddressMax = 4), a coil item beside them, and the defective items.
Placed == {Item("holding", s, n) : s \in 0..4, n \in 1..3}
Special == {Item("coil", 1, 4), Item("holding", 6, 1), Item("holding", 2, 0),
            Item("holding", -1, 2),
            [Item("holding", 1, 3) EXCEPT !.dtype = "int32"],
            [Item("holding", 0, 2) EXCEPT !.dtype = "bit"]}

PlacedWrites == {WriteItem("holding", s, n) : s \in 0..4, n \in 1..3}
SpecialWrites == {WriteItem("coil", 1, 4), WriteItem("holding", 6, 1), WriteItem("coil", 2, 0),
                  WriteItem("holding", -1, 2),
                  [WriteItem("holding", 0, 2) EXCEPT !.values[2] = Whole(RegisterBase)],
                  [WriteItem("holding", 0, 2) EXCEPT !.values[2].kind = "fraction"],
                  [WriteItem("holding", 0, 1) EXCEPT !.dtype = "float32", !.values[1].kind = "huge"]}

PlacedBatches ==
  {[op |-> o, mem |-> Mem, items |-> <<>>] : o \in {"read", "write"}}
  \cup {[op |-> "read", mem |-> Mem, items |-> <<x, y, z>>] : x, y, z \in Placed}
  \cup {[op |-> "read", mem |-> Mem, items |-> <<x, y>>] : x \in Special \cup Placed, y \in Special}
  \cup {[op |-> "write", mem |-> Mem, items |-> <<x, y>>] :
          x \in PlacedWrites \cup SpecialWrites, y \in PlacedWrites \cup SpecialWrites}

\* Every dtype in every layout: all contents of two registers, and of four
\* registers those made of the corner values.
Corners == {0, RegisterBase \div 2 - 1, RegisterBase \div 2, RegisterBase - 2}
Pairs == {[a \in 0..AddressMax |-> IF a = 1 THEN x ELSE IF a = 2 THEN y ELSE 0] :
            x, y \in 0..(RegisterBase - 1)}
Quads == {[a \in 0..AddressMax |-> IF a = 0 THEN 0 ELSE f[a]] : f \in [1..4 -> Corners]}
Wide == {d \in NumericDTypes : RegsPerItem[d] = 4}
AllBits == [j \in 1..(2 * RegisterBits) |-> j - 1]

TypedReads ==
  {[op |-> "read", mem |-> m, items |-> <<[Item("holding", 1, 2) EXCEPT !.dtype = d, !.layout = l]>>] :
     m \in Pairs, d \in NumericDTypes \ Wide, l \in Layouts}
  \cup {[op |-> "read", mem |-> m, items |-> <<[Item("holding", 1, 4) EXCEPT !.dtype = d, !.layout = l]>>] :
          m \in Quads, d \in Wide, l \in Layouts}
  \cup {[op |-> "read", mem |-> m,
         items |-> <<[Item("holding", 1, 2) EXCEPT !.dtype = "bits", !.layout = l, !.given = TRUE,
                                                   !.bits = b, !.numbering = n]>>] :
          m \in Pairs, l \in Layouts, n \in Numberings, b \in {AllBits}}
  \cup {[op |-> "read", mem |-> Mem,
         items |-> <<[Item("holding", 1, 2) EXCEPT !.dtype = "bit", !.given = TRUE, !.bits = <<b>>,
                                                   !.numbering = n]>>] :
          n \in Numberings, b \in -1..(2 * RegisterBits)}

Typed(d, l, values) == [WriteItem("holding", 1, 0) EXCEPT !.dtype = d, !.layout = l, !.values = values]

TypedWrites ==
  {[op |-> "write", mem |-> Mem, items |-> <<Typed(d, l, <<Whole(n)>>)>>] :
     d \in {"uint32", "float32"}, l \in Layouts, n \in 0..(Patterns("uint32") - 1)}
  \cup {[op |-> "write", mem |-> Mem, items |-> <<Typed("int32", l, <<Whole(n)>>)>>] :
          l \in Layouts, n \in -(Patterns("int32") \div 2 + 1)..(Patterns("int32") \div 2)}
  \cup {[op |-> "write", mem |-> Mem, items |-> <<Typed("int16", l, <<Whole(n), Whole(-n)>>)>>] :
          l \in Layouts, n \in -(RegisterBase \div 2)..(RegisterBase \div 2)}
  \cup {[op |-> "write", mem |-> Mem, items |-> <<Typed(d, l, <<Whole(n)>>)>>] :
          d \in {"int64", "uint64", "float64"}, l \in Layouts, n \in {1, 255, 4660, 32767}}

MCBatches == PlacedBatches \cup TypedReads \cup TypedWrites
=============================================================================
