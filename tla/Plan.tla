--------------------------------- MODULE Plan --------------------------------
(***************************************************************************)
(* pymod.planner: how ranges of units are merged, and cut into requests of *)
(* at most one PDU.                                                        *)
(***************************************************************************)
EXTENDS Integers, Sequences, FiniteSets, SequencesExt

Min2(a, b) == IF a <= b THEN a ELSE b
Max2(a, b) == IF a >= b THEN a ELSE b

\* Python's order on pairs.
Before(r, s) == r[1] < s[1] \/ (r[1] = s[1] /\ r[2] < s[2])

\* Fault: adjacent ranges are kept apart.
MergeStep_Strict(merged, r) ==
  IF merged # <<>> /\ r[1] < Last(merged)[2]
  THEN [merged EXCEPT ![Len(merged)][2] = Max2(@, r[2])]
  ELSE Append(merged, r)

\* One round of the loop in _merge_ranges.
MergeStep(merged, r) ==
  IF merged # <<>> /\ r[1] <= Last(merged)[2]
  THEN [merged EXCEPT ![Len(merged)][2] = Max2(@, r[2])]
  ELSE Append(merged, r)

\* sorted(): the members of S in the order of Less.
Sorted(S, Less(_, _)) ==
  CHOOSE seq \in [1..Cardinality(S) -> S] :
    Range(seq) = S /\ \A i, j \in DOMAIN seq : i < j => Less(seq[i], seq[j])

MergeRanges(ranges) ==
  LET sorted == Sorted(ranges, Before)
      merged[i \in 0..Len(sorted)] == IF i = 0 THEN <<>> ELSE MergeStep(merged[i - 1], sorted[i])
  IN merged[Len(sorted)]

\* The while loop that cuts [s, e) into pieces of at most limit units.
Pieces(s, e, limit) == {[from |-> s + i * limit, size |-> Min2(limit, e - s - i * limit)] :
                          i \in 0..((e - s - 1) \div limit)}

\* Pieces in the order the loop makes them.
InOrder(S) == Sorted(S, LAMBDA c, d : c.from < d.from)
=============================================================================
