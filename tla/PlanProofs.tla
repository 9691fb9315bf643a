------------------------------ MODULE PlanProofs ------------------------------
(***************************************************************************)
(* Facts about merging, cutting and ordering ranges of units, for every    *)
(* PDU limit and every number of ranges.                                   *)
(***************************************************************************)
EXTENDS Plan, FiniteSetTheorems, WellFoundedInduction, TLAPS

-----------------------------------------------------------------------------
(* Induction, with a set of numbers for the property *)

\* A non-empty set of natural numbers has a least one.
LEMMA LeastNumber ==
  ASSUME NEW T \in SUBSET Nat, T # {}
  PROVE  \E m \in T : \A n \in T : m <= n
<1> DEFINE R == OpToRel(<, Nat)
<1>1. IsWellFoundedOn(R, Nat)
  BY NatLessThanWellFounded
<1>2. \A x, y \in Nat : <<y, x>> \in R <=> y < x
  BY DEF OpToRel
<1> HIDE DEF R
<1>3. PICK m \in T : \A y \in T : ~(<<y, m>> \in R)
  BY <1>1, WFMin
<1>4. ASSUME NEW n \in T PROVE m <= n
  <2>1. m \in Nat /\ n \in Nat
    OBVIOUS
  <2>2. ~(n < m)
    BY <1>2, <1>3, <2>1
  <2> QED BY <2>1, <2>2
<1> QED BY <1>4

\* A set that holds 0 and with each number the next one holds them all.
LEMMA Induction ==
  ASSUME NEW S, 0 \in S, \A n \in Nat : n \in S => n + 1 \in S
  PROVE  Nat \subseteq S
<1> SUFFICES ASSUME ~(Nat \subseteq S) PROVE FALSE
  OBVIOUS
<1> DEFINE T == Nat \ S
<1>1. T \in SUBSET Nat /\ T # {}
  OBVIOUS
<1>2. PICK m \in T : \A n \in T : m <= n
  <2> HIDE DEF T
  <2> QED BY <1>1, LeastNumber
<1>3. m # 0 /\ m - 1 \in Nat
  OBVIOUS
<1>4. m - 1 \in S
  BY <1>2, <1>3
<1> QED BY <1>3, <1>4

-----------------------------------------------------------------------------
(* Recursion *)

\* A function of the natural numbers may be defined by its value at 0 and, for
\* each number, from its value before.
IsStep(V, H) == H \in [V \X Nat -> V]
Recursive(V, base, H) ==
  \E f \in [Nat -> V] : f[0] = base /\ \A i \in Nat \ {0} : f[i] = H[<<f[i - 1], i>>]
Steps0(V, base, H, n, g) == /\ g \in [0..n -> V] /\ g[0] = base
                            /\ \A i \in 1..n : g[i] = H[<<g[i - 1], i>>]
\* Such a function exists.
LEMMA Recursion ==
  ASSUME NEW V, NEW base, base \in V, NEW H, IsStep(V, H)
  PROVE  Recursive(V, base, H)
<1>0. H \in [V \X Nat -> V]
  BY DEF IsStep
<1> DEFINE P(n, g) == Steps0(V, base, H, n, g)
           S == {n \in Nat : \E g : P(n, g)}
<1>1. Nat \subseteq S
  <2>1. 0 \in S
    <3>1. P(0, [i \in 0..0 |-> base])
      BY DEF Steps0
    <3> HIDE DEF P
    <3> QED BY <3>1
  <2>2. ASSUME NEW n \in Nat, n \in S PROVE n + 1 \in S
    <3>1. PICK g : P(n, g)
      BY <2>2
    <3> DEFINE h == [i \in 0..(n + 1) |-> IF i = n + 1 THEN H[<<g[n], n + 1>>] ELSE g[i]]
    <3>2. /\ g \in [0..n -> V] /\ g[0] = base /\ \A i \in 1..n : g[i] = H[<<g[i - 1], i>>]
      BY <3>1 DEF Steps0
    <3>3. H[<<g[n], n + 1>>] \in V
      BY <1>0, <3>2
    <3>4. h \in [0..(n + 1) -> V] /\ h[0] = base
      BY <3>2, <3>3
    <3>5. ASSUME NEW i \in 1..(n + 1) PROVE h[i] = H[<<h[i - 1], i>>]
      <4>1. CASE i = n + 1
        <5>1. i - 1 = n /\ n \in 0..(n + 1) /\ n # n + 1 /\ i \in 0..(n + 1)
          BY <4>1
        <5> QED BY <4>1, <5>1
      <4>2. CASE i # n + 1
        <5>1. /\ i \in 1..n /\ i - 1 \in 0..(n + 1) /\ i - 1 # n + 1 /\ i \in 0..(n + 1)
          BY <4>2
        <5> QED BY <3>2, <4>2, <5>1
      <4> QED BY <4>1, <4>2
    <3> HIDE DEF h
    <3>6. P(n + 1, h)
      BY <3>4, <3>5 DEF Steps0
    <3> HIDE DEF P
    <3> QED BY <3>6
  <2> HIDE DEF S
  <2> QED BY <2>1, <2>2, Induction
<1>2. ASSUME NEW m \in Nat, NEW n \in Nat, NEW g, NEW h, P(m, g), P(n, h), NEW k \in Nat, k <= m, k <= n
      PROVE  g[k] = h[k]
  <2> DEFINE T == {i \in Nat : i <= m /\ i <= n => g[i] = h[i]}
  <2>0. /\ g[0] = base /\ \A i \in 1..m : g[i] = H[<<g[i - 1], i>>]
        /\ h[0] = base /\ \A i \in 1..n : h[i] = H[<<h[i - 1], i>>]
    BY <1>2 DEF Steps0
  <2>1. 0 \in T
    BY <2>0
  <2>2. ASSUME NEW i \in Nat, i \in T PROVE i + 1 \in T
    <3> SUFFICES ASSUME i + 1 <= m, i + 1 <= n PROVE g[i + 1] = h[i + 1]
      OBVIOUS
    <3>1. i + 1 \in 1..m /\ i + 1 \in 1..n /\ (i + 1) - 1 = i /\ g[i] = h[i]
      BY <2>2
    <3> QED BY <2>0, <3>1
  <2>3. Nat \subseteq T
    <3> HIDE DEF T
    <3> QED BY <2>1, <2>2, Induction
  <2> QED BY <1>2, <2>3
<1> DEFINE G == [n \in Nat |-> CHOOSE g : P(n, g)]
           f == [n \in Nat |-> G[n][n]]
<1>3. \A n \in Nat : P(n, G[n])
  <2> HIDE DEF P
  <2> QED BY <1>1
<1> HIDE DEF G
<1>4. \A n \in Nat : f[n] \in V /\ f[n] = G[n][n]
  <2>1. ASSUME NEW n \in Nat PROVE G[n][n] \in V
    BY <1>3 DEF Steps0
  <2> QED BY <2>1
<1>5. f[0] = base
  BY <1>3, <1>4 DEF Steps0
<1>6. ASSUME NEW i \in Nat \ {0} PROVE f[i] = H[<<f[i - 1], i>>]
  <2>1. i \in Nat /\ i - 1 \in Nat /\ i \in 1..i /\ i - 1 <= i /\ i - 1 <= i - 1
    OBVIOUS
  <2>2. P(i, G[i]) /\ P(i - 1, G[i - 1])
    BY <1>3, <2>1
  <2>3. G[i][i] = H[<<G[i][i - 1], i>>]
    BY <2>1, <2>2 DEF Steps0
  <2>4. G[i][i - 1] = G[i - 1][i - 1]
    <3> HIDE DEF P
    <3> QED BY <1>2, <2>1, <2>2
  <2> HIDE DEF f
  <2> QED BY <1>4, <2>1, <2>3, <2>4
<1>7. f \in [Nat -> V]
  BY <1>4
<1> HIDE DEF f
<1> QED BY <1>5, <1>6, <1>7 DEF Recursive

-----------------------------------------------------------------------------
(* Sorting *)

\* A finite set can be put in any strict order of its members.
LEMMA SortExists ==
  ASSUME NEW S, IsFiniteSet(S), NEW R,
         \A c, d, e \in S : <<c, d>> \in R /\ <<d, e>> \in R => <<c, e>> \in R,
         \A c, d \in S : <<c, d>> \in R => <<d, c>> \notin R,
         \A c, d \in S : c = d \/ <<c, d>> \in R \/ <<d, c>> \in R
  PROVE  \E seq \in [1..Cardinality(S) -> S] :
           /\ \A i, j \in DOMAIN seq : i < j => <<seq[i], seq[j]>> \in R
           /\ Range(seq) = S
<1> DEFINE n == Cardinality(S)
           Below(c) == {d \in S : d = c \/ <<d, c>> \in R}
           rank == [c \in S |-> Cardinality(Below(c))]
<1>1. n \in Nat
  BY FS_CardinalityType
<1>2. ASSUME NEW c \in S PROVE IsFiniteSet(Below(c)) /\ Cardinality(Below(c)) \in 1..n
  <2>1. Below(c) \subseteq S /\ c \in Below(c)
    OBVIOUS
  <2>2. IsFiniteSet(Below(c)) /\ Cardinality(Below(c)) <= n
    BY <2>1, FS_Subset
  <2>3. Cardinality(Below(c)) \in Nat /\ Cardinality(Below(c)) # 0
    BY <2>1, <2>2, FS_CardinalityType, FS_EmptySet
  <2> QED BY <1>1, <2>2, <2>3
<1>3. ASSUME NEW c \in S, NEW d \in S, <<c, d>> \in R
      PROVE  Cardinality(Below(c)) < Cardinality(Below(d))
  <2>1. Below(c) \subseteq Below(d) /\ d \in Below(d) /\ d \notin Below(c)
    BY <1>3
  <2>2. Cardinality(Below(c)) <= Cardinality(Below(d))
        /\ (Cardinality(Below(c)) = Cardinality(Below(d)) => Below(c) = Below(d))
    BY <1>2, <2>1, FS_Subset
  <2>3. Cardinality(Below(c)) \in Int /\ Cardinality(Below(d)) \in Int
    <3> HIDE DEF Below
    <3> QED BY <1>1, <1>2
  <2>4. Below(c) # Below(d)
    BY <2>1
  <2> HIDE DEF Below
  <2> QED BY <2>2, <2>3, <2>4
<1>4. ASSUME NEW c \in S, NEW d \in S, Cardinality(Below(c)) = Cardinality(Below(d)) PROVE c = d
  <2>1. Cardinality(Below(c)) \in Int
    <3> HIDE DEF Below
    <3> QED BY <1>1, <1>2
  <2> HIDE DEF Below
  <2>2. ~(Cardinality(Below(c)) < Cardinality(Below(d))) /\ ~(Cardinality(Below(d)) < Cardinality(Below(c)))
    BY <1>4, <2>1
  <2> QED BY <1>3, <2>2
<1>5. rank \in Injection(S, 1..n)
  <2>1. rank \in [S -> 1..n]
    BY <1>2
  <2>2. \A c, d \in DOMAIN rank : rank[c] = rank[d] => c = d
    BY <1>4
  <2> QED BY <2>1, <2>2 DEF Injection, IsInjective
<1>6. IsFiniteSet(1..n) /\ Cardinality(1..n) = n
  BY <1>1, FS_Interval
<1>7. rank \in Surjection(S, 1..n)
  <2> HIDE DEF rank
  <2> QED BY <1>5, <1>6, FS_Injection
<1>8. \A i \in 1..n : \E c \in S : Cardinality(Below(c)) = i
  BY <1>7 DEF Surjection
<1> DEFINE seq == [i \in 1..n |-> CHOOSE c \in S : Cardinality(Below(c)) = i]
<1>9. \A i \in 1..n : seq[i] \in S /\ Cardinality(Below(seq[i])) = i
  <2> HIDE DEF Below
  <2> QED BY <1>8
<1>10. seq \in [1..n -> S]
  BY <1>9
<1>11. ASSUME NEW i \in 1..n, NEW j \in 1..n, i < j PROVE <<seq[i], seq[j]>> \in R
  <2>1. /\ seq[i] \in S /\ seq[j] \in S
        /\ Cardinality(Below(seq[i])) = i /\ Cardinality(Below(seq[j])) = j
    BY <1>9
  <2>2. seq[j] # seq[i]
    <3> HIDE DEF seq, Below
    <3> QED BY <1>11, <2>1
  <2>3. <<seq[j], seq[i]>> \notin R
    <3> HIDE DEF seq, Below
    <3> QED BY <1>3, <1>11, <2>1
  <2> HIDE DEF seq
  <2> QED BY <2>1, <2>2, <2>3
<1>12. ASSUME NEW c \in S PROVE \E i \in 1..n : seq[i] = c
  <2> HIDE DEF seq, Below
  <2> QED BY <1>2, <1>4, <1>9
<1> HIDE DEF seq, n
<1>13. Range(seq) = S
  BY <1>10, <1>12 DEF Range
<1> QED BY <1>10, <1>11, <1>13 DEF n

-----------------------------------------------------------------------------
(* Cutting *)

\* What division by the limit means.
LEMMA Division ==
  ASSUME NEW a \in Int, NEW n \in Nat \ {0}
  PROVE  /\ a \div n \in Int
         /\ (a \div n) * n <= a /\ a < (a \div n) * n + n
OBVIOUS

\* The quotient is known by the multiples around the number.
LEMMA Quotient ==
  ASSUME NEW a \in Int, NEW n \in Nat \ {0}, NEW i \in Int,
         i * n <= a, a < i * n + n
  PROVE  a \div n = i
<1> DEFINE q == a \div n
<1>1. q \in Int /\ q * n <= a /\ a < q * n + n
  BY Division
<1> HIDE DEF q
<1>2. ASSUME q < i PROVE FALSE
  <2>1. i - q - 1 \in Nat
    BY <1>1, <1>2
  <2>2. (i - q - 1) * n >= 0
    BY <2>1
  <2>3. (i - q - 1) * n = i * n - q * n - n
    BY <1>1
  <2> QED BY <1>1, <2>2, <2>3
<1>3. ASSUME i < q PROVE FALSE
  <2>1. q - i - 1 \in Nat
    BY <1>1, <1>3
  <2>2. (q - i - 1) * n >= 0
    BY <2>1
  <2>3. (q - i - 1) * n = q * n - i * n - n
    BY <1>1
  <2> QED BY <1>1, <2>2, <2>3
<1>4. q = i
  BY <1>1, <1>2, <1>3
<1> QED BY <1>4 DEF q

\* A larger number has no smaller quotient.
LEMMA QuotientGrows ==
  ASSUME NEW a \in Int, NEW b \in Int, NEW n \in Nat \ {0}, a <= b
  PROVE  a \div n <= b \div n
<1> DEFINE q == a \div n
           r == b \div n
<1>1. /\ q \in Int /\ q * n <= a /\ a < q * n + n
      /\ r \in Int /\ r * n <= b /\ b < r * n + n
  BY Division
<1> HIDE DEF q, r
<1>2. ASSUME r < q PROVE FALSE
  <2>1. q - r - 1 \in Nat
    BY <1>1, <1>2
  <2>2. (q - r - 1) * n >= 0
    BY <2>1
  <2>3. (q - r - 1) * n = q * n - r * n - n
    BY <1>1
  <2> QED BY <1>1, <2>2, <2>3
<1>3. q <= r
  BY <1>1, <1>2
<1> QED BY <1>3 DEF q, r

\* The units of a piece.
Span(c) == c.from..(c.from + c.size - 1)

\* The pieces of [s, e), each by its number: the units with that quotient.
LEMMA PieceUnits ==
  ASSUME NEW s \in Int, NEW e \in Int, NEW limit \in Nat \ {0},
         NEW c \in Pieces(s, e, limit)
  PROVE  /\ c.from \in Int /\ c.size \in 1..limit /\ (c.from - s) \div limit \in Nat
         /\ c = [from |-> c.from, size |-> c.size]
         /\ c.from = s + ((c.from - s) \div limit) * limit
         /\ c.from \in s..(e - 1)
         /\ \A a \in Int : a \in Span(c) <=>
              a \in s..(e - 1) /\ (a - s) \div limit = (c.from - s) \div limit
<1>1. PICK i \in 0..((e - s - 1) \div limit) :
        c = [from |-> s + i * limit, size |-> Min2(limit, e - s - i * limit)]
  BY DEF Pieces
<1> DEFINE top == (e - s - 1) \div limit
<1>2. top \in Int /\ top * limit <= e - s - 1
  BY Division
<1>3. i \in Nat /\ i <= top
  BY <1>1, <1>2
<1> HIDE DEF top
<1>4. i * limit \in Int /\ i * limit >= 0 /\ i * limit <= top * limit
  <2>1. (top - i) * limit >= 0 /\ (top - i) * limit = top * limit - i * limit
    BY <1>2, <1>3
  <2>2. i * limit \in Int /\ i * limit >= 0
    BY <1>3
  <2> QED BY <1>2, <2>1, <2>2
<1> DEFINE m == i * limit
<1>5. m \in Int /\ m >= 0 /\ m <= e - s - 1
  BY <1>2, <1>4
<1>6. m \div limit = i
  BY <1>3, <1>5, Quotient
<1>7. c.from = s + m /\ c.size = Min2(limit, e - s - m)
  BY <1>1
<1>8. ASSUME NEW a \in Int
      PROVE  a \in Span(c) <=> a \in s..(e - 1) /\ (a - s) \div limit = i
  <2>1. a \in Span(c) <=> s + m <= a /\ a < s + m + limit /\ a < e
    <3> HIDE DEF m
    <3> QED BY <1>5, <1>7 DEF Span, Min2
  <2>2. (a - s) \div limit = i <=> m <= a - s /\ a - s < m + limit
    <3>1. ASSUME (a - s) \div limit = i PROVE m <= a - s /\ a - s < m + limit
      BY <3>1, Division
    <3>2. ASSUME m <= a - s /\ a - s < m + limit PROVE (a - s) \div limit = i
      BY <1>3, <3>2, Quotient
    <3> QED BY <3>1, <3>2
  <2> HIDE DEF m
  <2> QED BY <1>5, <2>1, <2>2
<1> HIDE DEF m
<1>9. c.from - s = m /\ c.from \in Int /\ c.size \in 1..limit /\ c.from \in s..(e - 1)
  BY <1>5, <1>7 DEF Min2
<1>10. c.from = s + i * limit
  BY <1>1
<1>11. c = [from |-> c.from, size |-> c.size]
  BY <1>1
<1> QED BY <1>3, <1>6, <1>8, <1>9, <1>10, <1>11

\* Every unit of [s, e) is in the piece that its quotient names.
LEMMA PieceOf ==
  ASSUME NEW s \in Int, NEW e \in Int, NEW limit \in Nat \ {0},
         NEW a \in s..(e - 1)
  PROVE  \E c \in Pieces(s, e, limit) : a \in Span(c) /\ c.from = s + ((a - s) \div limit) * limit
<1> DEFINE i == (a - s) \div limit
<1>1. a \in Int /\ a - s \in Int /\ e - s - 1 \in Int /\ a - s <= e - s - 1 /\ a - s >= 0
  OBVIOUS
<1>2. i \in Int /\ i * limit <= a - s /\ a - s < i * limit + limit /\ i * limit \in Int
  BY <1>1, Division
<1>3. i <= (e - s - 1) \div limit
  BY <1>1, QuotientGrows
<1>4. 0 <= i
  <2>1. 0 \div limit = 0
    BY Quotient
  <2> QED BY <1>1, <2>1, QuotientGrows
<1> DEFINE m == i * limit
           top == (e - s - 1) \div limit
           c == [from |-> s + i * limit, size |-> Min2(limit, e - s - i * limit)]
<1>5. top \in Int
  BY <1>1, Division
<1> HIDE DEF i
<1>6. i \in 0..top
  BY <1>2, <1>3, <1>4, <1>5
<1>7. c \in Pieces(s, e, limit)
  BY <1>6 DEF Pieces
<1>8. a \in Span(c)
  <2>1. m \in Int /\ m <= a - s /\ a - s < m + limit /\ c.from = s + m
        /\ c.size = Min2(limit, e - s - m)
    BY <1>2
  <2> HIDE DEF m, c
  <2> QED BY <1>1, <2>1 DEF Span, Min2
<1> QED BY <1>7, <1>8 DEF i
\* Finitely many pieces, which start at different units.
LEMMA PiecesDiffer ==
  ASSUME NEW s \in Int, NEW e \in Int, NEW limit \in Nat \ {0}
  PROVE  /\ IsFiniteSet(Pieces(s, e, limit))
         /\ \A c \in Pieces(s, e, limit) : c.from \in Int
         /\ \A c, d \in Pieces(s, e, limit) : c.from = d.from => c = d
<1> DEFINE m == (e - s - 1) \div limit
           piece(i) == [from |-> s + i * limit, size |-> Min2(limit, e - s - i * limit)]
           f == [i \in 0..m |-> piece(i)]
<1>1. m \in Int
  OBVIOUS
<1>2. Pieces(s, e, limit) = {piece(i) : i \in 0..m}
  BY DEF Pieces
<1>3. IsFiniteSet(0..m)
  BY <1>1, FS_Interval
<1>4. f \in Surjection(0..m, Pieces(s, e, limit))
  <2> HIDE DEF m, piece
  <2>1. f \in [0..m -> Pieces(s, e, limit)]
    BY <1>2
  <2>2. \A c \in Pieces(s, e, limit) : \E i \in 0..m : f[i] = c
    BY <1>2
  <2> QED BY <2>1, <2>2 DEF Surjection
<1>5. IsFiniteSet(Pieces(s, e, limit))
  <2> HIDE DEF f, m
  <2> QED BY <1>3, <1>4, FS_Surjection
<1>6. ASSUME NEW i \in 0..m, NEW j \in 0..m, piece(i).from = piece(j).from PROVE i = j
  <2>1. i \in Int /\ j \in Int /\ limit \in Int
    BY <1>1
  <2>2. s + i * limit = s + j * limit
    BY <1>6
  <2>3. i * limit = j * limit
    BY <2>1, <2>2
  <2>4. (i - j) * limit = 0
    BY <2>1, <2>3
  <2> QED BY <2>1, <2>4
<1>7. \A i \in 0..m : piece(i).from \in Int
  BY <1>1
<1> HIDE DEF piece, m
<1> QED BY <1>2, <1>5, <1>6, <1>7

\* Finitely many requests that start at different units, in the order of their
\* starts.
LEMMA PiecesInOrder ==
  ASSUME NEW S, IsFiniteSet(S), \A c \in S : c.from \in Int,
         \A c, d \in S : c.from = d.from => c = d
  PROVE  /\ InOrder(S) \in [1..Cardinality(S) -> S]
         /\ \A i, j \in 1..Cardinality(S) : i < j => InOrder(S)[i].from < InOrder(S)[j].from
<1> DEFINE R == {x \in S \X S : x[1].from < x[2].from}
           n == Cardinality(S)
           q == InOrder(S)
<1>1. \A c, d \in S : <<c, d>> \in R <=> c.from < d.from
  OBVIOUS
<1> HIDE DEF R
<1>2. /\ \A c, d, e \in S : <<c, d>> \in R /\ <<d, e>> \in R => <<c, e>> \in R
      /\ \A c, d \in S : <<c, d>> \in R => <<d, c>> \notin R
      /\ \A c, d \in S : c = d \/ <<c, d>> \in R \/ <<d, c>> \in R
  BY <1>1
<1>3. \E seq \in [1..n -> S] : /\ \A i, j \in DOMAIN seq : i < j => <<seq[i], seq[j]>> \in R
                               /\ Range(seq) = S
  BY <1>2, SortExists
<1>4. \E seq \in [1..n -> S] : Range(seq) = S
                               /\ \A i, j \in DOMAIN seq : i < j => seq[i].from < seq[j].from
  BY <1>1, <1>3
<1>5. q \in [1..n -> S] /\ \A i, j \in DOMAIN q : i < j => q[i].from < q[j].from
  BY <1>4, Zenon DEF InOrder, Sorted
<1> QED BY <1>5

-----------------------------------------------------------------------------
(* Merging *)

\* Python's order on pairs is a strict order.
LEMMA BeforeOrder ==
  /\ \A c, d, e \in Int \X Int : Before(c, d) /\ Before(d, e) => Before(c, e)
  /\ \A c, d \in Int \X Int : Before(c, d) => ~Before(d, c)
  /\ \A c, d \in Int \X Int : c = d \/ Before(c, d) \/ Before(d, c)
<1>1. \A c \in Int \X Int : c[1] \in Int /\ c[2] \in Int /\ c = <<c[1], c[2]>>
  OBVIOUS
<1>2. \A c, d, e \in Int \X Int : Before(c, d) /\ Before(d, e) => Before(c, e)
  BY <1>1 DEF Before
<1>3. \A c, d \in Int \X Int : Before(c, d) => ~Before(d, c)
  BY <1>1 DEF Before
<1>4. \A c, d \in Int \X Int : c = d \/ Before(c, d) \/ Before(d, c)
  BY <1>1 DEF Before
<1> QED BY <1>2, <1>3, <1>4

\* Python's sorted() of ranges.
LEMMA SortedRanges ==
  ASSUME NEW S \in SUBSET (Int \X Int), IsFiniteSet(S), NEW q, q = Sorted(S, Before)
  PROVE  /\ q \in [1..Cardinality(S) -> S] /\ Range(q) = S
         /\ \A i, j \in 1..Cardinality(S) : i < j => Before(q[i], q[j])
<1> DEFINE R == {x \in S \X S : Before(x[1], x[2])}
           n == Cardinality(S)
<1>1. \A c, d \in S : <<c, d>> \in R <=> Before(c, d)
  OBVIOUS
<1> HIDE DEF R
<1>2. /\ \A c, d, e \in S : <<c, d>> \in R /\ <<d, e>> \in R => <<c, e>> \in R
      /\ \A c, d \in S : <<c, d>> \in R => <<d, c>> \notin R
      /\ \A c, d \in S : c = d \/ <<c, d>> \in R \/ <<d, c>> \in R
  BY <1>1, BeforeOrder
<1>3. \E seq \in [1..n -> S] : /\ \A i, j \in DOMAIN seq : i < j => <<seq[i], seq[j]>> \in R
                               /\ Range(seq) = S
  BY <1>2, SortExists
<1>4. \E seq \in [1..n -> S] : Range(seq) = S /\ \A i, j \in DOMAIN seq : i < j => Before(seq[i], seq[j])
  BY <1>1, <1>3
<1>5. q \in [1..n -> S] /\ Range(q) = S /\ \A i, j \in DOMAIN q : i < j => Before(q[i], q[j])
  BY <1>4, Zenon DEF Sorted
<1> QED BY <1>5

\* Ranges in order, each separate from the next; and the units they cover.
Apart(m) == /\ m \in Seq(Int \X Int)
            /\ \A k \in 1..Len(m) : m[k][1] < m[k][2]
            /\ \A k, l \in 1..Len(m) : k < l => m[k][2] < m[l][1]
Covers(m, u) == \E k \in 1..Len(m) : m[k][1] <= u /\ u < m[k][2]

\* A range with another end.
LEMMA NewEnd ==
  ASSUME NEW t \in Int \X Int, NEW y \in Int
  PROVE  [t EXCEPT ![2] = y] = <<t[1], y>> /\ [t EXCEPT ![2] = y] \in Int \X Int
OBVIOUS

\* A range that the last one reaches moves that one's end.
Moved(m, r, x) ==
  /\ x \in Seq(Int \X Int) /\ Len(x) = Len(m) /\ x # <<>>
  /\ \A k \in 1..Len(m) :
       /\ x[k][1] = m[k][1]
       /\ x[k][2] = IF k = Len(m) THEN Max2(m[k][2], r[2]) ELSE m[k][2]
\* A range that reaches the last merged one lengthens it.
LEMMA MergeInto ==
  ASSUME NEW m \in Seq(Int \X Int), NEW r \in Int \X Int, m # <<>>, r[1] <= m[Len(m)][2],
         NEW x, x = MergeStep(m, r)
  PROVE  Moved(m, r, x)
<1> DEFINE n == Len(m)
           t == m[n]
           y == Max2(t[2], r[2])
           z == [t EXCEPT ![2] = y]
<1>1. n \in Nat /\ n \in 1..n /\ t \in Int \X Int /\ t[1] \in Int /\ t[2] \in Int
  OBVIOUS
<1>2. y \in Int
  BY <1>1 DEF Max2
<1>3. x = [m EXCEPT ![n] = z]
  BY DEF MergeStep, Last
<1> HIDE DEF y
<1>4. z = <<t[1], y>> /\ z \in Int \X Int
  <2> HIDE DEF t
  <2> QED BY <1>1, <1>2, NewEnd
<1> HIDE DEF z
<1>5. x \in Seq(Int \X Int) /\ Len(x) = n
  BY <1>1, <1>3, <1>4
<1>6. \A k \in 1..n : x[k] = IF k = n THEN z ELSE m[k]
  BY <1>1, <1>3
<1>7. x # <<>>
  BY <1>1, <1>5
<1>8. z[1] = t[1] /\ z[2] = y
  BY <1>1, <1>2, <1>4
<1>9. ASSUME NEW k \in 1..n
      PROVE  x[k][1] = m[k][1] /\ x[k][2] = IF k = n THEN y ELSE m[k][2]
  <2>1. CASE k = n
    <3>1. x[k] = z /\ m[k] = t
      BY <1>6, <2>1
    <3> HIDE DEF t
    <3> QED BY <1>8, <2>1, <3>1
  <2>2. CASE k # n
    BY <1>6, <2>2
  <2> QED BY <2>1, <2>2
<1> QED BY <1>5, <1>7, <1>9 DEF y, Moved

\* One round of the loop adds a range that starts no earlier than the last.
LEMMA MergeOne ==
  ASSUME NEW m, Apart(m), NEW r \in Int \X Int, r[1] < r[2], m # <<>> => Last(m)[1] <= r[1],
         NEW x, x = MergeStep(m, r)
  PROVE  /\ Apart(x) /\ x # <<>> /\ Last(x)[1] <= r[1]
         /\ \A u \in Int : Covers(x, u) <=> Covers(m, u) \/ (r[1] <= u /\ u < r[2])
<1> DEFINE n == Len(m)
<1>1. /\ m \in Seq(Int \X Int) /\ n \in Nat
      /\ \A k \in 1..n : m[k] \in Int \X Int /\ m[k][1] \in Int /\ m[k][2] \in Int
      /\ \A k \in 1..n : m[k][1] < m[k][2]
      /\ \A k, l \in 1..n : k < l => m[k][2] < m[l][1]
  BY DEF Apart
<1>2. r[1] \in Int /\ r[2] \in Int
  OBVIOUS
<1>3. CASE m # <<>> /\ r[1] <= m[n][2]
  <2> DEFINE y == Max2(m[n][2], r[2])
  <2>1. n \in 1..n
    BY <1>1, <1>3
  <2>2. y \in Int /\ m[n][2] <= y /\ r[2] <= y /\ (y = m[n][2] \/ y = r[2])
    BY <1>1, <1>2, <2>1 DEF Max2
  <2> HIDE DEF y
  <2>3. /\ x \in Seq(Int \X Int) /\ Len(x) = n
        /\ \A k \in 1..n : x[k][1] = m[k][1] /\ x[k][2] = IF k = n THEN y ELSE m[k][2]
    <3>1. m # <<>> /\ r[1] <= m[Len(m)][2] /\ m \in Seq(Int \X Int)
      BY <1>1, <1>3
    <3>2. /\ x \in Seq(Int \X Int) /\ Len(x) = Len(m)
          /\ \A k \in 1..Len(m) :
               /\ x[k][1] = m[k][1]
               /\ x[k][2] = IF k = Len(m) THEN Max2(m[k][2], r[2]) ELSE m[k][2]
      <4>1. Moved(m, r, x)
        BY <3>1, MergeInto
      <4> QED BY <4>1 DEF Moved
    <3>3. \A k \in 1..n : x[k][1] = m[k][1] /\ x[k][2] = IF k = n THEN y ELSE m[k][2]
      BY <3>2, Zenon DEF y
    <3> QED BY <3>2, <3>3
  <2>4. m[n][1] <= r[1]
    BY <1>3 DEF Last
  <2> HIDE DEF n
  <2>5. Apart(x)
    <3>1. ASSUME NEW k \in 1..n PROVE x[k][1] < x[k][2]
      <4>1. m[k][1] < m[k][2] /\ m[k][1] \in Int /\ m[k][2] \in Int
        BY <1>1
      <4>2. x[k][1] = m[k][1] /\ (x[k][2] = m[k][2] \/ (k = n /\ x[k][2] = y))
        BY <2>3
      <4> QED BY <2>2, <4>1, <4>2
    <3>2. ASSUME NEW k \in 1..n, NEW l \in 1..n, k < l PROVE x[k][2] < x[l][1]
      <4>1. k # n
        BY <1>1, <3>2
      <4> QED BY <1>1, <2>3, <3>2, <4>1
    <3> QED BY <2>3, <3>1, <3>2 DEF Apart
  <2>6. x # <<>> /\ Last(x)[1] <= r[1]
    <3>1. x # <<>>
      BY <1>1, <2>1, <2>3
    <3> QED BY <2>1, <2>3, <2>4, <3>1 DEF Last
  <2>7. ASSUME NEW u \in Int PROVE Covers(x, u) <=> Covers(m, u) \/ (r[1] <= u /\ u < r[2])
    <3>1. ASSUME Covers(m, u) PROVE Covers(x, u)
      <4>1. PICK k \in 1..n : m[k][1] <= u /\ u < m[k][2]
        BY <3>1 DEF Covers, n
      <4>2. x[k][1] = m[k][1] /\ m[k][2] <= x[k][2] /\ x[k][2] \in Int /\ m[k][2] \in Int
        <5>1. m[k][1] \in Int /\ m[k][2] \in Int
          BY <1>1
        <5>2. x[k][1] = m[k][1] /\ (x[k][2] = m[k][2] \/ (k = n /\ x[k][2] = y))
          BY <2>3
        <5> QED BY <2>2, <5>1, <5>2
      <4>3. x[k][1] <= u /\ u < x[k][2]
        BY <4>1, <4>2
      <4> QED BY <2>3, <4>3 DEF Covers
    <3>2. ASSUME r[1] <= u, u < r[2] PROVE Covers(x, u)
      <4>1. x[n][1] <= u /\ u < x[n][2]
        BY <1>1, <1>2, <2>1, <2>2, <2>3, <2>4, <3>2
      <4> QED BY <2>1, <2>3, <4>1 DEF Covers
    <3>3. ASSUME Covers(x, u), ~(r[1] <= u /\ u < r[2]) PROVE Covers(m, u)
      <4>1. PICK k \in 1..n : x[k][1] <= u /\ u < x[k][2]
        BY <2>3, <3>3 DEF Covers
      <4>2. /\ x[k][1] = m[k][1] /\ m[k][2] \in Int
            /\ x[k][2] = m[k][2] \/ (k = n /\ x[k][2] = r[2])
        BY <1>1, <2>2, <2>3
      <4>3. m[k][1] <= u /\ u < m[k][2]
        <5>1. CASE x[k][2] = m[k][2]
          BY <4>1, <4>2, <5>1
        <5>2. CASE k = n /\ x[k][2] = r[2]
          <6>1. u < r[1]
            BY <1>2, <3>3, <4>1, <5>2
          <6>2. r[1] <= m[k][2]
            BY <1>3, <5>2 DEF n
          <6> QED BY <1>2, <4>1, <4>2, <6>1, <6>2
        <5> QED BY <4>2, <5>1, <5>2
      <4> QED BY <4>3 DEF Covers, n
    <3> QED BY <3>1, <3>2, <3>3
  <2> QED BY <2>5, <2>6, <2>7
<1>4. CASE ~(m # <<>> /\ r[1] <= m[n][2])
  <2>1. x = Append(m, r)
    BY <1>4 DEF MergeStep, Last
  <2>2. /\ x \in Seq(Int \X Int) /\ Len(x) = n + 1 /\ x[n + 1] = r
        /\ \A k \in 1..n : x[k] = m[k]
    BY <1>1, <2>1
  <2>3. ASSUME NEW k \in 1..n PROVE m[k][2] < r[1]
    <3>1. n \in 1..n /\ m # <<>>
      BY <1>1
    <3>2. m[n][2] \in Int /\ r[1] \in Int /\ m[n][2] < r[1]
      BY <1>1, <1>2, <1>4, <3>1
    <3>3. CASE k = n
      BY <3>2, <3>3
    <3>4. CASE k # n
      <4>1. m[k][2] < m[n][1] /\ m[n][1] < m[n][2] /\ m[k][2] \in Int /\ m[n][1] \in Int
        BY <1>1, <3>1, <3>4
      <4> QED BY <3>2, <4>1
    <3> QED BY <3>3, <3>4
  <2>4. \A k \in 1..(n + 1) : k \in 1..n \/ k = n + 1
    BY <1>1
  <2> HIDE DEF n
  <2>5. Apart(x)
    <3>1. ASSUME NEW k \in 1..(n + 1) PROVE x[k][1] < x[k][2]
      BY <1>1, <2>2, <2>4
    <3>2. ASSUME NEW k \in 1..(n + 1), NEW l \in 1..(n + 1), k < l PROVE x[k][2] < x[l][1]
      <4>1. k \in 1..n
        BY <1>1, <3>2
      <4>2. CASE l = n + 1
        BY <2>2, <2>3, <4>1, <4>2
      <4>3. CASE l \in 1..n
        BY <1>1, <2>2, <3>2, <4>1, <4>3
      <4> QED BY <2>4, <4>2, <4>3
    <3> QED BY <2>2, <3>1, <3>2 DEF Apart
  <2>6. x # <<>> /\ Last(x)[1] <= r[1]
    BY <1>1, <1>2, <2>2 DEF Last
  <2>7. ASSUME NEW u \in Int PROVE Covers(x, u) <=> Covers(m, u) \/ (r[1] <= u /\ u < r[2])
    <3>1. ASSUME Covers(m, u) PROVE Covers(x, u)
      <4>1. PICK k \in 1..n : m[k][1] <= u /\ u < m[k][2]
        BY <3>1 DEF Covers, n
      <4>2. k \in 1..(n + 1) /\ x[k] = m[k]
        BY <1>1, <2>2
      <4> QED BY <2>2, <4>1, <4>2 DEF Covers
    <3>2. ASSUME r[1] <= u, u < r[2] PROVE Covers(x, u)
      <4>1. n + 1 \in 1..(n + 1)
        BY <1>1
      <4> QED BY <2>2, <3>2, <4>1 DEF Covers
    <3>3. ASSUME Covers(x, u), ~(r[1] <= u /\ u < r[2]) PROVE Covers(m, u)
      <4>1. PICK k \in 1..(n + 1) : x[k][1] <= u /\ u < x[k][2]
        BY <2>2, <3>3 DEF Covers
      <4>2. k \in 1..n /\ x[k] = m[k]
        BY <2>2, <2>4, <3>3, <4>1
      <4> QED BY <4>1, <4>2 DEF Covers, n
    <3> QED BY <3>1, <3>2, <3>3
  <2> QED BY <2>5, <2>6, <2>7
<1> QED BY <1>3, <1>4

\* _merge_ranges gives separate ranges that cover the units of those given.
LEMMA Merged ==
  ASSUME NEW S \in SUBSET (Int \X Int), IsFiniteSet(S), \A r \in S : r[1] < r[2]
  PROVE  /\ Apart(MergeRanges(S))
         /\ \A u \in Int : Covers(MergeRanges(S), u) <=> \E r \in S : r[1] <= u /\ u < r[2]
<1> DEFINE q == Sorted(S, Before)
           N == Cardinality(S)
           F(g) == [i \in 0..Len(q) |-> IF i = 0 THEN <<>> ELSE MergeStep(g[i - 1], q[i])]
           V == Seq(Int \X Int)
           merged == CHOOSE g : g = F(g)
<1>1. MergeRanges(S) = merged[Len(q)]
  BY DEF MergeRanges
<1>2. /\ q \in [1..N -> S] /\ Range(q) = S
      /\ \A i, j \in 1..N : i < j => Before(q[i], q[j])
  BY SortedRanges
<1>3. N \in Nat
  BY FS_CardinalityType
<1> HIDE DEF q, N
<1>4. Len(q) = N
  <2>1. q \in Seq(S)
    BY <1>2, <1>3
  <2> QED BY <1>2, <1>3, <2>1
<1> DEFINE H == [x \in V \X Nat |-> IF x[2] \in 1..N THEN MergeStep(x[1], q[x[2]]) ELSE x[1]]
<1>5. IsStep(V, H)
  <2>1. ASSUME NEW m \in V, NEW r \in Int \X Int PROVE MergeStep(m, r) \in V
    <3>1. CASE m # <<>> /\ r[1] <= m[Len(m)][2]
      BY <3>1, MergeInto DEF Moved
    <3>2. CASE ~(m # <<>> /\ r[1] <= m[Len(m)][2])
      BY <3>2 DEF MergeStep, Last
    <3> QED BY <3>1, <3>2
  <2>2. ASSUME NEW m \in V, NEW k \in Nat
        PROVE  (IF k \in 1..N THEN MergeStep(m, q[k]) ELSE m) \in V
    BY <1>2, <2>1
  <2> HIDE DEF V
  <2> QED BY <2>2 DEF IsStep
<1>6. \E g : g = F(g)
  <2>1. <<>> \in V
    OBVIOUS
  <2>2. PICK f \in [Nat -> V] : f[0] = <<>> /\ \A i \in Nat \ {0} : f[i] = H[<<f[i - 1], i>>]
    <3> DEFINE base == <<>>
    <3> HIDE DEF V, H, base
    <3>1. base \in V
      BY <2>1 DEF base
    <3>2. Recursive(V, base, H)
      BY <1>5, <3>1, Recursion
    <3> QED BY <3>2 DEF base, Recursive
  <2> DEFINE g == [i \in 0..N |-> f[i]]
  <2>3. ASSUME NEW i \in 0..N
        PROVE  g[i] = IF i = 0 THEN <<>> ELSE MergeStep(g[i - 1], q[i])
    <3>1. CASE i = 0
      BY <1>3, <2>2, <3>1
    <3>2. CASE i # 0
      <4>1. i \in Nat \ {0} /\ i \in 1..N /\ i - 1 \in 0..N /\ i - 1 \in Nat
        BY <1>3, <3>2
      <4>2. f[i] = H[<<f[i - 1], i>>] /\ f[i - 1] \in V
        BY <2>2, <4>1
      <4>3. H[<<f[i - 1], i>>] = MergeStep(f[i - 1], q[i])
        <5> HIDE DEF V
        <5> QED BY <4>1, <4>2
      <4>4. g[i] = f[i] /\ g[i - 1] = f[i - 1]
        BY <4>1
      <4> HIDE DEF g, H
      <4> QED BY <3>2, <4>2, <4>3, <4>4
    <3> QED BY <3>1, <3>2
  <2>4. g = [i \in 0..N |-> IF i = 0 THEN <<>> ELSE MergeStep(g[i - 1], q[i])]
    <3>1. g = [i \in 0..N |-> g[i]]
      OBVIOUS
    <3> HIDE DEF g
    <3> QED BY <2>3, <3>1
  <2>5. g = F(g)
    <3> HIDE DEF g
    <3> QED BY <1>4, <2>4
  <2> QED BY <2>5
<1>7. merged = F(merged)
  <2> HIDE DEF F
  <2> QED BY <1>6
<1> HIDE DEF merged, H, V
<1>8. /\ merged[0] = <<>>
      /\ \A i \in 1..N : merged[i] = MergeStep(merged[i - 1], q[i])
  <2>1. \A i \in 0..N : merged[i] = IF i = 0 THEN <<>> ELSE MergeStep(merged[i - 1], q[i])
    BY <1>4, <1>7
  <2> HIDE DEF F
  <2>2. \A i \in 1..N : i \in 0..N /\ i # 0
    BY <1>3
  <2> QED BY <1>3, <2>1, <2>2
<1> DEFINE Good(i) == /\ Apart(merged[i])
                      /\ i > 0 => merged[i] # <<>> /\ Last(merged[i])[1] <= q[i][1]
                      /\ i = 0 => merged[i] = <<>>
                      /\ \A u \in Int : Covers(merged[i], u) <=>
                                          \E j \in 1..i : q[j][1] <= u /\ u < q[j][2]
           T == {i \in Nat : i <= N => Good(i)}
<1>9. Nat \subseteq T
  <2>1. 0 \in T
    <3>1. <<>> \in Seq(Int \X Int) /\ Len(<<>>) = 0
      OBVIOUS
    <3>2. Apart(<<>>) /\ \A u \in Int : ~Covers(<<>>, u)
      BY <3>1 DEF Apart, Covers
    <3> QED BY <1>8, <3>2
  <2>2. ASSUME NEW i \in Nat, i \in T PROVE i + 1 \in T
    <3> SUFFICES ASSUME i + 1 <= N PROVE Good(i + 1)
      OBVIOUS
    <3>1. i + 1 \in 1..N /\ (i + 1) - 1 = i /\ i <= N /\ (i > 0 => i \in 1..N)
      BY <1>3
    <3>2. merged[i + 1] = MergeStep(merged[i], q[i + 1])
      BY <1>8, <3>1
    <3> DEFINE m == merged[i]
               r == q[i + 1]
               x == merged[i + 1]
    <3>3. Good(i)
      BY <2>2, <3>1
    <3>4. r \in Int \X Int /\ r[1] < r[2] /\ r[1] \in Int /\ r[2] \in Int
      BY <1>2, <3>1
    <3>5. m # <<>> => Last(m)[1] <= r[1]
      <4> SUFFICES ASSUME m # <<>> PROVE Last(m)[1] <= r[1]
        OBVIOUS
      <4>1. i > 0
        BY <3>3
      <4>2. Last(m)[1] <= q[i][1]
        BY <3>3, <4>1
      <4>3. Before(q[i], q[i + 1]) /\ q[i] \in Int \X Int /\ q[i][1] \in Int
        BY <1>2, <3>1, <4>1
      <4>4. Last(m)[1] \in Int
        <5>1. m \in Seq(Int \X Int)
          BY <3>3 DEF Apart
        <5> HIDE DEF m, Good
        <5>2. m[Len(m)] \in Int \X Int
          BY <5>1
        <5> QED BY <5>2 DEF Last
      <4>5. q[i][1] <= r[1]
        BY <3>4, <4>3 DEF Before
      <4> HIDE DEF m, r
      <4> QED BY <3>4, <4>2, <4>3, <4>4, <4>5
    <3>6. /\ Apart(x) /\ x # <<>> /\ Last(x)[1] <= r[1]
          /\ \A u \in Int : Covers(x, u) <=> Covers(m, u) \/ (r[1] <= u /\ u < r[2])
      <4>1. Apart(m) /\ x = MergeStep(m, r)
        BY <3>2, <3>3
      <4> HIDE DEF m, r, x, Good
      <4> QED BY <3>4, <3>5, <4>1, MergeOne
    <3>7. \A u \in Int : Covers(x, u) <=> \E j \in 1..(i + 1) : q[j][1] <= u /\ u < q[j][2]
      <4>1. \A j : j \in 1..(i + 1) <=> j \in 1..i \/ j = i + 1
        OBVIOUS
      <4>2. \A u \in Int : Covers(m, u) <=> \E j \in 1..i : q[j][1] <= u /\ u < q[j][2]
        BY <3>3
      <4> HIDE DEF Good, x, m
      <4> QED BY <3>6, <4>1, <4>2
    <3> QED BY <3>6, <3>7
  <2> HIDE DEF T
  <2> QED BY <2>1, <2>2, Induction
<1>10. Good(N)
  BY <1>3, <1>9
<1>11. \A u : (\E j \in 1..N : q[j][1] <= u /\ u < q[j][2]) <=> \E r \in S : r[1] <= u /\ u < r[2]
  BY <1>2 DEF Range
<1> HIDE DEF T, F
<1> QED BY <1>1, <1>4, <1>10, <1>11
=============================================================================
