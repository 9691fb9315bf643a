---------------------------- MODULE PlannerProofs ----------------------------
(***************************************************************************)
(* Proofs about Planner and the codec it decodes with, for every batch,    *)
(* memory, PDU limit, address space and width of a byte.                   *)
(***************************************************************************)
EXTENDS Planner, PlanProofs

-----------------------------------------------------------------------------
(* The invariant of a call *)

\* What _validate_read_item and the encoders let pass.
AllValid == \A i \in DOMAIN batch.items : Valid(batch.op, batch.items[i])

\* The plan that validation is followed by.
PlanOf == IF batch.op = "read" THEN PlanReadChunks(batch.items) ELSE PlanWrites(batch.items)

\* What the device returned for a chunk when its memory had version v.
Fetched(c, v) == [i \in 1..c.count |-> [addr |-> c.start + i - 1, version |-> v,
                                        value |-> Stored(c.area, c.start + i - 1, v)]]

\* A chunk that succeeded was within the address space, all its units come
\* from one moment, and a written one is in the device.
ChunkInv(c) ==
  /\ state[c] \in {"new", "sent", "ok", "error", "raised"}
  /\ state[c] \in {"sent", "ok", "error"} => c.start \in 0..AddressMax
  /\ state[c] = "ok" => End(c) - 1 <= AddressMax
  /\ state[c] = "ok" /\ batch.op = "read" => \E v \in {0, 1} : got[c] = Fetched(c, v)
  /\ state[c] = "ok" /\ batch.op = "write" => Written(c) \subseteq applied

\* The call: a plan is there exactly when the items were valid, and it is theirs.
CallInv ==
  /\ batch \in Batches /\ version \in {0, 1}
  /\ phase \in {"called", "running", "done", "rejected", "raised"}
  /\ phase \in {"called", "rejected"} => plan = {}
  /\ phase = "called" => results = <<>>
  /\ Planned => AllValid /\ plan = IF batch.items = <<>> THEN {} ELSE PlanOf
  /\ phase \in {"running", "raised"} => batch.items # <<>>
  /\ DOMAIN state = plan /\ DOMAIN got = plan

\* The outcome: a call raises for a chunk that starts outside the address
\* space, and the returned list was assembled from the chunks as they are now.
OutcomeInv ==
  /\ phase = "raised" => \E c \in plan : c.start \notin 0..AddressMax
  /\ phase = "done" =>
       /\ \A c \in plan : state[c] \in {"ok", "error"}
       /\ DOMAIN results = DOMAIN batch.items
       /\ \A i \in DOMAIN results :
            results[i] = IF batch.op = "read" THEN DecodeReadItem(batch.items[i])
                                              ELSE WriteResult(i)

\* The inductive invariant.
IInv == /\ CallInv
        /\ \A c \in plan : ChunkInv(c)
        /\ OutcomeInv

\* What would be assembled depends on the plan and its results only.
LEMMA SameResults ==
  ASSUME plan' = plan, state' = state, got' = got, NEW CONSTANT x
  PROVE  DecodeReadItem(x)' = DecodeReadItem(x) /\ WriteResult(x)' = WriteResult(x)
<1>1. Covering(x)' = Covering(x)
  BY DEF Covering, End
<1>2. ASSUME NEW CONSTANT q PROVE Flat(q)' = Flat(q)
  BY DEF Flat
<1>3. DecodeReadItem(x)' = DecodeReadItem(x)
  BY <1>1, <1>2, Zenon DEF DecodeReadItem
<1>4. WriteResult(x)' = WriteResult(x)
  BY DEF WriteResult
<1> QED BY <1>3, <1>4

\* Validation and planning.
LEMMA BeginStep ==
  ASSUME IInv, Begin
  PROVE  IInv'
<1>1. /\ phase = "called" /\ plan = {} /\ results = <<>> /\ batch' = batch /\ version' = version /\ applied' = applied
      /\ results' = results /\ DOMAIN state = {} /\ DOMAIN got = {}
      /\ batch \in Batches /\ version \in {0, 1}
  BY DEF IInv, CallInv, Begin
<1>2. CASE batch.items = <<>> /\ phase' = "done" /\ UNCHANGED <<plan, state, got>>
  <2>1. CallInv'
    BY <1>1, <1>2 DEF CallInv, Planned, AllValid
  <2>2. OutcomeInv'
    BY <1>1, <1>2 DEF OutcomeInv
  <2> QED BY <1>1, <1>2, <2>1, <2>2 DEF IInv
<1>3. CASE phase' = "rejected" /\ UNCHANGED <<plan, state, got>>
  <2>1. CallInv'
    BY <1>1, <1>3 DEF CallInv, Planned
  <2>2. OutcomeInv'
    BY <1>1, <1>3 DEF OutcomeInv
  <2> QED BY <1>1, <1>3, <2>1, <2>2 DEF IInv
<1>4. CASE /\ batch.items # <<>> /\ AllValid /\ phase' = "running" /\ plan' = PlanOf
           /\ state' = [c \in plan' |-> "new"] /\ got' = [c \in plan' |-> <<>>]
  <2>1. AllValid' /\ PlanOf' = PlanOf
    BY <1>1, <1>4 DEF AllValid, PlanOf
  <2>2. CallInv'
    BY <1>1, <1>4, <2>1 DEF CallInv, Planned
  <2>3. ASSUME NEW c \in plan' PROVE ChunkInv(c)'
    <3>1. state'[c] = "new"
      BY <1>4
    <3> QED BY <3>1 DEF ChunkInv
  <2>4. OutcomeInv'
    BY <1>4 DEF OutcomeInv
  <2> QED BY <2>2, <2>3, <2>4 DEF IInv
<1> QED BY <1>2, <1>3, <1>4 DEF Begin, AllValid, PlanOf

\* The results stay what they are while the call's chunks do.
LEMMA OutcomeKept ==
  ASSUME OutcomeInv, UNCHANGED <<batch, phase, plan, state, got, results>>
  PROVE  OutcomeInv'
<1>1. ASSUME NEW CONSTANT x
      PROVE  DecodeReadItem(x)' = DecodeReadItem(x) /\ WriteResult(x)' = WriteResult(x)
  BY SameResults
<1>2. ASSUME NEW CONSTANT i, phase = "done", i \in DOMAIN results
      PROVE  results'[i] = (IF batch.op = "read" THEN DecodeReadItem(batch.items[i])
                                                 ELSE WriteResult(i))'
  <2>1. PICK x : x = batch.items[i]
    OBVIOUS
  <2>2. batch'.items[i] = x /\ batch'.op = batch.op /\ results' = results
    BY <2>1
  <2>3. results[i] = IF batch.op = "read" THEN DecodeReadItem(x) ELSE WriteResult(i)
    BY <1>2, <2>1 DEF OutcomeInv
  <2>4. DecodeReadItem(batch.items[i])' = DecodeReadItem(x)'
    BY <2>2
  <2> QED BY <1>1, <2>2, <2>3, <2>4
<1> QED BY <1>2 DEF OutcomeInv

\* What a chunk fetches or writes depends on the batch only.
LEMMA SameChunk ==
  ASSUME batch' = batch, NEW CONSTANT c
  PROVE  /\ \A v : Fetched(c, v)' = Fetched(c, v)
         /\ Written(c)' = Written(c)
<1>1. ASSUME NEW CONSTANT v PROVE Fetched(c, v)' = Fetched(c, v)
  BY DEF Fetched, Stored
<1>2. Written(c)' = Written(c)
  BY DEF Written, Encoded
<1> QED BY <1>1, <1>2

\* A chunk that a step does not concern.
LEMMA ChunkKept ==
  ASSUME batch' = batch, NEW CONSTANT c, ChunkInv(c), state'[c] = state[c], got'[c] = got[c],
         applied \subseteq applied'
  PROVE  ChunkInv(c)'
<1>1. /\ \A v : Fetched(c, v)' = Fetched(c, v)
      /\ Written(c)' = Written(c)
  BY SameChunk
<1>2. batch'.op = batch.op
  OBVIOUS
<1> QED BY <1>1, <1>2 DEF ChunkInv

\* The steps of one chunk's task leave the plan and the other chunks alone.
LEMMA ChunkStep ==
  ASSUME IInv, NEW CONSTANT c, c \in plan, Send(c) \/ Reply(c) \/ Fail(c), ChunkInv(c)',
         DOMAIN state' = plan, DOMAIN got' = plan,
         \A d \in plan \ {c} : state'[d] = state[d] /\ got'[d] = got[d],
         applied \subseteq applied',
         phase' = phase \/ (phase' = "raised" /\ c.start \notin 0..AddressMax)
  PROVE  IInv'
<1>1. /\ batch' = batch /\ plan' = plan /\ version' = version /\ results' = results
      /\ state[c] \in {"new", "sent"}
  BY DEF Send, Reply, Fail
<1>2. phase \in {"running", "raised"}
  BY <1>1 DEF IInv, CallInv, OutcomeInv
<1>3. phase' \in {"running", "raised"} /\ Planned
  BY <1>2 DEF Planned
<1>4. CallInv'
  <2>1. AllValid' = AllValid /\ PlanOf' = PlanOf
    BY <1>1 DEF AllValid, PlanOf
  <2> QED BY <1>1, <1>2, <1>3, <2>1 DEF IInv, CallInv, Planned
<1>5. ASSUME NEW d \in plan' PROVE ChunkInv(d)'
  <2>1. CASE d = c
    BY <2>1
  <2>2. CASE d # c
    <3>1. ChunkInv(d) /\ state'[d] = state[d] /\ got'[d] = got[d]
      BY <1>1, <2>2 DEF IInv
    <3> QED BY <1>1, <3>1, ChunkKept
  <2> QED BY <2>1, <2>2
<1>6. OutcomeInv'
  <2>1. phase' # "done"
    BY <1>3
  <2>2. phase' = "raised" => \E d \in plan' : d.start \notin 0..AddressMax
    BY <1>1 DEF IInv, OutcomeInv
  <2> QED BY <2>1, <2>2 DEF OutcomeInv
<1> QED BY <1>4, <1>5, <1>6 DEF IInv

\* The chunk steps one by one.
LEMMA SendStep ==
  ASSUME IInv, NEW CONSTANT c, c \in plan, Send(c)
  PROVE  IInv'
<1>1. /\ batch' = batch /\ got' = got /\ applied' = applied /\ DOMAIN state = plan /\ DOMAIN got = plan
  BY DEF Send, IInv, CallInv
<1>2. /\ state' = [state EXCEPT ![c] = IF c.start \in 0..AddressMax THEN "sent" ELSE "raised"]
      /\ phase' = phase \/ (phase' = "raised" /\ c.start \notin 0..AddressMax)
  BY DEF Send
<1>3. /\ DOMAIN state' = plan /\ \A d \in plan \ {c} : state'[d] = state[d]
      /\ state'[c] = IF c.start \in 0..AddressMax THEN "sent" ELSE "raised"
  BY <1>1, <1>2
<1>4. ChunkInv(c)'
  BY <1>3 DEF ChunkInv
<1> QED BY <1>1, <1>2, <1>3, <1>4, ChunkStep

\* The device serves a chunk: what it returns, or has written, is of one moment.
LEMMA ReplyStep ==
  ASSUME IInv, NEW CONSTANT c, c \in plan, Reply(c)
  PROVE  IInv'
<1>1. /\ batch' = batch /\ phase' = phase /\ DOMAIN state = plan /\ DOMAIN got = plan
      /\ state' = [state EXCEPT ![c] = "ok"] /\ state[c] = "sent" /\ End(c) - 1 <= AddressMax
      /\ version \in {0, 1} /\ ChunkInv(c) /\ batch.op \in {"read", "write"}
  BY BatchAssumption DEF Reply, IInv, CallInv
<1>2. /\ DOMAIN state' = plan /\ \A d \in plan \ {c} : state'[d] = state[d]
      /\ state'[c] = "ok"
  BY <1>1
<1>3. /\ \A v : Fetched(c, v)' = Fetched(c, v)
      /\ Written(c)' = Written(c)
  BY <1>1, SameChunk
<1>4. CASE batch.op = "read"
  <2>1. got' = [got EXCEPT ![c] = Fetched(c, version)] /\ applied' = applied
    BY <1>4 DEF Reply, Fetched
  <2>2. DOMAIN got' = plan /\ \A d \in plan \ {c} : got'[d] = got[d]
    BY <1>1, <2>1
  <2>3. got'[c] = Fetched(c, version)
    BY <1>1, <2>1
  <2>4. \E v \in {0, 1} : got'[c] = Fetched(c, v)'
    BY <1>1, <1>3, <2>3
  <2>5. ChunkInv(c)'
    BY <1>1, <1>2, <1>4, <2>4 DEF ChunkInv
  <2> QED BY <1>1, <1>2, <2>1, <2>2, <2>5, ChunkStep
<1>5. CASE batch.op = "write"
  <2>1. got' = got /\ applied' = applied \cup Written(c)
    BY <1>5 DEF Reply
  <2>2. ChunkInv(c)'
    BY <1>1, <1>2, <1>3, <1>5, <2>1 DEF ChunkInv
  <2> QED BY <1>1, <1>2, <2>1, <2>2, ChunkStep
<1> QED BY <1>1, <1>4, <1>5

\* A chunk that fails may or may not have been served.
LEMMA FailStep ==
  ASSUME IInv, NEW CONSTANT c, c \in plan, Fail(c)
  PROVE  IInv'
<1>1. /\ batch' = batch /\ phase' = phase /\ DOMAIN state = plan /\ DOMAIN got = plan
      /\ state' = [state EXCEPT ![c] = "error"] /\ state[c] = "sent" /\ got' = got
      /\ ChunkInv(c)
  BY DEF Fail, IInv, CallInv
<1>2. /\ DOMAIN state' = plan /\ \A d \in plan \ {c} : state'[d] = state[d]
      /\ state'[c] = "error"
  BY <1>1
<1>3. applied \subseteq applied'
  BY DEF Fail
<1>4. ChunkInv(c)'
  BY <1>1, <1>2 DEF ChunkInv
<1> QED BY <1>1, <1>2, <1>3, <1>4, ChunkStep

\* gather returns.
LEMMA ReturnStep ==
  ASSUME IInv, Return
  PROVE  IInv'
<1>1. /\ UNCHANGED <<batch, plan, state, got, version, applied>>
      /\ phase = "running" /\ phase' = "done" /\ Planned
      /\ \A c \in plan : state[c] \in {"ok", "error"}
  BY DEF Return, Planned
<1>2. CallInv'
  <2>1. AllValid' = AllValid /\ PlanOf' = PlanOf
    BY <1>1 DEF AllValid, PlanOf
  <2> QED BY <1>1, <2>1 DEF IInv, CallInv, Planned
<1>3. ASSUME NEW c \in plan' PROVE ChunkInv(c)'
  <2>1. ChunkInv(c)
    BY <1>1 DEF IInv
  <2> QED BY <1>1, <2>1, ChunkKept
<1>4. OutcomeInv'
  <2>1. DOMAIN results' = DOMAIN batch'.items
    BY <1>1 DEF Return
  <2>2. ASSUME NEW CONSTANT x
        PROVE  DecodeReadItem(x)' = DecodeReadItem(x) /\ WriteResult(x)' = WriteResult(x)
    BY <1>1, SameResults
  <2>3. ASSUME NEW CONSTANT i, i \in DOMAIN results'
        PROVE  results'[i] = (IF batch.op = "read" THEN DecodeReadItem(batch.items[i])
                                                   ELSE WriteResult(i))'
    <3>1. PICK x : x = batch.items[i]
      OBVIOUS
    <3>2. batch'.items[i] = x /\ batch'.op = batch.op
      BY <1>1, <3>1
    <3>3. results'[i] = IF batch.op = "read" THEN DecodeReadItem(x) ELSE WriteResult(i)
      BY <1>1, <2>1, <2>3, <3>1 DEF Return
    <3>4. DecodeReadItem(batch.items[i])' = DecodeReadItem(x)'
      BY <3>2
    <3> QED BY <2>2, <3>2, <3>3, <3>4
  <2> QED BY <1>1, <2>1, <2>3 DEF OutcomeInv
<1> QED BY <1>2, <1>3, <1>4 DEF IInv

\* The steps that leave the call alone.
LEMMA OtherStep ==
  ASSUME IInv, DeviceUpdate \/ UNCHANGED vars
  PROVE  IInv'
<1>1. UNCHANGED <<batch, phase, plan, state, got, applied, results>> /\ version' \in {0, 1}
  BY DEF DeviceUpdate, vars, IInv, CallInv
<1>2. CallInv'
  <2>1. AllValid' = AllValid /\ PlanOf' = PlanOf
    BY <1>1 DEF AllValid, PlanOf
  <2> QED BY <1>1, <2>1 DEF IInv, CallInv, Planned
<1>3. ASSUME NEW c \in plan' PROVE ChunkInv(c)'
  <2>1. ChunkInv(c)
    BY <1>1 DEF IInv
  <2> QED BY <1>1, <2>1, ChunkKept
<1>4. OutcomeInv'
  BY <1>1, OutcomeKept DEF IInv
<1> QED BY <1>2, <1>3, <1>4 DEF IInv

\* A call's plan, its chunks' results and the list it returns belong together
\* in every reachable state.
THEOREM Invariance == Spec => []IInv
<1>1. Init => IInv
  <2> SUFFICES ASSUME Init PROVE IInv
    OBVIOUS
  <2>1. CallInv
    BY DEF Init, CallInv, Planned
  <2>2. OutcomeInv /\ plan = {}
    BY DEF Init, OutcomeInv
  <2> QED BY <2>1, <2>2 DEF IInv
<1>2. IInv /\ [Next]_vars => IInv'
  <2> SUFFICES ASSUME IInv, [Next]_vars PROVE IInv'
    OBVIOUS
  <2>1. CASE Begin
    BY <2>1, BeginStep
  <2>2. CASE Return
    BY <2>2, ReturnStep
  <2>3. CASE DeviceUpdate \/ UNCHANGED vars
    BY <2>3, OtherStep
  <2>4. ASSUME NEW c \in plan, Send(c) \/ Reply(c) \/ Fail(c) PROVE IInv'
    BY <2>4, SendStep, ReplyStep, FailStep
  <2>5. CASE Terminated
    BY <2>5, OtherStep DEF Terminated
  <2> QED BY <2>1, <2>2, <2>3, <2>4, <2>5 DEF Next
<1> QED BY <1>1, <1>2, PTL DEF Spec

-----------------------------------------------------------------------------
(* Chunks *)

\* A chunk cut from [s, e): the units of one quotient.
InPiece(c, s, e, limit) ==
  /\ c.count \in 1..limit /\ c.start \in s..(e - 1)
  /\ (c.start - s) \div limit \in Nat
  /\ c.start = s + ((c.start - s) \div limit) * limit
  /\ \A a \in Int : a \in Units(c) <=>
       a \in s..(e - 1) /\ (a - s) \div limit = (c.start - s) \div limit

\* A request made for a piece has the piece's units.
LEMMA SameUnits ==
  ASSUME NEW p, NEW c, c.start = p.from, c.count = p.size, p.from \in Int, p.size \in Int
  PROVE  Units(c) = Span(p)
<1>1. End(c) - 1 = p.from + p.size - 1
  BY DEF End
<1> QED BY <1>1 DEF Units, Span

\* A chunk made for a piece is cut like it.
LEMMA ChunkOfPiece ==
  ASSUME NEW s \in Int, NEW e \in Int, NEW limit \in Nat \ {0}, NEW p \in Pieces(s, e, limit),
         NEW c, c.start = p.from, c.count = p.size
  PROVE  InPiece(c, s, e, limit)
<1>1. /\ p.from \in Int /\ p.size \in 1..limit /\ (p.from - s) \div limit \in Nat
      /\ p.from = s + ((p.from - s) \div limit) * limit
      /\ p.from \in s..(e - 1)
      /\ \A a \in Int : a \in Span(p) <=>
           a \in s..(e - 1) /\ (a - s) \div limit = (p.from - s) \div limit
  BY PieceUnits
<1>2. Units(c) = Span(p)
  BY <1>1, SameUnits
<1> QED BY <1>1, <1>2 DEF InPiece

\* Two chunks of one range: the same units, or none in common and starts at
\* least one limit apart.
LEMMA OneRange ==
  ASSUME NEW s \in Int, NEW e \in Int, NEW limit \in Nat \ {0}, NEW c, NEW d,
         InPiece(c, s, e, limit), InPiece(d, s, e, limit)
  PROVE  /\ c.start = d.start => c.count = d.count
         /\ c.start # d.start => Units(c) \cap Units(d) = {}
         /\ c.start < d.start => d.start - c.start >= limit
<1> DEFINE i == (c.start - s) \div limit
           j == (d.start - s) \div limit
<1>1. /\ c.count \in 1..limit /\ c.start \in Int /\ i \in Nat /\ c.start = s + i * limit
      /\ d.count \in 1..limit /\ d.start \in Int /\ j \in Nat /\ d.start = s + j * limit
  BY DEF InPiece
<1>2. /\ \A a \in Int : a \in Units(c) <=> a \in s..(e - 1) /\ (a - s) \div limit = i
      /\ \A a \in Int : a \in Units(d) <=> a \in s..(e - 1) /\ (a - s) \div limit = j
  BY DEF InPiece
<1> HIDE DEF i, j
<1>3. /\ \A a : a \in Units(c) <=> a \in Int /\ c.start <= a /\ a < c.start + c.count
      /\ \A a : a \in Units(d) <=> a \in Int /\ d.start <= a /\ a < d.start + d.count
  BY <1>1 DEF Units, End
<1>4. ASSUME c.start = d.start PROVE c.count = d.count
  <2>1. i = j
    BY <1>4 DEF i, j
  <2>2. \A a \in Int : a \in Units(c) <=> a \in Units(d)
    BY <1>2, <2>1
  <2>3. c.start + c.count - 1 \in Units(d) /\ d.start + d.count - 1 \in Units(c)
    <3>1. /\ c.start + c.count - 1 \in Int /\ c.start + c.count - 1 \in Units(c)
          /\ d.start + d.count - 1 \in Int /\ d.start + d.count - 1 \in Units(d)
      BY <1>1, <1>3
    <3> QED BY <2>2, <3>1
  <2> QED BY <1>1, <1>3, <1>4, <2>3
<1>5. ASSUME c.start # d.start PROVE Units(c) \cap Units(d) = {}
  <2>1. i # j
    BY <1>1, <1>5
  <2>2. ASSUME NEW a \in Units(c), a \in Units(d) PROVE FALSE
    BY <1>2, <1>3, <2>1, <2>2
  <2> QED BY <2>2
<1>6. ASSUME c.start < d.start PROVE d.start - c.start >= limit
  <2> DEFINE x == i * limit
             y == j * limit
  <2>1. x \in Int /\ y \in Int /\ x < y
    BY <1>1, <1>6
  <2>2. i < j
    <3>1. ASSUME j <= i PROVE FALSE
      <4>1. (i - j) \in Nat
        BY <1>1, <3>1
      <4>2. (i - j) * limit >= 0 /\ (i - j) * limit = x - y
        BY <1>1, <4>1
      <4> HIDE DEF x, y
      <4> QED BY <2>1, <4>2
    <3> QED BY <1>1, <3>1
  <2>3. (j - i - 1) * limit >= 0
    <3>1. j - i - 1 \in Nat
      BY <1>1, <2>2
    <3> QED BY <3>1
  <2>4. (j - i - 1) * limit = y - x - limit
    BY <1>1
  <2>5. d.start - c.start = y - x
    BY <1>1
  <2> HIDE DEF x, y
  <2> QED BY <2>1, <2>3, <2>4, <2>5
<1> QED BY <1>4, <1>5, <1>6

-----------------------------------------------------------------------------
(* The plan of a read *)

\* Read items that passed validation.
GoodReads(items) == items \in Seq(ReadItems) /\ \A i \in DOMAIN items : items[i].count > 0

\* The numbers of a read item.
LEMMA ReadFields ==
  ASSUME NEW items, GoodReads(items)
  PROVE  /\ Len(items) \in Nat /\ DOMAIN items = 1..Len(items)
         /\ \A i \in DOMAIN items :
              /\ items[i] \in ReadItems
              /\ items[i].start \in Int /\ items[i].count \in Nat /\ items[i].count > 0
              /\ items[i].area \in Areas
<1>1. \A x \in ReadItems : x.start \in Int /\ x.count \in Int /\ x.area \in Areas
  BY DEF ReadItems
<1>2. items \in Seq(ReadItems) /\ \A i \in DOMAIN items : items[i].count > 0
  BY DEF GoodReads
<1>3. \A i \in DOMAIN items : items[i] \in ReadItems
  BY <1>2
<1>4. Len(items) \in Nat /\ DOMAIN items = 1..Len(items)
  BY <1>2
<1> QED BY <1>1, <1>2, <1>3, <1>4

\* The ranges given to _merge_ranges.
LEMMA Ranges ==
  ASSUME NEW items, GoodReads(items), NEW area
  PROVE  /\ RangesOf(area, items) \in SUBSET (Int \X Int)
         /\ IsFiniteSet(RangesOf(area, items))
         /\ \A r \in RangesOf(area, items) : r[1] < r[2]
<1> DEFINE D == {j \in DOMAIN items : items[j].area = area}
           R(i) == <<items[i].start, items[i].start + items[i].count>>
           f == [i \in D |-> R(i)]
<1>1. /\ Len(items) \in Nat /\ DOMAIN items = 1..Len(items)
      /\ \A i \in DOMAIN items : /\ items[i].start \in Int /\ items[i].count \in Int
                                 /\ items[i].count > 0
  BY ReadFields
<1>2. RangesOf(area, items) = {R(i) : i \in D}
  BY DEF RangesOf
<1>3. ASSUME NEW i \in D PROVE R(i) \in Int \X Int /\ R(i)[1] < R(i)[2]
  BY <1>1
<1>4. IsFiniteSet(D)
  <2>1. IsFiniteSet(1..Len(items))
    BY <1>1, FS_Interval
  <2> QED BY <1>1, <2>1, FS_Subset
<1> HIDE DEF D, R
<1>5. IsFiniteSet(RangesOf(area, items))
  <2>1. f \in [D -> RangesOf(area, items)]
    BY <1>2
  <2>2. \A r \in RangesOf(area, items) : \E i \in D : f[i] = r
    BY <1>2
  <2>3. f \in Surjection(D, RangesOf(area, items))
    BY <2>1, <2>2 DEF Surjection
  <2> HIDE DEF f
  <2> QED BY <1>4, <2>3, FS_Surjection
<1> QED BY <1>2, <1>3, <1>5

\* The merged ranges of an area.
M(area, items) == MergeRanges(RangesOf(area, items))

\* The merged ranges of an area are apart and cover the requested units.
LEMMA MergedReads ==
  ASSUME NEW items, GoodReads(items), NEW area
  PROVE  /\ Apart(M(area, items))
         /\ \A u \in Int : Covers(M(area, items), u) <=>
              \E i \in DOMAIN items : /\ items[i].area = area
                                      /\ u \in items[i].start..(items[i].start + items[i].count - 1)
<1> DEFINE S == RangesOf(area, items)
<1>1. S \in SUBSET (Int \X Int) /\ IsFiniteSet(S) /\ \A r \in S : r[1] < r[2]
  BY Ranges
<1>2. /\ \A i \in DOMAIN items : items[i].start \in Int /\ items[i].count \in Int
  BY ReadFields
<1>3. ASSUME NEW u \in Int
      PROVE  (\E r \in S : r[1] <= u /\ u < r[2]) <=>
              \E i \in DOMAIN items : /\ items[i].area = area
                                      /\ u \in items[i].start..(items[i].start + items[i].count - 1)
  <2>1. ASSUME NEW i \in DOMAIN items
        PROVE  u \in items[i].start..(items[i].start + items[i].count - 1) <=>
                 items[i].start <= u /\ u < items[i].start + items[i].count
    BY <1>2
  <2>2. ASSUME NEW i \in DOMAIN items, items[i].area = area,
               u \in items[i].start..(items[i].start + items[i].count - 1)
        PROVE  \E r \in S : r[1] <= u /\ u < r[2]
    <3> DEFINE r == <<items[i].start, items[i].start + items[i].count>>
    <3>1. r \in S
      BY <2>2 DEF RangesOf
    <3>2. r[1] <= u /\ u < r[2]
      BY <2>1, <2>2
    <3> QED BY <3>1, <3>2
  <2>3. ASSUME NEW r \in S, r[1] <= u /\ u < r[2]
        PROVE  \E i \in DOMAIN items : /\ items[i].area = area
                                       /\ u \in items[i].start..(items[i].start + items[i].count - 1)
    <3>1. PICK i \in DOMAIN items : /\ items[i].area = area
                                    /\ r = <<items[i].start, items[i].start + items[i].count>>
      BY DEF RangesOf
    <3>2. items[i].start <= u /\ u < items[i].start + items[i].count
      BY <2>3, <3>1
    <3> QED BY <2>1, <3>1, <3>2
  <2> QED BY <2>2, <2>3
<1> HIDE DEF S
<1>4. /\ Apart(MergeRanges(S))
      /\ \A u \in Int : Covers(MergeRanges(S), u) <=> \E r \in S : r[1] <= u /\ u < r[2]
  BY <1>1, Merged
<1> QED BY <1>3, <1>4 DEF M, S

\* A chunk of the plan of a read.
LEMMA ReadChunk ==
  ASSUME NEW items, GoodReads(items), NEW c \in PlanReadChunks(items)
  PROVE  /\ c.area \in Areas /\ c.item = 0
         /\ c = [area |-> c.area, start |-> c.start, count |-> c.count, item |-> 0]
         /\ \E k \in 1..Len(M(c.area, items)) :
              InPiece(c, M(c.area, items)[k][1], M(c.area, items)[k][2], ReadLimit[c.area])
<1>1. PICK area \in Areas :
        c \in {[area |-> area, start |-> p.from, count |-> p.size, item |-> 0] :
                 p \in UNION {Pieces(r[1], r[2], ReadLimit[area]) : r \in Range(M(area, items))}}
  BY DEF PlanReadChunks, M
<1>2. PICK r \in Range(M(area, items)) : \E p \in Pieces(r[1], r[2], ReadLimit[area]) :
        c = [area |-> area, start |-> p.from, count |-> p.size, item |-> 0]
  BY <1>1
<1>3. PICK p \in Pieces(r[1], r[2], ReadLimit[area]) :
        c = [area |-> area, start |-> p.from, count |-> p.size, item |-> 0]
  BY <1>2
<1>4. c.area = area /\ c.start = p.from /\ c.count = p.size /\ c.item = 0
  BY <1>3
<1> DEFINE m == M(area, items)
<1>5. m \in Seq(Int \X Int)
  BY MergedReads DEF Apart
<1> HIDE DEF m
<1>6. PICK k \in 1..Len(m) : r = m[k]
  BY <1>2, <1>5 DEF Range, m
<1>7. r[1] \in Int /\ r[2] \in Int
  BY <1>5, <1>6
<1>8. InPiece(c, r[1], r[2], ReadLimit[area])
  <2>1. ReadLimit[area] \in Nat \ {0}
    BY LimitAssumption
  <2> QED BY <1>3, <1>4, <1>7, <2>1, ChunkOfPiece
<1>9. c = [area |-> c.area, start |-> c.start, count |-> c.count, item |-> 0]
  BY <1>3, <1>4
<1> QED BY <1>4, <1>6, <1>8, <1>9 DEF m

\* Every unit of a merged range is read.
LEMMA ReadUnit ==
  ASSUME NEW items, GoodReads(items), NEW area \in Areas, NEW u \in Int, Covers(M(area, items), u)
  PROVE  \E c \in PlanReadChunks(items) : c.area = area /\ u \in Units(c)
<1> DEFINE m == M(area, items)
           limit == ReadLimit[area]
<1>1. m \in Seq(Int \X Int)
  BY MergedReads DEF Apart
<1> HIDE DEF m
<1>2. PICK k \in 1..Len(m) : m[k][1] <= u /\ u < m[k][2]
  BY DEF Covers, m
<1> DEFINE r == m[k]
<1>3. r \in Range(m) /\ r[1] \in Int /\ r[2] \in Int /\ u \in r[1]..(r[2] - 1)
  BY <1>1, <1>2 DEF Range
<1>4. limit \in Nat \ {0}
  BY LimitAssumption
<1> HIDE DEF r, limit
<1>5. PICK p \in Pieces(r[1], r[2], limit) : u \in Span(p)
  BY <1>3, <1>4, PieceOf
<1> DEFINE c == [area |-> area, start |-> p.from, count |-> p.size, item |-> 0]
<1>6. c \in PlanReadChunks(items)
  BY <1>3, <1>5 DEF PlanReadChunks, M, m, limit
<1>7. c.area = area /\ c.start = p.from /\ c.count = p.size
  OBVIOUS
<1> HIDE DEF c
<1>8. Units(c) = Span(p)
  <2>1. p.from \in Int /\ p.size \in Int
    BY <1>3, <1>4, <1>5, PieceUnits
  <2> QED BY <1>7, <2>1, SameUnits
<1> QED BY <1>5, <1>6, <1>7, <1>8

\* Chunks of an area: those of different ranges lie on the two sides of a unit
\* that nobody asked for.
LEMMA TwoRanges ==
  ASSUME NEW m, Apart(m), NEW limit \in Nat \ {0}, NEW c, NEW d, NEW k \in 1..Len(m),
         NEW l \in 1..Len(m), InPiece(c, m[k][1], m[k][2], limit),
         InPiece(d, m[l][1], m[l][2], limit), k # l
  PROVE  /\ Units(c) \cap Units(d) = {} /\ c.start # d.start
         /\ c.start < d.start => \E u \in c.start..d.start : ~Covers(m, u)
<1> DEFINE n == Len(m)
<1>1. /\ n \in Nat
      /\ \A i \in 1..n : m[i][1] \in Int /\ m[i][2] \in Int
      /\ \A i \in 1..n : m[i][1] < m[i][2]
      /\ \A i, j \in 1..n : i < j => m[i][2] < m[j][1]
  <2>1. m \in Seq(Int \X Int)
    BY DEF Apart
  <2>2. n \in Nat /\ \A i \in 1..n : m[i] \in Int \X Int
    BY <2>1
  <2>3. \A i \in 1..n : m[i][1] \in Int /\ m[i][2] \in Int
    BY <2>2
  <2> QED BY <2>2, <2>3, Zenon DEF Apart
<1>2. /\ c.start \in m[k][1]..(m[k][2] - 1)
      /\ d.start \in m[l][1]..(m[l][2] - 1)
  BY DEF InPiece
<1>3. /\ \A a \in Int : a \in Units(c) => a \in m[k][1]..(m[k][2] - 1)
      /\ \A a \in Int : a \in Units(d) => a \in m[l][1]..(m[l][2] - 1)
      /\ \A a \in Units(c) : a \in Int
  <2>1. c.start \in Int /\ c.count \in Int
    <3>1. c.count \in 1..limit
      BY DEF InPiece
    <3>2. m[k][1] \in Int /\ m[k][2] \in Int
      BY <1>1
    <3> QED BY <1>2, <3>1, <3>2
  <2>2. \A a \in Units(c) : a \in Int
    BY <2>1 DEF Units, End
  <2> QED BY <2>2 DEF InPiece
<1> HIDE DEF n
<1>4. k \in 1..n /\ l \in 1..n /\ (k < l \/ l < k)
  BY <1>1 DEF n
<1>5. m[k][2] < m[l][1] \/ m[l][2] < m[k][1]
  BY <1>1, <1>4
<1>6. /\ m[k][1] \in Int /\ m[k][2] \in Int /\ m[k][1] < m[k][2]
      /\ m[l][1] \in Int /\ m[l][2] \in Int /\ m[l][1] < m[l][2]
  BY <1>1, <1>4
<1>7. Units(c) \cap Units(d) = {}
  <2>1. ASSUME NEW a \in Units(c), a \in Units(d) PROVE FALSE
    BY <1>3, <1>5, <1>6, <2>1
  <2> QED BY <2>1
<1>8. c.start # d.start
  BY <1>2, <1>5, <1>6
<1>9. ASSUME c.start < d.start PROVE \E u \in c.start..d.start : ~Covers(m, u)
  <2> DEFINE u == m[k][2]
  <2>1. m[k][2] < m[l][1] /\ u \in Int
    BY <1>2, <1>5, <1>6, <1>9
  <2>2. u \in c.start..d.start
    BY <1>2, <1>6, <2>1
  <2>3. ASSUME NEW j \in 1..n, m[j][1] <= u, u < m[j][2] PROVE FALSE
    <3>1. j < k \/ j = k \/ k < j
      BY <1>1, <1>4
    <3>2. m[j][1] \in Int /\ m[j][2] \in Int
      BY <1>1
    <3>3. CASE j < k
      <4>1. m[j][2] < m[k][1]
        BY <1>1, <1>4, <3>3
      <4> QED BY <1>6, <2>3, <3>2, <4>1
    <3>4. CASE j = k
      BY <1>6, <2>3, <3>4
    <3>5. CASE k < j
      <4>1. m[k][2] < m[j][1]
        BY <1>1, <1>4, <3>5
      <4> QED BY <1>6, <2>3, <3>2, <4>1
    <3> QED BY <3>1, <3>3, <3>4, <3>5
  <2>4. ~Covers(m, u)
    BY <2>3 DEF Covers, n
  <2> HIDE DEF u
  <2> QED BY <2>2, <2>4
<1> QED BY <1>7, <1>8, <1>9

\* The chunks of an area cover the units R, no unit twice, each fits its PDU,
\* and no two of them could have been one.
PlanGood(P, area, R) ==
  /\ \A c \in P : c.area = area =>
       /\ c.start \in Int /\ c.count \in 1..ReadLimit[area] /\ c.item = 0
       /\ Units(c) \subseteq R
  /\ \A u \in R : \E c \in P : c.area = area /\ u \in Units(c)
  /\ \A c, d \in P : c.area = area /\ d.area = area /\ c # d =>
       c.start # d.start /\ Units(c) \cap Units(d) = {}
  /\ \A c, d \in P : c.area = area /\ d.area = area /\ c.start < d.start =>
       d.start - c.start >= ReadLimit[area] \/ ~(c.start..d.start \subseteq R)

\* What _plan_read_chunks plans for one area.
LEMMA ReadPlanned ==
  ASSUME NEW items, GoodReads(items), NEW area \in Areas, NEW R \in SUBSET Int,
         \A u \in Int : u \in R <=>
           \E i \in DOMAIN items : /\ items[i].area = area
                                   /\ u \in items[i].start..(items[i].start + items[i].count - 1)
  PROVE  PlanGood(PlanReadChunks(items), area, R)
<1> DEFINE P == PlanReadChunks(items)
           m == M(area, items)
           limit == ReadLimit[area]
<1>1. Apart(m) /\ \A u \in Int : Covers(m, u) <=> u \in R
  BY MergedReads
<1>2. limit \in Nat \ {0}
  BY LimitAssumption
<1>3. \A k \in 1..Len(m) : m[k][1] \in Int /\ m[k][2] \in Int
  <2>1. m \in Seq(Int \X Int)
    BY <1>1 DEF Apart
  <2> HIDE DEF m
  <2> QED BY <2>1
<1>4. ASSUME NEW c \in P, c.area = area
      PROVE  /\ c.item = 0 /\ c = [area |-> area, start |-> c.start, count |-> c.count, item |-> 0]
             /\ \E k \in 1..Len(m) : InPiece(c, m[k][1], m[k][2], limit)
  BY <1>4, ReadChunk
<1>5. ASSUME NEW u \in R PROVE \E c \in P : c.area = area /\ u \in Units(c)
  <2>1. u \in Int /\ Covers(m, u)
    BY <1>1
  <2> QED BY <2>1, ReadUnit
<1> HIDE DEF m, P, limit
<1>6. ASSUME NEW c, NEW k \in 1..Len(m), InPiece(c, m[k][1], m[k][2], limit)
      PROVE  /\ c.start \in Int /\ c.count \in 1..limit /\ Units(c) \subseteq R
  <2>1. m[k][1] \in Int /\ m[k][2] \in Int
    BY <1>3
  <2>2. c.start \in Int /\ c.count \in 1..limit
    BY <1>6, <2>1 DEF InPiece
  <2>3. ASSUME NEW u \in Units(c) PROVE u \in R
    <3>1. u \in Int
      BY <1>2, <2>2 DEF Units, End
    <3>2. u \in m[k][1]..(m[k][2] - 1)
      BY <1>6, <3>1 DEF InPiece
    <3>3. m[k][1] <= u /\ u < m[k][2]
      BY <2>1, <3>2
    <3>4. Covers(m, u)
      BY <3>3 DEF Covers
    <3> QED BY <1>1, <3>1, <3>4
  <2> QED BY <2>2, <2>3
<1>7. ASSUME NEW c \in P, NEW d \in P, c.area = area, d.area = area
      PROVE  /\ c # d => c.start # d.start /\ Units(c) \cap Units(d) = {}
             /\ c.start < d.start =>
                  d.start - c.start >= limit \/ ~(c.start..d.start \subseteq R)
  <2>1. PICK k \in 1..Len(m) : InPiece(c, m[k][1], m[k][2], limit)
    BY <1>4, <1>7
  <2>2. PICK l \in 1..Len(m) : InPiece(d, m[l][1], m[l][2], limit)
    BY <1>4, <1>7
  <2>3. CASE k = l
    <3>1. /\ c.start = d.start => c.count = d.count
          /\ c.start # d.start => Units(c) \cap Units(d) = {}
          /\ c.start < d.start => d.start - c.start >= limit
      BY <1>2, <1>3, <2>1, <2>2, <2>3, OneRange
    <3>2. c.start = d.start => c = d
      <4>1. /\ c = [area |-> area, start |-> c.start, count |-> c.count, item |-> 0]
            /\ d = [area |-> area, start |-> d.start, count |-> d.count, item |-> 0]
        BY <1>4, <1>7
      <4> QED BY <3>1, <4>1
    <3> QED BY <3>1, <3>2
  <2>4. CASE k # l
    <3>1. /\ Units(c) \cap Units(d) = {} /\ c.start # d.start
          /\ c.start < d.start => \E u \in c.start..d.start : ~Covers(m, u)
      BY <1>1, <1>2, <2>1, <2>2, <2>4, TwoRanges
    <3>2. ASSUME c.start < d.start PROVE ~(c.start..d.start \subseteq R)
      <4>1. PICK u \in c.start..d.start : ~Covers(m, u)
        BY <3>1, <3>2
      <4>2. u \in Int
        BY <4>1
      <4> QED BY <1>1, <4>1, <4>2
    <3> QED BY <3>1, <3>2
  <2> QED BY <2>3, <2>4
<1>8. ASSUME NEW c \in P, c.area = area
      PROVE  /\ c.start \in Int /\ c.count \in 1..limit /\ c.item = 0
             /\ Units(c) \subseteq R
  BY <1>4, <1>6, <1>8
<1> QED BY <1>5, <1>7, <1>8 DEF PlanGood, P, limit

\* What is asked of an area, and the items of the batch.
LEMMA BatchReads ==
  ASSUME IInv, Planned, batch.op = "read"
  PROVE  /\ GoodReads(batch.items)
         /\ \A i \in DOMAIN batch.items :
              Extent(batch.items[i]) =
                batch.items[i].start..(batch.items[i].start + batch.items[i].count - 1)
<1>1. batch.items \in Seq(ReadItems) /\ batch \in Batches
  BY BatchAssumption DEF IInv, CallInv
<1>2. \A i \in DOMAIN batch.items : batch.items[i].count > 0
  BY DEF IInv, CallInv, AllValid, Valid, ValidRead
<1>3. GoodReads(batch.items)
  BY <1>1, <1>2 DEF GoodReads
<1>4. ASSUME NEW i \in DOMAIN batch.items
      PROVE  Extent(batch.items[i]) =
               batch.items[i].start..(batch.items[i].start + batch.items[i].count - 1)
  BY DEF Extent, Size
<1> QED BY <1>3, <1>4

\* The chunks of a planned read.
LEMMA PlanOfReads ==
  ASSUME IInv, Planned, batch.op = "read", NEW area \in Areas
  PROVE  Requested(area) \in SUBSET Int /\ PlanGood(plan, area, Requested(area))
<1> DEFINE R == Requested(area)
           items == batch.items
<1>1. /\ GoodReads(items)
      /\ \A i \in DOMAIN items : Extent(items[i]) = items[i].start..(items[i].start + items[i].count - 1)
  BY BatchReads
<1>2. \A i \in DOMAIN items : items[i].start \in Int /\ items[i].count \in Int
  BY <1>1, ReadFields
<1>3. \A u : u \in R <=> \E i \in DOMAIN items : items[i].area = area /\ u \in Extent(items[i])
  BY DEF Requested
<1>4. \A u : u \in R <=>
        \E i \in DOMAIN items : /\ items[i].area = area
                                /\ u \in items[i].start..(items[i].start + items[i].count - 1)
  BY <1>1, <1>3, Zenon
<1>5. R \in SUBSET Int
  <2>1. ASSUME NEW u \in R PROVE u \in Int
    BY <1>2, <1>4
  <2> QED BY <2>1
<1>6. CASE items = <<>>
  <2>1. plan = {}
    BY <1>6 DEF IInv, CallInv
  <2>2. R = {}
    BY <1>3, <1>6
  <2> HIDE DEF R
  <2> QED BY <1>5, <2>1, <2>2 DEF PlanGood, R
<1>7. CASE items # <<>>
  <2>1. plan = PlanReadChunks(items)
    BY <1>7 DEF IInv, CallInv, PlanOf
  <2>2. PlanGood(PlanReadChunks(items), area, R)
    <3> HIDE DEF R, items
    <3> QED BY <1>1, <1>4, <1>5, ReadPlanned
  <2> QED BY <1>5, <2>1, <2>2
<1> QED BY <1>6, <1>7

\* The read chunks cover exactly the requested units, no unit twice, each fits
\* its PDU, and no plan has fewer of them: whatever the items, their number and
\* the PDU limits (plan_reads and _merge_ranges).
THEOREM ReadPlansExact == Spec => []ReadPlanExact
<1>1. IInv => ReadPlanExact
  <2> SUFFICES ASSUME IInv, Planned, batch.op = "read", NEW area \in Areas
               PROVE  LET mine == {c \in plan : c.area = area} IN
                      /\ UNION {Units(c) : c \in mine} = Requested(area)
                      /\ \A c, d \in mine : c # d => Units(c) \cap Units(d) = {}
                      /\ \A c \in mine : c.count \in 1..ReadLimit[area]
                      /\ \A c, d \in mine : c.start < d.start =>
                           \/ d.start - c.start >= ReadLimit[area]
                           \/ ~(c.start..d.start \subseteq Requested(area))
    BY DEF ReadPlanExact
  <2> DEFINE mine == {c \in plan : c.area = area}
             R == Requested(area)
  <2>1. PlanGood(plan, area, R)
    BY PlanOfReads
  <2> HIDE DEF R
  <2>2. UNION {Units(c) : c \in mine} = R
    <3>1. \A c \in mine : Units(c) \subseteq R
      BY <2>1 DEF PlanGood
    <3>2. \A u \in R : \E c \in mine : u \in Units(c)
      BY <2>1 DEF PlanGood
    <3> HIDE DEF mine
    <3> QED BY <3>1, <3>2
  <2>3. \A c, d \in mine : c # d => Units(c) \cap Units(d) = {}
    BY <2>1 DEF PlanGood
  <2>4. \A c \in mine : c.count \in 1..ReadLimit[area]
    BY <2>1 DEF PlanGood
  <2>5. \A c, d \in mine : c.start < d.start =>
          d.start - c.start >= ReadLimit[area] \/ ~(c.start..d.start \subseteq R)
    BY <2>1 DEF PlanGood
  <2> QED BY <2>2, <2>3, <2>4, <2>5 DEF R
<1> QED BY <1>1, Invariance, PTL

-----------------------------------------------------------------------------
(* Chunks laid end to end *)

\* FlattenSeq joins its sequences one by one.
Joins(F, s, n) == /\ F[1] = s[1] /\ \A i \in 2..n : F[i] = F[i - 1] \o s[i]
\* FlattenSeq joins the sequences one after the other.
LEMMA Flattened ==
  ASSUME NEW n \in Nat \ {0}, NEW U, NEW s \in [1..n -> Seq(U)]
  PROVE  \E F \in [1..n -> Seq(U)] : Joins(F, s, n) /\ FlattenSeq(s) = F[n]
<1> DEFINE V == Seq(U)
           G(f) == [i \in 1..Len(s) |-> IF i = 1 THEN s[i] ELSE f[i - 1] \o s[i]]
           F == CHOOSE f : f = G(f)
           H == [x \in V \X Nat |-> IF x[2] = 1 THEN s[1] ELSE
                                    IF x[2] \in 2..n THEN x[1] \o s[x[2]] ELSE x[1]]
<1>1. Len(s) = n /\ s \in Seq(V)
  OBVIOUS
<1>2. FlattenSeq(s) = F[n]
  BY <1>1 DEF FlattenSeq
<1>3. IsStep(V, H)
  <2>1. ASSUME NEW v \in V, NEW k \in Nat
        PROVE  (IF k = 1 THEN s[1] ELSE IF k \in 2..n THEN v \o s[k] ELSE v) \in V
    OBVIOUS
  <2> HIDE DEF V
  <2> QED BY <2>1 DEF IsStep
<1>4. \E f : f = G(f)
  <2>1. PICK f \in [Nat -> V] : \A i \in Nat \ {0} : f[i] = H[<<f[i - 1], i>>]
    <3> DEFINE base == <<>>
    <3>1. base \in V
      OBVIOUS
    <3> HIDE DEF V, H, base
    <3>2. Recursive(V, base, H)
      BY <1>3, <3>1, Recursion
    <3> QED BY <3>2 DEF Recursive
  <2> DEFINE g == [i \in 1..n |-> f[i]]
  <2>2. ASSUME NEW i \in 1..n PROVE g[i] = IF i = 1 THEN s[i] ELSE g[i - 1] \o s[i]
    <3>1. i \in Nat \ {0} /\ i - 1 \in Nat /\ f[i - 1] \in V /\ g[i] = f[i]
      BY <2>1
    <3>2. f[i] = H[<<f[i - 1], i>>]
      BY <2>1, <3>1
    <3>3. H[<<f[i - 1], i>>] = IF i = 1 THEN s[1] ELSE f[i - 1] \o s[i]
      <4>1. i = 1 \/ i \in 2..n
        OBVIOUS
      <4> HIDE DEF V
      <4> QED BY <3>1, <4>1
    <3>4. i # 1 => g[i - 1] = f[i - 1]
      OBVIOUS
    <3> HIDE DEF g, H
    <3> QED BY <3>1, <3>2, <3>3, <3>4
  <2>3. g = [i \in 1..n |-> IF i = 1 THEN s[i] ELSE g[i - 1] \o s[i]]
    <3>1. g = [i \in 1..n |-> g[i]]
      OBVIOUS
    <3> HIDE DEF g
    <3> QED BY <2>2, <3>1
  <2>4. g = G(g)
    <3> HIDE DEF g
    <3> QED BY <1>1, <2>3
  <2> QED BY <2>4
<1>5. F = G(F)
  <2> HIDE DEF G
  <2> QED BY <1>4
<1> HIDE DEF F, H
<1>6. F = [i \in 1..n |-> IF i = 1 THEN s[i] ELSE F[i - 1] \o s[i]]
  BY <1>1, <1>5
<1> HIDE DEF G
<1>7. F[1] = s[1] /\ \A i \in 2..n : F[i] = F[i - 1] \o s[i]
  <2>1. 1 \in 1..n /\ \A i \in 2..n : i \in 1..n /\ i # 1
    OBVIOUS
  <2>2. \A i \in 1..n : F[i] = IF i = 1 THEN s[i] ELSE F[i - 1] \o s[i]
    BY <1>6
  <2> QED BY <2>1, <2>2
<1>8. F \in [1..n -> V]
  <2> DEFINE T == {i \in Nat : i + 1 <= n => F[i + 1] \in V}
  <2>1. 0 \in T
    BY <1>7
  <2>2. ASSUME NEW i \in Nat, i \in T PROVE i + 1 \in T
    <3> SUFFICES ASSUME (i + 1) + 1 <= n PROVE F[(i + 1) + 1] \in V
      OBVIOUS
    <3> DEFINE k == i + 2
    <3>1. k \in 2..n /\ (i + 1) + 1 = k /\ k - 1 = i + 1 /\ i + 1 <= n
      OBVIOUS
    <3>2. F[k] = F[k - 1] \o s[k] /\ F[k - 1] \in V
      BY <1>7, <2>2, <3>1
    <3>3. s[k] \in V
      BY <3>1
    <3> HIDE DEF k
    <3>4. F[k] \in V
      BY <3>2, <3>3
    <3> QED BY <3>1, <3>4
  <2>3. Nat \subseteq T
    <3> HIDE DEF T
    <3> QED BY <2>1, <2>2, Induction
  <2>4. ASSUME NEW i \in 1..n PROVE F[i] \in V
    <3>1. i - 1 \in Nat /\ (i - 1) + 1 = i /\ i <= n
      OBVIOUS
    <3>2. i - 1 \in T
      BY <2>3, <3>1
    <3> QED BY <3>1, <3>2
  <2>5. F = [i \in 1..n |-> F[i]]
    BY <1>6
  <2> HIDE DEF V
  <2> QED BY <2>4, <2>5
<1> QED BY <1>2, <1>7, <1>8 DEF Joins

\* Sequences that stand for adjacent stretches of units, joined: every unit is
\* where it belongs.
Adjacent(st, s, n) == \A i \in 1..n : i < n => st[i + 1] = st[i] + Len(s[i])
Laid(y, st, s, i) ==
  /\ Len(y) = st[i] + Len(s[i]) - st[1]
  /\ \A x \in 1..Len(y) : \E j \in 1..i :
       /\ st[j] <= st[1] + x - 1 /\ st[1] + x - 1 < st[j] + Len(s[j])
       /\ y[x] = s[j][st[1] + x - st[j]]

\* What concatenation does.
LEMMA Concatenated ==
  ASSUME NEW U, NEW a \in Seq(U), NEW b \in Seq(U)
  PROVE  /\ a \o b \in Seq(U) /\ Len(a \o b) = Len(a) + Len(b)
         /\ \A x \in 1..(Len(a) + Len(b)) :
              (a \o b)[x] = IF x <= Len(a) THEN a[x] ELSE b[x - Len(a)]
OBVIOUS

\* A further sequence joined.
LEMMA LaidOne ==
  ASSUME NEW U, NEW a \in Seq(U), NEW st, NEW s, NEW k \in Nat, k >= 1, Laid(a, st, s, k),
         s[k + 1] \in Seq(U), st[1] \in Int, st[k] \in Int, st[k + 1] \in Int, Len(s[k]) \in Nat,
         st[k + 1] = st[k] + Len(s[k])
  PROVE  Laid(a \o s[k + 1], st, s, k + 1)
<1> DEFINE b == s[k + 1]
           y == a \o b
           l == k + 1
<1>1. /\ y \in Seq(U) /\ Len(y) = Len(a) + Len(b) /\ Len(a) \in Nat /\ Len(b) \in Nat
      /\ \A x \in 1..(Len(a) + Len(b)) : y[x] = IF x <= Len(a) THEN a[x] ELSE b[x - Len(a)]
  BY Concatenated
<1>2. Len(a) = st[l] - st[1]
  BY DEF Laid
<1> HIDE DEF y
<1>3. Len(y) = st[l] + Len(b) - st[1]
  BY <1>1, <1>2
<1>4. ASSUME NEW x \in 1..Len(y)
      PROVE  \E j \in 1..l :
               /\ st[j] <= st[1] + x - 1 /\ st[1] + x - 1 < st[j] + Len(s[j])
               /\ y[x] = s[j][st[1] + x - st[j]]
  <2>1. x \in Int /\ 1 <= x /\ x <= Len(y)
    BY <1>1
  <2>2. CASE x <= Len(a)
    <3>1. x \in 1..Len(a) /\ y[x] = a[x]
      BY <1>1, <2>1, <2>2
    <3>2. PICK j \in 1..k : /\ st[j] <= st[1] + x - 1 /\ st[1] + x - 1 < st[j] + Len(s[j])
                            /\ a[x] = s[j][st[1] + x - st[j]]
      BY <3>1 DEF Laid
    <3>3. j \in 1..l
      OBVIOUS
    <3> QED BY <3>1, <3>2, <3>3
  <2>3. CASE ~(x <= Len(a))
    <3>1. y[x] = b[x - Len(a)]
      BY <1>1, <2>1, <2>3
    <3>2. x - Len(a) = st[1] + x - st[l]
      BY <1>2, <2>1
    <3> DEFINE t == st[l]
               m == Len(b)
               z == st[1]
    <3>3. t \in Int /\ m \in Nat /\ z \in Int /\ x \in Int /\ ~(x <= t - z) /\ x <= t + m - z
      BY <1>1, <1>2, <1>3, <2>1, <2>3
    <3> HIDE DEF t, m, z
    <3>4. t <= z + x - 1 /\ z + x - 1 < t + m
      BY <3>3
    <3>5. l \in 1..l
      OBVIOUS
    <3> QED BY <3>1, <3>2, <3>4, <3>5 DEF t, m, z
  <2> QED BY <2>2, <2>3
<1> HIDE DEF l
<1>5. Laid(y, st, s, l)
  BY <1>3, <1>4 DEF Laid, b, l
<1> QED BY <1>5 DEF y, l

\* All of them joined.
LEMMA LaidOut ==
  ASSUME NEW n \in Nat \ {0}, NEW U, NEW s \in [1..n -> Seq(U)], NEW st \in [1..n -> Int],
         Adjacent(st, s, n)
  PROVE  FlattenSeq(s) \in Seq(U) /\ Laid(FlattenSeq(s), st, s, n)
<1>1. PICK F \in [1..n -> Seq(U)] : Joins(F, s, n) /\ FlattenSeq(s) = F[n]
  BY Flattened
<1>2. \A i \in 1..n : /\ st[i] \in Int /\ Len(s[i]) \in Nat /\ s[i] \in Seq(U)
                      /\ F[i] \in Seq(U) /\ Len(F[i]) \in Nat
  OBVIOUS
<1> DEFINE T == {i \in Nat : i + 1 <= n => Laid(F[i + 1], st, s, i + 1)}
<1>3. 0 \in T
  <2>1. 1 \in 1..n /\ F[1] = s[1] /\ st[1] \in Int /\ Len(s[1]) \in Nat
    BY <1>1, <1>2 DEF Joins
  <2>2. Len(F[1]) = st[1] + Len(s[1]) - st[1]
    BY <2>1
  <2>3. ASSUME NEW x \in 1..Len(F[1])
        PROVE  /\ st[1] <= st[1] + x - 1 /\ st[1] + x - 1 < st[1] + Len(s[1])
               /\ F[1][x] = s[1][st[1] + x - st[1]]
    <3>1. st[1] + x - st[1] = x
      BY <2>1
    <3> QED BY <2>1, <3>1
  <2>4. Laid(F[1], st, s, 1)
    BY <2>2, <2>3 DEF Laid
  <2> QED BY <2>4
<1>4. ASSUME NEW i \in Nat, i \in T PROVE i + 1 \in T
  <2> SUFFICES ASSUME (i + 1) + 1 <= n PROVE Laid(F[(i + 1) + 1], st, s, (i + 1) + 1)
    OBVIOUS
  <2> DEFINE k == i + 1
             l == i + 2
  <2>1. k \in 1..n /\ l \in 2..n /\ l \in 1..n /\ k < n /\ l = k + 1 /\ l - 1 = k /\ 1 \in 1..n
        /\ (i + 1) + 1 = l /\ k \in Int
    OBVIOUS
  <2>2. Laid(F[k], st, s, k)
    BY <1>4, <2>1
  <2>3. F[l] = F[k] \o s[l]
    BY <1>1, <2>1 DEF Joins
  <2>4. st[l] = st[k] + Len(s[k])
    BY <2>1 DEF Adjacent
  <2>5. /\ st[1] \in Int /\ st[k] \in Int /\ st[k + 1] \in Int /\ Len(s[k]) \in Nat
        /\ F[k] \in Seq(U) /\ s[k + 1] \in Seq(U)
    BY <1>2, <2>1
  <2>6. k \in Nat /\ k >= 1 /\ st[k + 1] = st[k] + Len(s[k])
    BY <2>1, <2>4
  <2> HIDE DEF k, l
  <2>7. Laid(F[k] \o s[k + 1], st, s, k + 1)
    BY <2>2, <2>5, <2>6, LaidOne
  <2>8. Laid(F[l], st, s, l)
    BY <2>1, <2>3, <2>7
  <2> QED BY <2>1, <2>8
<1>5. Nat \subseteq T
  <2> HIDE DEF T
  <2> QED BY <1>3, <1>4, Induction
<1>6. n - 1 \in Nat /\ (n - 1) + 1 = n
  OBVIOUS
<1>7. n - 1 \in T
  <2> HIDE DEF T
  <2> QED BY <1>5, <1>6
<1>8. Laid(F[n], st, s, n)
  BY <1>6, <1>7
<1> QED BY <1>1, <1>2, <1>8

-----------------------------------------------------------------------------
(* The chunks of one item *)

\* Separate chunks that each reach into [a, b) and together cover it.
Chain(C, a, b) ==
  /\ \A c \in C : c.start \in Int /\ c.count \in Nat \ {0} /\ c.start < b /\ End(c) > a
  /\ \A c, d \in C : c # d => c.start # d.start /\ Units(c) \cap Units(d) = {}
  /\ \A u \in a..(b - 1) : \E c \in C : u \in Units(c)

\* The units of a chunk, and its first.
LEMMA UnitsOf ==
  ASSUME NEW c, c.start \in Int, c.count \in Nat \ {0}
  PROVE  /\ \A u : u \in Units(c) <=> u \in Int /\ c.start <= u /\ u < End(c)
         /\ End(c) \in Int /\ c.start < End(c) /\ End(c) = c.start + c.count
         /\ c.start \in Units(c)
<1>1. End(c) \in Int /\ c.start < End(c) /\ End(c) = c.start + c.count
  BY DEF End
<1>2. \A u : u \in Units(c) <=> u \in Int /\ c.start <= u /\ u < End(c)
  BY <1>1 DEF Units
<1> QED BY <1>1, <1>2

\* There are no more chunks than units.
LEMMA ChainFinite ==
  ASSUME NEW a \in Int, NEW b \in Int, a < b, NEW C, Chain(C, a, b)
  PROVE  IsFiniteSet(C)
<1> DEFINE U == {u \in a..(b - 1) : \E c \in C : u \in Units(c)}
           f == [u \in U |-> CHOOSE c \in C : u \in Units(c)]
<1>1. IsFiniteSet(U)
  <2>1. IsFiniteSet(a..(b - 1)) /\ U \subseteq a..(b - 1)
    BY FS_Interval
  <2> QED BY <2>1, FS_Subset
<1>2. ASSUME NEW u \in U PROVE f[u] \in C /\ u \in Units(f[u])
  OBVIOUS
<1>3. ASSUME NEW c \in C PROVE \E u \in U : f[u] = c
  <2> DEFINE u == Max2(c.start, a)
  <2>1. /\ c.start \in Int /\ c.count \in Nat \ {0} /\ c.start < b /\ End(c) > a
    BY DEF Chain
  <2>2. /\ \A x : x \in Units(c) <=> x \in Int /\ c.start <= x /\ x < End(c)
        /\ End(c) \in Int /\ c.start < End(c)
    BY <2>1, UnitsOf
  <2>3. PICK v \in Units(c) : v \in a..(b - 1)
    <3>1. u \in Int /\ c.start <= u /\ a <= u /\ u < b /\ u < End(c)
      BY <2>1, <2>2 DEF Max2
    <3> HIDE DEF u
    <3> QED BY <2>2, <3>1
  <2>4. v \in U
    BY <2>3
  <2>5. f[v] \in C /\ v \in Units(f[v])
    BY <1>2, <2>4
  <2> HIDE DEF f, U
  <2>6. f[v] = c
    BY <2>3, <2>5 DEF Chain
  <2> QED BY <2>4, <2>6
<1>4. f \in Surjection(U, C)
  <2>1. f \in [U -> C]
    BY <1>2
  <2> HIDE DEF f, U
  <2> QED BY <1>3, <2>1 DEF Surjection
<1> HIDE DEF f, U
<1> QED BY <1>1, <1>4, FS_Surjection

\* Chunks that start at different units are in a strict order.
LEMMA ChunkOrder ==
  ASSUME NEW S, \A c \in S : c.start \in Int, \A c, d \in S : c # d => c.start # d.start
  PROVE  /\ \A c, d, e \in S : ChunkBefore(c, d) /\ ChunkBefore(d, e) => ChunkBefore(c, e)
         /\ \A c, d \in S : ChunkBefore(c, d) => ~ChunkBefore(d, c)
         /\ \A c, d \in S : c = d \/ ChunkBefore(c, d) \/ ChunkBefore(d, c)
BY DEF ChunkBefore

\* Chunks sorted by their starts.
LEMMA SortedChunks ==
  ASSUME NEW S, IsFiniteSet(S), \A c \in S : c.start \in Int,
         \A c, d \in S : c # d => c.start # d.start, NEW q, q = Sorted(S, ChunkBefore)
  PROVE  /\ q \in [1..Cardinality(S) -> S] /\ Range(q) = S
         /\ \A i, j \in 1..Cardinality(S) : i < j => q[i].start < q[j].start
<1> DEFINE R == {x \in S \X S : ChunkBefore(x[1], x[2])}
           n == Cardinality(S)
<1>1. \A c, d \in S : <<c, d>> \in R <=> ChunkBefore(c, d)
  OBVIOUS
<1> HIDE DEF R
<1>2. /\ \A c, d, e \in S : <<c, d>> \in R /\ <<d, e>> \in R => <<c, e>> \in R
      /\ \A c, d \in S : <<c, d>> \in R => <<d, c>> \notin R
      /\ \A c, d \in S : c = d \/ <<c, d>> \in R \/ <<d, c>> \in R
  BY <1>1, ChunkOrder
<1>3. \E seq \in [1..n -> S] : /\ \A i, j \in DOMAIN seq : i < j => <<seq[i], seq[j]>> \in R
                               /\ Range(seq) = S
  BY <1>2, SortExists
<1>4. \E seq \in [1..n -> S] : Range(seq) = S
                               /\ \A i, j \in DOMAIN seq : i < j => ChunkBefore(seq[i], seq[j])
  BY <1>1, <1>3
<1>5. q \in [1..n -> S] /\ Range(q) = S /\ \A i, j \in DOMAIN q : i < j => ChunkBefore(q[i], q[j])
  BY <1>4, Zenon DEF Sorted
<1>6. q \in [1..n -> S] /\ Range(q) = S /\ \A i, j \in 1..n : i < j => ChunkBefore(q[i], q[j])
  BY <1>5
<1> HIDE DEF n
<1>7. \A i, j \in 1..n : i < j => q[i].start < q[j].start
  BY <1>6, Zenon DEF ChunkBefore
<1> QED BY <1>6, <1>7 DEF n

\* One of finitely many chunks comes first.
LEMMA FirstChunk ==
  ASSUME NEW S, IsFiniteSet(S), S # {}, \A c \in S : c.start \in Int,
         \A c, d \in S : c # d => c.start # d.start
  PROVE  First(S) \in S /\ \A d \in S : First(S).start <= d.start
<1> DEFINE n == Cardinality(S)
<1>1. PICK q : q = Sorted(S, ChunkBefore)
  OBVIOUS
<1>2. /\ q \in [1..n -> S] /\ Range(q) = S
      /\ \A i, j \in 1..n : i < j => q[i].start < q[j].start
  BY <1>1, SortedChunks
<1>3. n \in Nat /\ n # 0
  BY FS_CardinalityType, FS_EmptySet
<1> HIDE DEF n
<1>4. 1 \in 1..n /\ q[1] \in S
  BY <1>2, <1>3
<1>5. ASSUME NEW d \in S PROVE q[1].start <= d.start
  <2>1. PICK i \in 1..n : q[i] = d
    BY <1>2 DEF Range
  <2>2. i = 1 \/ 1 < i
    BY <1>3
  <2>3. q[1].start \in Int /\ d.start \in Int
    BY <1>4
  <2> QED BY <1>2, <1>4, <2>1, <2>2, <2>3
<1>6. \E c \in S : \A d \in S : c.start <= d.start
  BY <1>4, <1>5
<1> QED BY <1>6, Zenon DEF First

\* The sorted chunks of an item follow one another without a gap, the first
\* begins no later than the item and the last ends no earlier.
LEMMA ChainContiguous ==
  ASSUME NEW a \in Int, NEW b \in Int, a < b, NEW C, Chain(C, a, b), NEW n \in Nat,
         NEW q \in [1..n -> C], Range(q) = C, \A i, j \in 1..n : i < j => q[i].start < q[j].start
  PROVE  /\ n >= 1 /\ q[1].start <= a /\ End(q[n]) >= b
         /\ \A i \in 1..n : i < n => q[i + 1].start = End(q[i])
         /\ \A c \in C : q[1].start <= c.start
<1>1. \A c \in C : /\ c.start \in Int /\ c.count \in Nat \ {0} /\ c.start < b /\ End(c) > a
                   /\ \A u : u \in Units(c) <=> u \in Int /\ c.start <= u /\ u < End(c)
                   /\ End(c) \in Int /\ c.start < End(c)
  <2>1. ASSUME NEW c \in C
        PROVE  /\ c.start \in Int /\ c.count \in Nat \ {0} /\ c.start < b /\ End(c) > a
    BY DEF Chain
  <2>2. ASSUME NEW c \in C
        PROVE  /\ \A u : u \in Units(c) <=> u \in Int /\ c.start <= u /\ u < End(c)
               /\ End(c) \in Int /\ c.start < End(c)
    BY <2>1, UnitsOf
  <2> QED BY <2>1, <2>2
<1>2. ASSUME NEW u \in Int, a <= u, u < b
      PROVE  \E i \in 1..n : q[i] \in C /\ q[i].start <= u /\ u < End(q[i])
  <2>1. PICK c \in C : u \in Units(c)
    BY <1>2 DEF Chain
  <2>2. PICK i \in 1..n : q[i] = c
    BY DEF Range
  <2> QED BY <1>1, <2>1, <2>2
<1>3. ASSUME NEW i \in 1..n, NEW j \in 1..n, i < j PROVE End(q[i]) <= q[j].start
  <2>1. q[i] \in C /\ q[j] \in C /\ q[i].start < q[j].start
    BY <1>3
  <2> DEFINE c == q[i]
             d == q[j]
  <2>2. c # d /\ c.start \in Int /\ d.start \in Int /\ End(c) \in Int /\ End(d) \in Int
        /\ d.start < End(d)
    BY <1>1, <2>1
  <2>3. Units(c) \cap Units(d) = {}
    BY <2>1, <2>2 DEF Chain
  <2> HIDE DEF c, d
  <2>4. c \in C /\ d \in C /\ c.start < d.start
    BY <2>1 DEF c, d
  <2>5. d.start \in Units(d)
    BY <1>1, <2>2, <2>4
  <2>6. d.start \notin Units(c)
    BY <2>3, <2>5
  <2>7. End(c) <= d.start
    <3>1. d.start \in Units(c) <=> d.start \in Int /\ c.start <= d.start /\ d.start < End(c)
      BY <1>1, <2>4
    <3> QED BY <2>2, <2>4, <2>6, <3>1
  <2> QED BY <2>7 DEF c, d
<1>4. n >= 1
  BY <1>2
<1>5. 1 \in 1..n /\ n \in 1..n /\ \A i \in 1..n : q[i] \in C
  BY <1>4
<1>6. \A i \in 1..n : /\ q[i].start \in Int /\ End(q[i]) \in Int /\ q[i].start < End(q[i])
                      /\ q[i].start < b /\ End(q[i]) > a
  BY <1>1, <1>5
<1>7. ASSUME NEW c \in C PROVE q[1].start <= c.start
  <2>1. PICK i \in 1..n : q[i] = c
    BY DEF Range
  <2>2. i = 1 \/ 1 < i
    BY <1>4
  <2> QED BY <1>5, <1>6, <2>1, <2>2
<1>8. q[1].start <= a
  <2>1. PICK i \in 1..n : q[i] \in C /\ q[i].start <= a /\ a < End(q[i])
    BY <1>2
  <2> QED BY <1>5, <1>6, <1>7, <2>1
<1>9. End(q[n]) >= b
  <2>1. PICK i \in 1..n : q[i].start <= b - 1 /\ b - 1 < End(q[i])
    BY <1>2
  <2>2. i = n \/ i < n
    OBVIOUS
  <2>3. CASE i < n
    BY <1>3, <1>5, <1>6, <2>1, <2>3
  <2> QED BY <1>5, <1>6, <2>1, <2>2, <2>3
<1>10. ASSUME NEW i \in 1..n, i < n PROVE q[i + 1].start = End(q[i])
  <2> DEFINE u == End(q[i])
  <2>1. i + 1 \in 1..n /\ i < i + 1 /\ i \in Int
    BY <1>10
  <2>2. u <= q[i + 1].start /\ u \in Int /\ u > a /\ u < b
    BY <1>3, <1>6, <2>1
  <2>3. PICK j \in 1..n : q[j].start <= u /\ u < End(q[j])
    <3> HIDE DEF u
    <3> QED BY <1>2, <2>2
  <2>4. j < i \/ j = i \/ j = i + 1 \/ i + 1 < j
    BY <2>1
  <2>5. CASE j < i
    <3>1. End(q[j]) <= q[i].start
      BY <1>3, <2>5
    <3> QED BY <1>6, <2>3, <3>1
  <2>6. CASE j = i
    BY <2>2, <2>3, <2>6
  <2>7. CASE j = i + 1
    BY <1>6, <2>1, <2>2, <2>3, <2>7
  <2>8. CASE i + 1 < j
    <3>1. End(q[i + 1]) <= q[j].start
      BY <1>3, <2>1, <2>8
    <3> QED BY <1>6, <2>1, <2>2, <2>3, <3>1
  <2> QED BY <2>4, <2>5, <2>6, <2>7, <2>8
<1> QED BY <1>4, <1>7, <1>8, <1>9, <1>10

\* What SubSeq takes.
LEMMA Taken ==
  ASSUME NEW U, NEW y \in Seq(U), NEW k \in Nat, NEW n \in Nat, k + n <= Len(y)
  PROVE  /\ SubSeq(y, k + 1, k + n) \in Seq(U) /\ Len(SubSeq(y, k + 1, k + n)) = n
         /\ \A j \in 1..n : SubSeq(y, k + 1, k + n)[j] = y[k + j]
<1>1. SubSeq(y, k + 1, k + n) = [j \in 1..(k + n) - (k + 1) + 1 |-> y[(k + 1) + j - 1]]
  OBVIOUS
<1>2. (k + n) - (k + 1) + 1 = n /\ \A j \in 1..n : (k + 1) + j - 1 = k + j /\ y[k + j] \in U
  OBVIOUS
<1>3. SubSeq(y, k + 1, k + n) = [j \in 1..n |-> y[k + j]]
  BY <1>1, <1>2
<1>4. [j \in 1..n |-> y[k + j]] \in Seq(U)
  BY <1>2
<1> DEFINE z == [j \in 1..n |-> y[k + j]]
<1>5. z \in Seq(U) /\ Len(z) = n /\ \A j \in 1..n : z[j] = y[k + j]
  <2>1. DOMAIN z = 1..n
    OBVIOUS
  <2>2. \A j \in 1..n : z[j] = y[k + j]
    OBVIOUS
  <2>3. z \in Seq(U)
    BY <1>4
  <2> HIDE DEF z
  <2>4. Len(z) = n
    BY <2>1, <2>3
  <2> QED BY <2>2, <2>3, <2>4
<1> HIDE DEF z
<1>6. SubSeq(y, k + 1, k + n) = z
  BY <1>3 DEF z
<1> QED BY <1>5, <1>6, Zenon

\* The values of chunks laid end to end, from unit f to before unit e.
UnitsLaid(y, C, g, f, e) ==
  /\ Len(y) = e - f
  /\ \A x \in 1..Len(y) : \E c \in C : f + x - 1 \in Units(c) /\ y[x] = g[c][f + x - c.start]

\* The values of chunks in a row.
Parts(g, q, m) == [i \in 1..m |-> g[q[i]]]

\* Adjacent chunks are laid end to end unit by unit.
LEMMA ChunksLaid ==
  ASSUME NEW m \in Nat \ {0}, NEW C, NEW U, NEW g,
         \A c \in C : g[c] \in Seq(U) /\ Len(g[c]) = c.count,
         \A c \in C : c.start \in Int /\ c.count \in Nat \ {0},
         NEW q \in [1..m -> C], \A i \in 1..m : i < m => q[i + 1].start = End(q[i]),
         NEW s, s = Parts(g, q, m)
  PROVE  FlattenSeq(s) \in Seq(U) /\ UnitsLaid(FlattenSeq(s), C, g, q[1].start, End(q[m]))
<1> DEFINE st == [i \in 1..m |-> q[i].start]
<1>1. /\ s \in [1..m -> Seq(U)] /\ st \in [1..m -> Int]
      /\ \A i \in 1..m : s[i] = g[q[i]] /\ st[i] = q[i].start /\ Len(s[i]) = q[i].count /\ q[i] \in C
  BY DEF Parts
<1>2. \A i \in 1..m : End(q[i]) = st[i] + Len(s[i]) /\ Len(s[i]) \in Nat /\ st[i] \in Int
  BY <1>1 DEF End
<1> HIDE DEF st
<1>3. Adjacent(st, s, m)
  <2>1. ASSUME NEW i \in 1..m, i < m PROVE st[i + 1] = st[i] + Len(s[i])
    <3>1. i + 1 \in 1..m
      BY <2>1
    <3> QED BY <1>1, <1>2, <2>1, <3>1
  <2> QED BY <2>1 DEF Adjacent
<1>4. FlattenSeq(s) \in Seq(U) /\ Laid(FlattenSeq(s), st, s, m)
  BY <1>1, <1>3, LaidOut
<1>5. PICK y : y = FlattenSeq(s)
  OBVIOUS
<1>6. 1 \in 1..m /\ m \in 1..m /\ Laid(y, st, s, m)
  BY <1>4, <1>5
<1> DEFINE f == q[1].start
<1>7. f = st[1] /\ f \in Int
  BY <1>1, <1>2, <1>6
<1> HIDE DEF f
<1>8. Len(y) = End(q[m]) - f
  BY <1>2, <1>6, <1>7 DEF Laid
<1>9. ASSUME NEW x \in 1..Len(y)
      PROVE  \E c \in C : f + x - 1 \in Units(c) /\ y[x] = g[c][f + x - c.start]
  <2>1. PICK i \in 1..m : /\ st[i] <= f + x - 1 /\ f + x - 1 < st[i] + Len(s[i])
                          /\ y[x] = s[i][f + x - st[i]]
    BY <1>6, <1>7 DEF Laid
  <2>2. PICK c \in C : c = q[i]
    BY <1>1
  <2>3. st[i] = c.start /\ End(c) = st[i] + Len(s[i]) /\ s[i] = g[c]
    BY <1>1, <1>2, <2>2
  <2>4. c.start <= f + x - 1 /\ f + x - 1 < End(c) /\ y[x] = g[c][f + x - c.start]
    BY <2>1, <2>3
  <2>5. f + x - 1 \in Int
    BY <1>7
  <2>6. f + x - 1 \in Units(c)
    BY <2>4, <2>5, UnitsOf
  <2> QED BY <2>4, <2>6
<1>10. UnitsLaid(y, C, g, f, End(q[m]))
  BY <1>8, <1>9 DEF UnitsLaid
<1> QED BY <1>4, <1>5, <1>10 DEF f

\* The slice that _decode_read_item cuts from the values laid end to end.
IsSlice(z, C, g, a, n) ==
  /\ Len(z) = n
  /\ \A j \in 1..n : \E c \in C : a + j - 1 \in Units(c) /\ z[j] = g[c][a + j - c.start]

\* A part of the values laid end to end is a slice, with every unit in its place.
LEMMA Cut ==
  ASSUME NEW a \in Int, NEW n \in Nat, NEW f \in Int, NEW e \in Int, f <= a, a + n <= e,
         NEW C, \A c \in C : c.start \in Int, NEW g, NEW U, NEW y \in Seq(U), UnitsLaid(y, C, g, f, e)
  PROVE  /\ SubSeq(y, (a - f) + 1, (a - f) + n) \in Seq(U)
         /\ IsSlice(SubSeq(y, (a - f) + 1, (a - f) + n), C, g, a, n)
<1> DEFINE rel == a - f
<1>1. rel \in Nat /\ Len(y) \in Nat /\ Len(y) = e - f /\ rel + n <= Len(y)
  BY DEF UnitsLaid
<1>2. PICK z : z = SubSeq(y, rel + 1, rel + n)
  OBVIOUS
<1>3. f + rel = a
  OBVIOUS
<1> HIDE DEF rel
<1>4. z \in Seq(U) /\ Len(z) = n /\ \A j \in 1..n : z[j] = y[rel + j]
  BY <1>1, <1>2, Taken
<1>5. ASSUME NEW j \in 1..n
      PROVE  \E c \in C : a + j - 1 \in Units(c) /\ z[j] = g[c][a + j - c.start]
  <2>1. rel + j \in 1..Len(y) /\ f + (rel + j) - 1 = a + j - 1 /\ f + (rel + j) = a + j
    BY <1>1, <1>3
  <2>2. PICK c \in C : /\ f + (rel + j) - 1 \in Units(c)
                       /\ y[rel + j] = g[c][f + (rel + j) - c.start]
    BY <2>1 DEF UnitsLaid
  <2>3. a + j - 1 \in Units(c) /\ y[rel + j] = g[c][a + j - c.start]
    <3>1. c.start \in Int /\ f + (rel + j) - c.start = a + j - c.start
      BY <1>1, <1>3
    <3> QED BY <2>1, <2>2, <3>1
  <2> QED BY <1>4, <2>3
<1>6. IsSlice(z, C, g, a, n)
  BY <1>4, <1>5 DEF IsSlice
<1> QED BY <1>2, <1>4, <1>6 DEF rel

\* All of it: the chunks sorted, laid end to end, and cut.
LEMMA Slice ==
  ASSUME NEW a \in Int, NEW n \in Nat \ {0}, NEW C, Chain(C, a, a + n), NEW U, NEW g,
         \A c \in C : g[c] \in Seq(U) /\ Len(g[c]) = c.count
  PROVE  LET q == Sorted(C, ChunkBefore)
             y == FlattenSeq([i \in 1..Len(q) |-> g[q[i]]])
             rel == a - First(C).start
             z == SubSeq(y, rel + 1, rel + n)
         IN C # {} /\ z \in Seq(U) /\ IsSlice(z, C, g, a, n)
<1> DEFINE m == Cardinality(C)
           b == a + n
<1>1. IsFiniteSet(C) /\ b \in Int /\ a < b
  <2>1. b \in Int /\ a < b
    OBVIOUS
  <2> QED BY <2>1, ChainFinite
<1>2. /\ \A c \in C : c.start \in Int /\ c.count \in Nat \ {0}
      /\ \A c, d \in C : c # d => c.start # d.start
  BY DEF Chain
<1>3. PICK q : q = Sorted(C, ChunkBefore)
  OBVIOUS
<1>4. /\ q \in [1..m -> C] /\ Range(q) = C
      /\ \A i, j \in 1..m : i < j => q[i].start < q[j].start
  BY <1>1, <1>2, <1>3, SortedChunks
<1>5. m \in Nat
  BY <1>1, FS_CardinalityType
<1>6. Chain(C, a, b)
  OBVIOUS
<1> HIDE DEF m, b
<1>7. /\ m >= 1 /\ q[1].start <= a /\ End(q[m]) >= b
      /\ \A i \in 1..m : i < m => q[i + 1].start = End(q[i])
      /\ \A c \in C : q[1].start <= c.start
  BY <1>1, <1>4, <1>5, <1>6, ChainContiguous
<1>8. 1 \in 1..m /\ m \in 1..m /\ q[1] \in C /\ q[m] \in C /\ m \in Nat \ {0}
  BY <1>4, <1>5, <1>7
<1>9. Len(q) = m
  <2>1. q \in Seq(C)
    BY <1>4, <1>5
  <2> QED BY <1>4, <1>5, <2>1
<1>10. First(C).start = q[1].start
  <2>1. First(C) \in C /\ \A d \in C : First(C).start <= d.start
    BY <1>1, <1>2, <1>8, FirstChunk
  <2>2. First(C).start <= q[1].start /\ q[1].start <= First(C).start
    BY <1>7, <1>8, <2>1
  <2>3. First(C).start \in Int /\ q[1].start \in Int
    BY <1>2, <1>8, <2>1
  <2> QED BY <2>2, <2>3
<1>11. PICK s : s = Parts(g, q, m)
  OBVIOUS
<1>12. PICK y : y = FlattenSeq(s)
  OBVIOUS
<1>13. y \in Seq(U) /\ UnitsLaid(y, C, g, q[1].start, End(q[m]))
  BY <1>2, <1>4, <1>7, <1>8, <1>11, <1>12, ChunksLaid
<1>14. PICK f : f = q[1].start
  OBVIOUS
<1>15. PICK e : e = End(q[m])
  OBVIOUS
<1>16. f \in Int /\ e \in Int /\ f <= a /\ a + n <= e
  <2>1. e \in Int
    BY <1>2, <1>8, <1>15 DEF End
  <2> QED BY <1>2, <1>7, <1>8, <1>14, <1>15, <2>1 DEF b
<1>17. /\ SubSeq(y, (a - f) + 1, (a - f) + n) \in Seq(U)
       /\ IsSlice(SubSeq(y, (a - f) + 1, (a - f) + n), C, g, a, n)
  BY <1>2, <1>13, <1>14, <1>15, <1>16, Cut
<1>18. C # {}
  BY <1>8
<1>19. y = FlattenSeq([i \in 1..Len(q) |-> g[q[i]]]) /\ First(C).start = f
  BY <1>9, <1>10, <1>11, <1>12, <1>14, Zenon DEF Parts
<1> QED BY <1>3, <1>17, <1>18, <1>19, Zenon

\* The chunks that an item needs.
LEMMA ItemChain ==
  ASSUME IInv, Planned, batch.op = "read", NEW i \in DOMAIN batch.items,
         NEW item, item = batch.items[i]
  PROVE  /\ item \in ReadItems /\ item.start \in Int /\ item.count \in Nat \ {0} /\ item.area \in Areas
         /\ Chain(Covering(item), item.start, item.start + item.count)
         /\ Extent(item) = item.start..(item.start + item.count - 1)
         /\ Extent(item) \subseteq Requested(item.area)
<1>1. /\ GoodReads(batch.items)
      /\ Extent(item) = item.start..(item.start + item.count - 1)
  BY BatchReads
<1>2. /\ item \in ReadItems /\ item.start \in Int /\ item.count \in Nat \ {0} /\ item.area \in Areas
  <2>1. PICK items : items = batch.items
    OBVIOUS
  <2> QED BY <1>1, <2>1, ReadFields
<1> DEFINE a == item.start
           b == item.start + item.count
           C == Covering(item)
           area == item.area
           R == Requested(area)
<1>3. R \in SUBSET Int /\ PlanGood(plan, area, R)
  BY <1>2, PlanOfReads
<1>4. Extent(item) \subseteq R
  BY DEF Requested
<1>5. b \in Int /\ a < b
  BY <1>2
<1> HIDE DEF R, C
<1>6. ASSUME NEW c \in C
      PROVE  /\ c \in plan /\ c.area = area /\ c.start \in Int /\ c.count \in Nat \ {0}
             /\ c.start < b /\ End(c) > a
  <2>1. c \in plan /\ c.area = area /\ c.start < b /\ End(c) > a
    BY DEF C, Covering
  <2>2. c.start \in Int /\ c.count \in 1..ReadLimit[area]
    BY <1>3, <2>1 DEF PlanGood
  <2>3. ReadLimit[area] \in Nat
    BY <1>2, LimitAssumption
  <2> QED BY <2>1, <2>2, <2>3
<1>7. ASSUME NEW c \in C, NEW d \in C, c # d
      PROVE  c.start # d.start /\ Units(c) \cap Units(d) = {}
  BY <1>3, <1>6, <1>7 DEF PlanGood
<1>8. ASSUME NEW u \in a..(b - 1) PROVE \E c \in C : u \in Units(c)
  <2>1. u \in Int /\ a <= u /\ u < b /\ u \in R
    BY <1>1, <1>2, <1>4, <1>5
  <2>2. PICK c \in plan : c.area = area /\ u \in Units(c)
    BY <1>3, <2>1 DEF PlanGood
  <2>3. c.start \in Int /\ c.count \in Nat \ {0}
    <3>1. ReadLimit[area] \in Nat
      BY <1>2, LimitAssumption
    <3>2. c.start \in Int /\ c.count \in 1..ReadLimit[area]
      BY <1>3, <2>2 DEF PlanGood
    <3> QED BY <3>1, <3>2
  <2>4. c.start <= u /\ u < End(c) /\ End(c) \in Int
    BY <2>2, <2>3, UnitsOf
  <2>5. c.start < b /\ End(c) > a
    BY <1>2, <1>5, <2>1, <2>3, <2>4
  <2>6. c \in C
    BY <2>2, <2>5 DEF C, Covering
  <2> QED BY <2>2, <2>6
<1>9. Chain(C, a, b)
  BY <1>6, <1>7, <1>8 DEF Chain
<1> QED BY <1>1, <1>2, <1>4, <1>9 DEF C, R

\* A finished read: an item fails with its first failed chunk, or else is
\* decoded from its own slice.
Unfailed(item, units) ==
  IF Registers(item) THEN DecodeRegisterItem(item, units)
  ELSE [ok |-> TRUE, values |-> Contents(units), units |-> units, error |-> "none"]
\* The chunks of an item that failed.
FailedOf(item) == {c \in Covering(item) : state[c] = "error"}
\* What the chunks of an item returned.
Values(item) == {got[p[1]][p[2]] : p \in Covering(item) \X Int}

\* What _decode_read_item returns in a finished call.
LEMMA ReadResult ==
  ASSUME IInv, phase = "done", batch.op = "read", NEW i \in DOMAIN results,
         NEW item, item = batch.items[i]
  PROVE  /\ FailedOf(item) # {} =>
              /\ results[i] = Failure(First(FailedOf(item))) /\ First(FailedOf(item)) \in FailedOf(item)
              /\ \A c \in FailedOf(item) : First(FailedOf(item)).start <= c.start
         /\ FailedOf(item) = {} =>
              /\ \A c \in Covering(item) : state[c] = "ok"
              /\ \E units : /\ units \in Seq(Values(item))
                            /\ IsSlice(units, Covering(item), got, item.start, item.count)
                            /\ results[i] = Unfailed(item, units)
<1>1. i \in DOMAIN batch.items /\ Planned
  BY DEF IInv, OutcomeInv, Planned
<1>2. /\ item.start \in Int /\ item.count \in Nat \ {0} /\ item.area \in Areas
      /\ Chain(Covering(item), item.start, item.start + item.count)
  BY <1>1, ItemChain
<1>3. results[i] = DecodeReadItem(item)
  BY <1>1 DEF IInv, OutcomeInv
<1> DEFINE C == Covering(item)
           F == FailedOf(item)
           a == item.start
           n == item.count
           U == Values(item)
<1>4. F \subseteq C
  BY DEF FailedOf
<1>5. /\ \A c \in C : c.start \in Int /\ c.count \in Nat \ {0} /\ c \in plan
      /\ \A c, d \in C : c # d => c.start # d.start
  <2>1. \A c \in C : c \in plan
    BY DEF Covering
  <2> QED BY <1>2, <2>1 DEF Chain
<1>6. IsFiniteSet(C)
  <2>1. a + n \in Int /\ a < a + n
    BY <1>2
  <2> HIDE DEF C
  <2> QED BY <1>2, <2>1, ChainFinite DEF C
<1>7. C # {}
  <2>1. a \in a..(a + n - 1)
    BY <1>2
  <2>2. a + n - 1 = (a + n) - 1
    BY <1>2
  <2> QED BY <1>2, <2>1, <2>2 DEF Chain
<1> HIDE DEF C, F
<1>8. ASSUME F # {}
      PROVE  /\ results[i] = Failure(First(F)) /\ First(F) \in F
             /\ \A c \in F : First(F).start <= c.start
  <2>1. IsFiniteSet(F)
    BY <1>4, <1>6, FS_Subset
  <2>2. First(F) \in F /\ \A c \in F : First(F).start <= c.start
    BY <1>4, <1>5, <1>8, <2>1, FirstChunk
  <2>3. DecodeReadItem(item) = Failure(First(F))
    BY <1>7, <1>8, Zenon DEF DecodeReadItem, C, F, FailedOf
  <2> QED BY <1>3, <2>2, <2>3
<1>9. ASSUME F = {}
      PROVE  /\ \A c \in C : state[c] = "ok"
             /\ \E units : /\ units \in Seq(U) /\ IsSlice(units, C, got, a, n)
                           /\ results[i] = Unfailed(item, units)
  <2>1. ASSUME NEW c \in C PROVE state[c] = "ok"
    <3>1. state[c] \in {"ok", "error"}
      BY <1>5 DEF IInv, OutcomeInv
    <3>2. state[c] # "error"
      BY <1>9 DEF F, FailedOf, C
    <3> QED BY <3>1, <3>2
  <2>2. ASSUME NEW c \in C PROVE got[c] \in Seq(U) /\ Len(got[c]) = c.count
    <3>1. PICK v \in {0, 1} : got[c] = Fetched(c, v)
      BY <1>5, <2>1 DEF IInv, ChunkInv
    <3>2. c.count \in Nat /\ DOMAIN got[c] = 1..c.count /\ got[c] = [x \in 1..c.count |-> got[c][x]]
      BY <1>5, <3>1 DEF Fetched
    <3>3. \A x \in 1..c.count : got[c][x] \in U
      <4>1. ASSUME NEW x \in 1..c.count PROVE got[c][x] \in U
        <5> DEFINE p == <<c, x>>
        <5>1. p \in Covering(item) \X Int
          BY <3>2 DEF C
        <5>2. p[1] = c /\ p[2] = x
          OBVIOUS
        <5> HIDE DEF p
        <5> QED BY <5>1, <5>2 DEF Values
      <4> QED BY <4>1
    <3> HIDE DEF U
    <3>4. got[c] \in [1..c.count -> U]
      BY <3>2, <3>3
    <3> QED BY <3>2, <3>4
  <2> HIDE DEF U
  <2> DEFINE q == Sorted(C, ChunkBefore)
             y == FlattenSeq([k \in 1..Len(q) |-> got[q[k]]])
             rel == a - First(C).start
             z == SubSeq(y, rel + 1, rel + n)
  <2>3. C # {} /\ z \in Seq(U) /\ IsSlice(z, C, got, a, n)
    <3>1. PICK g : g = got
      OBVIOUS
    <3>2. Chain(C, a, a + n)
      BY <1>2 DEF C
    <3>3. \A c \in C : g[c] \in Seq(U) /\ Len(g[c]) = c.count
      BY <2>2, <3>1
    <3>4. C # {} /\ LET q2 == Sorted(C, ChunkBefore)
                        y2 == FlattenSeq([k \in 1..Len(q2) |-> g[q2[k]]])
                        rel2 == a - First(C).start
                        z2 == SubSeq(y2, rel2 + 1, rel2 + n)
                    IN z2 \in Seq(U) /\ IsSlice(z2, C, g, a, n)
      BY <1>2, <3>2, <3>3, Slice, Zenon
    <3> QED BY <3>1, <3>4, Zenon
  <2>4. DecodeReadItem(item) = Unfailed(item, z)
    BY <1>7, <1>9, Zenon DEF DecodeReadItem, Unfailed, Flat, C, F, FailedOf
  <2> HIDE DEF z
  <2> QED BY <1>3, <2>1, <2>3, <2>4
<1> QED BY <1>8, <1>9 DEF C, F, U

\* What a slice holds: the item's own units in order, each with the contents of
\* the moment its chunk was served.
LEMMA UnitContents ==
  ASSUME IInv, phase = "done", batch.op = "read", NEW i \in DOMAIN results,
         NEW item, item = batch.items[i], NEW units,
         \A c \in Covering(item) : state[c] = "ok",
         IsSlice(units, Covering(item), got, item.start, item.count), NEW j \in 1..item.count
  PROVE  \E c \in Covering(item) : \E v \in {0, 1} :
           /\ got[c] = Fetched(c, v)
           /\ item.start + j - 1 \in Units(c)
           /\ units[j] = [addr |-> item.start + j - 1, version |-> v,
                          value |-> Stored(item.area, item.start + j - 1, v)]
           /\ item.start + j - 1 \in 0..AddressMax
<1>1. i \in DOMAIN batch.items /\ Planned
  BY DEF IInv, OutcomeInv, Planned
<1>2. /\ item.start \in Int /\ item.count \in Nat \ {0}
      /\ Chain(Covering(item), item.start, item.start + item.count)
  BY <1>1, ItemChain
<1> DEFINE x == item.start + j - 1
<1>3. PICK c \in Covering(item) : x \in Units(c) /\ units[j] = got[c][item.start + j - c.start]
  BY DEF IsSlice
<1>4. c \in plan /\ c.area = item.area /\ c.start \in Int /\ c.count \in Nat \ {0} /\ state[c] = "ok"
  BY <1>2, <1>3 DEF Covering, Chain
<1>5. PICK v \in {0, 1} : got[c] = Fetched(c, v)
  BY <1>4 DEF IInv, ChunkInv
<1>6. c.start \in 0..AddressMax /\ End(c) - 1 <= AddressMax
  BY <1>4 DEF IInv, ChunkInv
<1>7. c.start <= x /\ x < End(c) /\ End(c) \in Int /\ End(c) = c.start + c.count /\ x \in Int
  BY <1>2, <1>3, <1>4, UnitsOf
<1>8. item.start + j - c.start = x - c.start + 1 /\ x - c.start + 1 \in 1..c.count
      /\ c.start + (x - c.start + 1) - 1 = x
  BY <1>2, <1>4, <1>7
<1> HIDE DEF x
<1> DEFINE k == x - c.start + 1
<1>9. k \in 1..c.count /\ c.start + k - 1 = x /\ units[j] = got[c][k]
  <2>1. c.start + k - 1 = c.start + (x - c.start + 1) - 1
    OBVIOUS
  <2> QED BY <1>3, <1>8, <2>1
<1> HIDE DEF k
<1>10. got[c][k] = [addr |-> c.start + k - 1, version |-> v, value |-> Stored(c.area, c.start + k - 1, v)]
  BY <1>5, <1>9 DEF Fetched
<1>11. units[j] = [addr |-> x, version |-> v, value |-> Stored(item.area, x, v)]
  BY <1>4, <1>9, <1>10
<1>12. x \in 0..AddressMax
  <2>1. AddressMax \in Nat
    BY LimitAssumption
  <2> QED BY <1>6, <1>7, <2>1
<1> QED BY <1>3, <1>5, <1>11, <1>12 DEF x

\* Finitely many units are asked for.
LEMMA RequestedFinite ==
  ASSUME IInv, Planned, batch.op = "read", NEW area
  PROVE  IsFiniteSet(Requested(area))
<1>1. PICK items : items = batch.items
  OBVIOUS
<1>2. GoodReads(items)
  BY <1>1, BatchReads
<1>3. Len(items) \in Nat /\ DOMAIN items = 1..Len(items)
      /\ \A i \in DOMAIN items : items[i].start \in Int /\ items[i].count \in Nat
  BY <1>2, ReadFields
<1> DEFINE D == {j \in DOMAIN items : items[j].area = area}
           E(i) == items[i].start..(items[i].start + items[i].count - 1)
           S == {E(i) : i \in D}
           f == [i \in D |-> E(i)]
<1>4. Requested(area) = UNION S
  <2>1. \A i \in DOMAIN items : Extent(items[i]) = E(i)
    BY <1>1, BatchReads
  <2> HIDE DEF E
  <2> QED BY <1>1, <2>1 DEF Requested
<1>5. IsFiniteSet(D)
  <2>1. IsFiniteSet(1..Len(items))
    BY <1>3, FS_Interval
  <2> QED BY <1>3, <2>1, FS_Subset
<1>6. IsFiniteSet(S)
  <2> HIDE DEF E, D
  <2>1. f \in Surjection(D, S)
    BY DEF Surjection
  <2> HIDE DEF f, S
  <2> QED BY <1>5, <2>1, FS_Surjection
<1>7. \A T \in S : IsFiniteSet(T)
  <2>1. ASSUME NEW i \in D PROVE IsFiniteSet(E(i))
    <3>1. items[i].start \in Int /\ items[i].start + items[i].count - 1 \in Int
      BY <1>3
    <3> QED BY <3>1, FS_Interval
  <2> HIDE DEF E
  <2> QED BY <2>1
<1> HIDE DEF S
<1> QED BY <1>4, <1>6, <1>7, FS_UNION

\* An item that is put together from two chunks lies in a stretch of requested
\* units that is longer than one request.
LEMMA TwoChunks ==
  ASSUME IInv, Planned, batch.op = "read", NEW i \in DOMAIN batch.items,
         NEW item, item = batch.items[i], NEW c \in Covering(item), NEW d \in Covering(item),
         c.start < d.start
  PROVE  RunLength(item) > ReadLimit[item.area]
<1> DEFINE a == item.start
           b == item.start + item.count
           area == item.area
           R == Requested(area)
           run == {u \in R : Min2(u, a)..Max2(u, a) \subseteq R}
           limit == ReadLimit[area]
<1>1. /\ a \in Int /\ item.count \in Nat \ {0} /\ area \in Areas /\ b \in Int /\ a < b
      /\ Chain(Covering(item), a, b)
      /\ \A u \in Int : a <= u /\ u < b => u \in R
  <2>1. /\ a \in Int /\ item.count \in Nat \ {0} /\ area \in Areas
        /\ Chain(Covering(item), a, b)
        /\ Extent(item) = a..(a + item.count - 1) /\ Extent(item) \subseteq R
    BY ItemChain
  <2>2. b \in Int /\ a < b /\ a + item.count - 1 = b - 1
    BY <2>1
  <2>3. ASSUME NEW u \in Int, a <= u, u < b PROVE u \in R
    <3>1. u \in a..(a + item.count - 1)
      BY <2>1, <2>2, <2>3
    <3> HIDE DEF R
    <3> QED BY <2>1, <3>1
  <2> HIDE DEF R, b
  <2> QED BY <2>1, <2>2, <2>3
<1>2. R \in SUBSET Int /\ PlanGood(plan, area, R)
  BY <1>1, PlanOfReads
<1>3. limit \in Nat \ {0}
  BY <1>1, LimitAssumption
<1>4. /\ c \in plan /\ d \in plan /\ c.area = area /\ d.area = area
      /\ c.start < b /\ End(c) > a /\ d.start < b /\ End(d) > a
  BY DEF Covering
<1>5. /\ c.start \in Int /\ c.count \in Nat \ {0} /\ d.start \in Int /\ d.count \in Nat \ {0}
      /\ Units(c) \cap Units(d) = {}
  BY <1>1, <1>4 DEF Chain
<1>6. /\ \A u : u \in Units(c) <=> u \in Int /\ c.start <= u /\ u < End(c)
      /\ End(c) \in Int /\ d.start \in Units(d)
  BY <1>5, UnitsOf
<1>7. Units(c) \subseteq R
  BY <1>2, <1>4 DEF PlanGood
<1>8. IsFiniteSet(R)
  BY RequestedFinite
<1> HIDE DEF R, b
<1>9. End(c) <= d.start
  BY <1>5, <1>6
<1>10. \A u \in Int : (c.start <= u \/ a <= u) /\ u <= d.start => u \in R
  <2>1. ASSUME NEW u \in Int, c.start <= u \/ a <= u, u <= d.start PROVE u \in R
    <3>1. CASE a <= u
      <4>1. u < b
        BY <1>1, <1>4, <1>5, <2>1
      <4> QED BY <1>1, <3>1, <4>1
    <3>2. CASE u < a
      <4>1. u \in Units(c)
        BY <1>1, <1>4, <1>5, <1>6, <2>1, <3>2
      <4> QED BY <1>7, <4>1
    <3> QED BY <1>1, <3>1, <3>2
  <2> QED BY <2>1
<1>11. d.start - c.start >= limit
  <2>1. c.start..d.start \subseteq R
    <3>1. ASSUME NEW u \in c.start..d.start PROVE u \in R
      <4>1. u \in Int /\ c.start <= u /\ u <= d.start
        BY <1>5
      <4> QED BY <1>10, <4>1
    <3> QED BY <3>1
  <2> QED BY <1>2, <1>4, <2>1 DEF PlanGood
<1>12. c.start..d.start \subseteq run
  <2>1. ASSUME NEW u \in c.start..d.start PROVE u \in run
    <3>1. u \in Int /\ c.start <= u /\ u <= d.start
      BY <1>5
    <3>2. u \in R
      BY <1>10, <3>1
    <3>3. a < d.start
      BY <1>1, <1>4, <1>5, <1>6, <1>9
    <3>4. ASSUME NEW w \in Min2(u, a)..Max2(u, a) PROVE w \in R
      <4>1. w \in Int /\ (u <= w \/ a <= w) /\ (w <= u \/ w <= a)
        BY <1>1, <3>1 DEF Min2, Max2
      <4>2. (c.start <= w \/ a <= w) /\ w <= d.start
        BY <1>1, <1>5, <3>1, <3>3, <4>1
      <4> QED BY <1>10, <4>1, <4>2
    <3> QED BY <3>2, <3>4
  <2> QED BY <2>1
<1>13. RunLength(item) = Cardinality(run)
  BY DEF RunLength, R
<1>14. run \subseteq R
  OBVIOUS
<1> HIDE DEF run
<1>15. IsFiniteSet(run) /\ Cardinality(run) \in Nat
  BY <1>8, <1>14, FS_Subset, FS_CardinalityType
<1>16. Cardinality(c.start..d.start) = d.start - c.start + 1
  <2>1. PICK x \in Int : x = c.start
    BY <1>5
  <2>2. PICK y \in Int : y = d.start
    BY <1>5
  <2>3. Cardinality(x..y) = y - x + 1
    <3>1. Cardinality(x..y) = IF x > y THEN 0 ELSE y - x + 1
      BY FS_Interval
    <3> QED BY <2>1, <2>2, <3>1
  <2> QED BY <2>1, <2>2, <2>3
<1>17. Cardinality(c.start..d.start) <= Cardinality(run)
  BY <1>12, <1>15, FS_Subset
<1> HIDE DEF limit
<1> QED BY <1>3, <1>5, <1>11, <1>13, <1>15, <1>16, <1>17 DEF limit

\* An item that succeeded was decoded from its slice.
LEMMA Succeeded ==
  ASSUME IInv, phase = "done", batch.op = "read", NEW i \in DOMAIN results,
         NEW item, item = batch.items[i], results[i].ok
  PROVE  \E units : /\ units \in Seq(Values(item))
                    /\ IsSlice(units, Covering(item), got, item.start, item.count)
                    /\ \A c \in Covering(item) : state[c] = "ok"
                    /\ results[i] = Unfailed(item, units) /\ results[i].units = units
<1>1. FailedOf(item) = {}
  <2>1. ASSUME FailedOf(item) # {} PROVE FALSE
    <3>1. results[i] = Failure(First(FailedOf(item)))
      BY <2>1, ReadResult
    <3> QED BY <3>1 DEF Failure
  <2> QED BY <2>1
<1>2. PICK units : /\ units \in Seq(Values(item))
                   /\ IsSlice(units, Covering(item), got, item.start, item.count)
                   /\ results[i] = Unfailed(item, units)
  BY <1>1, ReadResult
<1>3. \A c \in Covering(item) : state[c] = "ok"
  BY <1>1, ReadResult
<1>4. results[i].units = units
  BY <1>2 DEF Unfailed, DecodeRegisterItem, Failure
<1> QED BY <1>2, <1>3, <1>4

\* A successful read is made of the item's own units in order, from wherever the
\* chunks were cut, and of more than one moment only when its stretch of
\* requested units is longer than one PDU: for every batch and every
\* interleaving of the chunks with the device's update (_decode_read_item).
THEOREM ReadsSliced == Spec => []ReadsAreSlices
<1>1. IInv => ReadsAreSlices
  <2> SUFFICES ASSUME IInv, phase = "done", batch.op = "read", NEW i \in DOMAIN results,
                      results[i].ok
               PROVE  LET item == batch.items[i]
                          u == results[i].units IN
                      /\ Len(u) = item.count
                      /\ \A j \in 1..item.count :
                           /\ u[j].addr = item.start + j - 1
                           /\ u[j].value = Stored(item.area, u[j].addr, u[j].version)
                      /\ (\E j, k \in 1..item.count : u[j].version # u[k].version) =>
                           RunLength(item) > ReadLimit[item.area]
    BY DEF ReadsAreSlices
  <2>1. i \in DOMAIN batch.items /\ Planned
    BY DEF IInv, OutcomeInv, Planned
  <2>2. PICK item : item = batch.items[i]
    OBVIOUS
  <2>3. PICK u : /\ IsSlice(u, Covering(item), got, item.start, item.count)
                 /\ \A c \in Covering(item) : state[c] = "ok"
                 /\ results[i].units = u
    BY <2>2, Succeeded
  <2>4. Chain(Covering(item), item.start, item.start + item.count)
    BY <2>1, <2>2, ItemChain
  <2>5. Len(u) = item.count
    BY <2>3 DEF IsSlice
  <2>6. ASSUME NEW j \in 1..item.count
        PROVE  \E c \in Covering(item) : \E v \in {0, 1} :
                 /\ got[c] = Fetched(c, v) /\ item.start + j - 1 \in Units(c)
                 /\ u[j] = [addr |-> item.start + j - 1, version |-> v,
                            value |-> Stored(item.area, item.start + j - 1, v)]
    BY <2>2, <2>3, UnitContents
  <2>7. ASSUME NEW j \in 1..item.count
        PROVE  /\ u[j].addr = item.start + j - 1
               /\ u[j].value = Stored(item.area, u[j].addr, u[j].version)
    <3>1. PICK v \in {0, 1} : u[j] = [addr |-> item.start + j - 1, version |-> v,
                                      value |-> Stored(item.area, item.start + j - 1, v)]
      BY <2>6
    <3> QED BY <3>1
  <2>8. ASSUME NEW j \in 1..item.count, NEW k \in 1..item.count, u[j].version # u[k].version
        PROVE  RunLength(item) > ReadLimit[item.area]
    <3>1. PICK c \in Covering(item), v \in {0, 1} :
                 /\ got[c] = Fetched(c, v)
                 /\ u[j] = [addr |-> item.start + j - 1, version |-> v,
                            value |-> Stored(item.area, item.start + j - 1, v)]
      BY <2>6
    <3>2. PICK d \in Covering(item), w \in {0, 1} :
                 /\ got[d] = Fetched(d, w)
                 /\ u[k] = [addr |-> item.start + k - 1, version |-> w,
                            value |-> Stored(item.area, item.start + k - 1, w)]
      BY <2>6
    <3>3. v # w
      BY <2>8, <3>1, <3>2
    <3>4. c.count \in Nat \ {0} /\ c.start \in Int /\ d.start \in Int
      BY <2>4 DEF Chain
    <3>5. c # d
      <4>1. ASSUME c = d PROVE FALSE
        <5>1. Fetched(c, v)[1].version = v /\ Fetched(c, w)[1].version = w
          BY <3>4 DEF Fetched
        <5> QED BY <3>1, <3>2, <3>3, <4>1, <5>1
      <4> QED BY <4>1
    <3>6. c.start # d.start
      BY <2>4, <3>5 DEF Chain
    <3>7. c.start < d.start \/ d.start < c.start
      BY <3>4, <3>6
    <3> QED BY <2>1, <2>2, <3>7, TwoChunks
  <2> QED BY <2>2, <2>3, <2>5, <2>7, <2>8
<1> QED BY <1>1, Invariance, PTL

-----------------------------------------------------------------------------
(* The plan of a write *)

\* The numbers of a write item.
LEMMA WriteFields ==
  ASSUME IInv, Planned, batch.op = "write", NEW i \in DOMAIN batch.items,
         NEW item, item = batch.items[i]
  PROVE  /\ item \in WriteItems /\ item.area \in DOMAIN WriteLimit /\ item.start \in Int
         /\ item.dtype \in NumericDTypes /\ Len(item.values) \in Nat \ {0}
         /\ DOMAIN item.values = 1..Len(item.values)
         /\ \A k \in DOMAIN item.values : item.values[k].n \in Int
         /\ RegsPerItem[item.dtype] \in {1, 2, 4}
         /\ Size("write", item) = Len(item.values) * RegsPerItem[item.dtype]
         /\ Size("write", item) \in Nat \ {0}
         /\ Extent(item) = item.start..(item.start + Size("write", item) - 1)
         /\ WriteLimit[item.area] \in Nat \ {0}
         /\ ValidWrite(item) /\ Sound("write", item)
<1>1. batch.items \in Seq(WriteItems) /\ Sound("write", item) /\ i \in DOMAIN batch.items
  BY BatchAssumption DEF IInv, CallInv
<1>2. item \in WriteItems
  <2> HIDE DEF WriteItems
  <2> QED BY <1>1
<1>3. ValidWrite(item)
  BY DEF IInv, CallInv, AllValid, Valid
<1>4. /\ item.area \in DOMAIN WriteLimit /\ item.start \in Int /\ item.dtype \in NumericDTypes
      /\ item.values \in Seq([kind : {"whole", "fraction", "huge"}, n : Int])
  BY <1>2 DEF WriteItems
<1> DEFINE V == [kind : {"whole", "fraction", "huge"}, n : Int]
<1>5. \A v \in V : v.n \in Int
  OBVIOUS
<1> HIDE DEF V
<1>6. /\ Len(item.values) \in Nat /\ DOMAIN item.values = 1..Len(item.values)
      /\ \A k \in DOMAIN item.values : item.values[k] \in V
  <2>1. item.values \in Seq(V)
    BY <1>4 DEF V
  <2> QED BY <2>1
<1>7. Len(item.values) # 0
  <2>1. item.values # <<>> /\ item.values \in Seq(V)
    BY <1>3, <1>4 DEF ValidWrite, V
  <2> QED BY <1>6, <2>1
<1>8. RegsPerItem[item.dtype] \in {1, 2, 4}
  BY <1>4 DEF RegsPerItem, NumericDTypes
<1>9. Size("write", item) = Len(item.values) * RegsPerItem[item.dtype]
  BY DEF Size
<1>10. Size("write", item) \in Nat \ {0}
  BY <1>6, <1>7, <1>8, <1>9
<1>11. Extent(item) = item.start..(item.start + Size("write", item) - 1)
  BY DEF Extent
<1>12. WriteLimit[item.area] \in Nat \ {0}
  BY <1>4, LimitAssumption
<1> QED BY <1>1, <1>2, <1>3, <1>4, <1>5, <1>6, <1>7, <1>8, <1>9, <1>10, <1>11, <1>12

\* A chunk of a planned write.
LEMMA WriteChunk ==
  ASSUME IInv, Planned, batch.op = "write", NEW c \in plan
  PROVE  /\ c.item \in DOMAIN batch.items /\ c.area = batch.items[c.item].area
         /\ InPiece(c, batch.items[c.item].start,
                    batch.items[c.item].start + Size("write", batch.items[c.item]),
                    WriteLimit[batch.items[c.item].area])
         /\ c = [area |-> c.area, start |-> c.start, count |-> c.count, item |-> c.item]
<1>1. plan = PlanWrites(batch.items)
  BY DEF IInv, CallInv, PlanOf
<1>2. PICK i \in DOMAIN batch.items :
        \E p \in Pieces(batch.items[i].start, batch.items[i].start + Size("write", batch.items[i]),
                        WriteLimit[batch.items[i].area]) :
          c = [area |-> batch.items[i].area, start |-> p.from, count |-> p.size, item |-> i]
  BY <1>1 DEF PlanWrites
<1>3. PICK item : item = batch.items[i]
  OBVIOUS
<1>4. PICK p \in Pieces(item.start, item.start + Size("write", item), WriteLimit[item.area]) :
        c = [area |-> item.area, start |-> p.from, count |-> p.size, item |-> i]
  BY <1>2, <1>3
<1>5. c.area = item.area /\ c.start = p.from /\ c.count = p.size /\ c.item = i
  BY <1>4
<1>6. /\ item.start \in Int /\ Size("write", item) \in Nat /\ WriteLimit[item.area] \in Nat \ {0}
  BY <1>3, WriteFields
<1>7. InPiece(c, item.start, item.start + Size("write", item), WriteLimit[item.area])
  <2> DEFINE e == item.start + Size("write", item)
  <2>1. e \in Int
    BY <1>6
  <2>2. p \in Pieces(item.start, e, WriteLimit[item.area])
    OBVIOUS
  <2> HIDE DEF e
  <2>3. InPiece(c, item.start, e, WriteLimit[item.area])
    BY <1>5, <1>6, <2>1, <2>2, ChunkOfPiece
  <2> QED BY <2>3 DEF e
<1>8. c = [area |-> c.area, start |-> c.start, count |-> c.count, item |-> c.item]
  BY <1>4, <1>5
<1> QED BY <1>3, <1>5, <1>7, <1>8

\* The chunks of a write item cover it, no unit twice.
Mine(i) == {c \in plan : c.item = i}
\* The chunks of a write item follow one another over its units.
LEMMA MineChain ==
  ASSUME IInv, Planned, batch.op = "write", NEW i \in DOMAIN batch.items,
         NEW item, item = batch.items[i]
  PROVE  /\ Chain(Mine(i), item.start, item.start + Size("write", item))
         /\ \A c \in Mine(i) : Units(c) \subseteq Extent(item) /\ c.area = item.area
<1> DEFINE s == item.start
           size == Size("write", item)
           e == item.start + Size("write", item)
           limit == WriteLimit[item.area]
           C == Mine(i)
<1>1. /\ s \in Int /\ size \in Nat \ {0} /\ limit \in Nat \ {0}
      /\ Extent(item) = s..(s + size - 1)
  BY WriteFields
<1>2. e \in Int /\ s < e /\ s + size - 1 = e - 1
  BY <1>1
<1>3. ASSUME NEW c \in C
      PROVE  /\ InPiece(c, s, e, limit) /\ c.area = item.area
             /\ c = [area |-> item.area, start |-> c.start, count |-> c.count, item |-> i]
  <2>1. c \in plan /\ c.item = i
    BY DEF Mine
  <2>2. /\ c.area = batch.items[c.item].area
        /\ InPiece(c, batch.items[c.item].start,
                   batch.items[c.item].start + Size("write", batch.items[c.item]),
                   WriteLimit[batch.items[c.item].area])
        /\ c = [area |-> c.area, start |-> c.start, count |-> c.count, item |-> c.item]
    BY <2>1, WriteChunk
  <2>3. c.area = item.area /\ InPiece(c, s, e, limit)
    BY <2>1, <2>2
  <2> QED BY <2>1, <2>2, <2>3
<1> HIDE DEF e, limit, C
<1>4. ASSUME NEW c \in C
      PROVE  /\ c.start \in Int /\ c.count \in Nat \ {0} /\ c.start < e /\ End(c) > s
             /\ Units(c) \subseteq Extent(item)
  <2>1. c.count \in 1..limit /\ c.start \in s..(e - 1)
        /\ \A a \in Int : a \in Units(c) => a \in s..(e - 1)
    BY <1>3 DEF InPiece
  <2>2. c.start \in Int /\ c.count \in Nat \ {0} /\ c.start < e /\ s <= c.start
    BY <1>1, <1>2, <2>1
  <2>3. /\ \A u : u \in Units(c) => u \in Int
        /\ End(c) \in Int /\ c.start < End(c)
    BY <2>2, UnitsOf
  <2>4. Units(c) \subseteq s..(e - 1)
    BY <2>1, <2>3
  <2> QED BY <1>1, <1>2, <2>2, <2>3, <2>4
<1>5. ASSUME NEW c \in C, NEW d \in C, c # d
      PROVE  c.start # d.start /\ Units(c) \cap Units(d) = {}
  <2>1. /\ c.start = d.start => c.count = d.count
        /\ c.start # d.start => Units(c) \cap Units(d) = {}
    BY <1>1, <1>2, <1>3, OneRange
  <2>2. c.start # d.start
    <3>1. ASSUME c.start = d.start PROVE FALSE
      <4>1. /\ c = [area |-> item.area, start |-> c.start, count |-> c.count, item |-> i]
            /\ d = [area |-> item.area, start |-> d.start, count |-> d.count, item |-> i]
        BY <1>3
      <4>2. c.count = d.count
        BY <2>1, <3>1
      <4> QED BY <1>5, <3>1, <4>1, <4>2
    <3> QED BY <3>1
  <2> QED BY <2>1, <2>2
<1>6. ASSUME NEW u \in s..(e - 1) PROVE \E c \in C : u \in Units(c)
  <2>1. PICK p \in Pieces(s, e, limit) : u \in Span(p)
    BY <1>1, <1>2, PieceOf
  <2> DEFINE c == [area |-> item.area, start |-> p.from, count |-> p.size, item |-> i]
  <2>2. c \in plan
    <3>1. plan = PlanWrites(batch.items)
      BY DEF IInv, CallInv, PlanOf
    <3> QED BY <3>1 DEF PlanWrites, e, limit
  <2>3. c.item = i /\ c.start = p.from /\ c.count = p.size
    OBVIOUS
  <2> HIDE DEF c
  <2>4. p.from \in Int /\ p.size \in Int
    BY <1>1, <1>2, <2>1, PieceUnits
  <2>5. Units(c) = Span(p)
    BY <2>3, <2>4, SameUnits
  <2> QED BY <2>1, <2>2, <2>3, <2>5 DEF C, Mine
<1>7. Chain(C, s, e)
  BY <1>4, <1>5, <1>6 DEF Chain
<1> QED BY <1>3, <1>4, <1>7 DEF C, e

-----------------------------------------------------------------------------
(* Failures *)

\* The requests an item needs.
Needs(i, item) == {c \in plan : /\ c.area = item.area /\ c.item \in {0, i}
                                /\ Units(c) \cap Extent(item) # {}}

\* For a read, they are those that _decode_read_item looks at.
LEMMA ReadNeeds ==
  ASSUME IInv, Planned, batch.op = "read", NEW i \in DOMAIN batch.items,
         NEW item, item = batch.items[i]
  PROVE  Needs(i, item) = Covering(item)
<1> DEFINE a == item.start
           n == item.count
<1>1. /\ a \in Int /\ n \in Nat \ {0} /\ item.area \in Areas /\ Extent(item) = a..(a + n - 1)
  BY ItemChain
<1>2. PlanGood(plan, item.area, Requested(item.area)) /\ ReadLimit[item.area] \in Nat
  BY <1>1, PlanOfReads, LimitAssumption
<1>3. ASSUME NEW c \in plan, c.area = item.area
      PROVE  /\ c.item = 0
             /\ Units(c) \cap Extent(item) # {} <=> c.start < item.start + item.count /\ End(c) > item.start
  <2>1. c.start \in Int /\ c.count \in 1..ReadLimit[item.area] /\ c.item = 0
    BY <1>2, <1>3 DEF PlanGood
  <2>2. c.count \in Nat \ {0}
    BY <1>2, <2>1
  <2>3. /\ \A u : u \in Units(c) <=> u \in Int /\ c.start <= u /\ u < End(c)
        /\ End(c) \in Int /\ c.start < End(c)
    BY <2>1, <2>2, UnitsOf
  <2>4. \A u : u \in Extent(item) <=> u \in Int /\ a <= u /\ u < a + n
    BY <1>1
  <2>5. ASSUME NEW u \in Units(c), u \in Extent(item)
        PROVE  c.start < a + n /\ End(c) > a
    BY <1>1, <2>1, <2>3, <2>4, <2>5
  <2>6. ASSUME c.start < a + n, End(c) > a PROVE Units(c) \cap Extent(item) # {}
    <3>1. Max2(c.start, a) \in Int /\ c.start <= Max2(c.start, a) /\ a <= Max2(c.start, a)
          /\ Max2(c.start, a) < End(c) /\ Max2(c.start, a) < a + n
      BY <1>1, <2>1, <2>3, <2>6 DEF Max2
    <3>2. Max2(c.start, a) \in Units(c) /\ Max2(c.start, a) \in Extent(item)
      BY <2>3, <2>4, <3>1
    <3> QED BY <3>2
  <2> QED BY <2>1, <2>5, <2>6
<1>4. \A c : c \in Needs(i, item) <=> c \in Covering(item)
  BY <1>3 DEF Needs, Covering
<1> QED BY <1>4

\* For a write, they are the item's own.
LEMMA WriteNeeds ==
  ASSUME IInv, Planned, batch.op = "write", NEW i \in DOMAIN batch.items,
         NEW item, item = batch.items[i]
  PROVE  Needs(i, item) = Mine(i)
<1>1. /\ Chain(Mine(i), item.start, item.start + Size("write", item))
      /\ \A c \in Mine(i) : Units(c) \subseteq Extent(item) /\ c.area = item.area
  BY MineChain
<1>2. ASSUME NEW c \in Mine(i) PROVE c \in Needs(i, item)
  <2>1. c \in plan /\ c.item = i /\ c.area = item.area /\ Units(c) \subseteq Extent(item)
    BY <1>1 DEF Mine
  <2>2. c.start \in Units(c)
    <3>1. c.start \in Int /\ c.count \in Nat \ {0}
      BY <1>1 DEF Chain
    <3> QED BY <3>1, UnitsOf
  <2> QED BY <2>1, <2>2 DEF Needs
<1>3. ASSUME NEW c \in Needs(i, item) PROVE c \in Mine(i)
  <2>1. c \in plan /\ c.item \in {0, i}
    BY DEF Needs
  <2>2. c.item \in DOMAIN batch.items
    BY <2>1, WriteChunk
  <2>3. 0 \notin DOMAIN batch.items
    <3>1. batch.items \in Seq(WriteItems)
      BY BatchAssumption DEF IInv, CallInv
    <3> HIDE DEF WriteItems
    <3>2. DOMAIN batch.items = 1..Len(batch.items) /\ Len(batch.items) \in Nat
      BY <3>1
    <3> QED BY <3>2
  <2> QED BY <2>1, <2>2, <2>3 DEF Mine
<1> QED BY <1>2, <1>3

\* A block decodes exactly when it makes a whole number of values, or has the
\* bits asked for.
LEMMA DecodesWhen ==
  ASSUME NEW item \in ReadItems, item.count \in Nat \ {0}, NEW units, Len(units) = item.count,
         DOMAIN units = 1..item.count
  PROVE  Unfailed(item, units).ok = Decodes(item)
<1> DEFINE n == item.count
           regs == Contents(units)
<1>1. Len(regs) = n
  BY DEF Contents
<1>2. item.dtype \in DTypes
  BY DEF ReadItems
<1> HIDE DEF regs
<1>3. CASE ~Registers(item)
  BY <1>3 DEF Unfailed, Decodes
<1>4. CASE Registers(item) /\ item.dtype \in {"bit", "bits"}
  <2>1. Unfailed(item, units) = DecodeRegisterItem(item, units)
    BY <1>4 DEF Unfailed
  <2>2. CASE \A j \in DOMAIN item.bits : item.bits[j] \in 0..(n * RegisterBits - 1)
    <3>1. DecodeRegisterItem(item, units).ok = TRUE
      BY <1>1, <1>4, <2>2 DEF DecodeRegisterItem, regs
    <3> QED BY <1>4, <2>1, <2>2, <3>1 DEF Decodes
  <2>3. CASE ~\A j \in DOMAIN item.bits : item.bits[j] \in 0..(n * RegisterBits - 1)
    <3>1. DecodeRegisterItem(item, units).ok = FALSE
      BY <1>1, <1>4, <2>3 DEF DecodeRegisterItem, Failure, regs
    <3> QED BY <1>4, <2>1, <2>3, <3>1 DEF Decodes
  <2> QED BY <2>2, <2>3
<1>5. CASE Registers(item) /\ item.dtype \notin {"bit", "bits"}
  <2>1. Unfailed(item, units) = DecodeRegisterItem(item, units)
    BY <1>5 DEF Unfailed
  <2>2. RegsPerItem[item.dtype] \in {1, 2, 4}
    BY <1>2, <1>5 DEF RegsPerItem, NumericDTypes, DTypes
  <2> DEFINE r == RegsPerItem[item.dtype]
  <2>3. DecodeRegisterItem(item, units).ok = (n % r = 0)
    BY <1>1, <1>5 DEF DecodeRegisterItem, Failure, regs
  <2>4. Decodes(item) = (\E k \in 1..n : n = k * r)
    BY <1>5 DEF Decodes
  <2> HIDE DEF r
  <2>5. n % r = 0 <=> \E k \in 1..n : n = k * r
    <3>1. r = 1 \/ r = 2 \/ r = 4
      BY <2>2 DEF r
    <3>2. CASE r = 1
      BY <3>2
    <3>3. CASE r = 2
      <4>1. ASSUME n % 2 = 0 PROVE n \div 2 \in 1..n /\ n = (n \div 2) * 2
        BY <4>1
      <4>2. ASSUME NEW k \in 1..n, n = k * 2 PROVE n % 2 = 0
        BY <4>2
      <4> QED BY <3>3, <4>1, <4>2
    <3>4. CASE r = 4
      <4>1. ASSUME n % 4 = 0 PROVE n \div 4 \in 1..n /\ n = (n \div 4) * 4
        BY <4>1
      <4>2. ASSUME NEW k \in 1..n, n = k * 4 PROVE n % 4 = 0
        BY <4>2
      <4> QED BY <3>4, <4>1, <4>2
    <3> QED BY <3>1, <3>2, <3>3, <3>4
  <2> QED BY <2>1, <2>3, <2>4, <2>5
<1> QED BY <1>3, <1>4, <1>5

\* The outcome of one item of a finished call.
Isolated(i, item) ==
  LET bad == {c \in Needs(i, item) : state[c] = "error"} IN
  /\ bad # {} => results[i].error \in bad /\ \A c \in bad : results[i].error.start <= c.start
  /\ bad = {} => results[i].ok = (batch.op = "write" \/ Decodes(item))

\* The outcome of a read item depends on the chunks it needs only.
LEMMA ReadIsolated ==
  ASSUME IInv, phase = "done", batch.op = "read", NEW i \in DOMAIN results,
         NEW item, item = batch.items[i]
  PROVE  Isolated(i, item)
<1>1. i \in DOMAIN batch.items /\ Planned
  BY DEF IInv, OutcomeInv, Planned
<1>2. Needs(i, item) = Covering(item)
  BY <1>1, ReadNeeds
<1> DEFINE bad == {c \in Needs(i, item) : state[c] = "error"}
<1>3. bad = FailedOf(item)
  BY <1>2 DEF FailedOf
<1>4. ASSUME FailedOf(item) # {}
      PROVE  /\ results[i].error \in FailedOf(item)
             /\ \A c \in FailedOf(item) : results[i].error.start <= c.start
  <2>1. /\ results[i] = Failure(First(FailedOf(item))) /\ First(FailedOf(item)) \in FailedOf(item)
        /\ \A c \in FailedOf(item) : First(FailedOf(item)).start <= c.start
    BY <1>4, ReadResult
  <2>2. results[i].error = First(FailedOf(item))
    BY <2>1 DEF Failure
  <2> QED BY <2>1, <2>2
<1>5. ASSUME FailedOf(item) = {} PROVE results[i].ok = Decodes(item)
  <2>1. PICK units : /\ units \in Seq(Values(item))
                     /\ IsSlice(units, Covering(item), got, item.start, item.count)
                     /\ results[i] = Unfailed(item, units)
    BY <1>5, ReadResult
  <2>2. Len(units) = item.count /\ DOMAIN units = 1..item.count
    BY <2>1 DEF IsSlice
  <2>3. item \in ReadItems /\ item.count \in Nat \ {0}
    BY <1>1, ItemChain
  <2> QED BY <2>1, <2>2, <2>3, DecodesWhen
<1> HIDE DEF bad
<1>6. /\ bad # {} => results[i].error \in bad /\ \A c \in bad : results[i].error.start <= c.start
      /\ bad = {} => results[i].ok = Decodes(item)
  BY <1>3, <1>4, <1>5
<1>7. Decodes(item) \in BOOLEAN
  BY DEF Decodes
<1>8. bad = {} => results[i].ok = (batch.op = "write" \/ Decodes(item))
  BY <1>6, <1>7
<1> QED BY <1>6, <1>8 DEF Isolated, bad

\* The outcome of a write item depends on its own chunks only, and success
\* means that each of them succeeded.
LEMMA WriteIsolated ==
  ASSUME IInv, phase = "done", batch.op = "write", NEW i \in DOMAIN results,
         NEW item, item = batch.items[i]
  PROVE  /\ Isolated(i, item)
         /\ results[i].ok => \A c \in Mine(i) : state[c] = "ok"
<1>1. i \in DOMAIN batch.items /\ Planned
  BY DEF IInv, OutcomeInv, Planned
<1>2. Needs(i, item) = Mine(i)
  BY <1>1, WriteNeeds
<1> DEFINE failed == {c \in plan : c.item = i /\ state[c] = "error"}
           bad == {c \in Needs(i, item) : state[c] = "error"}
<1>3. bad = failed
  BY <1>2 DEF Mine
<1>4. results[i] = WriteResult(i)
  BY <1>1 DEF IInv, OutcomeInv
<1>5. ASSUME failed # {}
      PROVE  /\ results[i] = Failure(First(failed)) /\ First(failed) \in failed
             /\ \A c \in failed : First(failed).start <= c.start
  <2>1. Chain(Mine(i), item.start, item.start + Size("write", item))
        /\ item.start \in Int /\ Size("write", item) \in Nat \ {0}
    BY <1>1, MineChain, WriteFields
  <2>2. IsFiniteSet(Mine(i))
    <3>1. item.start + Size("write", item) \in Int /\ item.start < item.start + Size("write", item)
      BY <2>1
    <3> QED BY <2>1, <3>1, ChainFinite
  <2>3. failed \subseteq Mine(i)
    BY DEF Mine
  <2> HIDE DEF failed
  <2>4. IsFiniteSet(failed)
    BY <2>2, <2>3, FS_Subset
  <2>5. /\ \A c \in failed : c.start \in Int
        /\ \A c, d \in failed : c # d => c.start # d.start
    BY <2>1, <2>3 DEF Chain
  <2>6. First(failed) \in failed /\ \A c \in failed : First(failed).start <= c.start
    BY <1>5, <2>4, <2>5, FirstChunk
  <2>7. WriteResult(i) = Failure(First(failed))
    BY <1>5, Zenon DEF WriteResult, failed
  <2> QED BY <1>4, <2>6, <2>7
<1>6. ASSUME failed = {} PROVE results[i].ok = TRUE
  BY <1>4, <1>6 DEF WriteResult
<1>7. ASSUME failed = {}, NEW c \in Mine(i) PROVE state[c] = "ok"
  <2>1. c \in plan /\ c.item = i
    BY DEF Mine
  <2>2. state[c] \in {"ok", "error"}
    BY <2>1 DEF IInv, OutcomeInv
  <2>3. state[c] # "error"
    BY <1>7, <2>1
  <2> QED BY <2>2, <2>3
<1> HIDE DEF failed, bad
<1>8. failed # {} => results[i].ok = FALSE /\ results[i].error = First(failed)
  BY <1>5 DEF Failure
<1>9. /\ bad # {} => results[i].error \in bad /\ \A c \in bad : results[i].error.start <= c.start
      /\ bad = {} => results[i].ok = (batch.op = "write" \/ Decodes(item))
  BY <1>3, <1>5, <1>6, <1>8
<1>10. Isolated(i, item)
  BY <1>9 DEF Isolated, bad
<1> QED BY <1>7, <1>8, <1>10

\* A chunk outside the address space belongs to an item that names such an
\* address itself.
LEMMA RaisesForItem ==
  ASSUME IInv, phase = "raised"
  PROVE  \E i \in DOMAIN batch.items : ~(Extent(batch.items[i]) \subseteq 0..AddressMax)
<1>1. PICK c \in plan : c.start \notin 0..AddressMax
  BY DEF IInv, OutcomeInv
<1>2. Planned /\ batch.items # <<>> /\ batch.op \in {"read", "write"}
  BY BatchAssumption DEF Planned, IInv, CallInv
<1>3. CASE batch.op = "read"
  <2>1. c.area \in Areas
    <3>1. PICK items : items = batch.items
      OBVIOUS
    <3>2. GoodReads(items) /\ plan = PlanReadChunks(items)
      BY <1>2, <1>3, <3>1, BatchReads DEF IInv, CallInv, PlanOf
    <3> QED BY <3>2, ReadChunk
  <2>2. PlanGood(plan, c.area, Requested(c.area)) /\ ReadLimit[c.area] \in Nat
    BY <1>2, <1>3, <2>1, PlanOfReads, LimitAssumption
  <2>3. /\ c.start \in Int /\ c.count \in 1..ReadLimit[c.area]
        /\ Units(c) \subseteq Requested(c.area)
    BY <2>2 DEF PlanGood
  <2>4. c.start \in Units(c)
    <3>1. c.count \in Nat \ {0}
      BY <2>2, <2>3
    <3> QED BY <2>3, <3>1, UnitsOf
  <2>5. \E i \in DOMAIN batch.items : c.start \in Extent(batch.items[i])
    BY <2>3, <2>4 DEF Requested
  <2> QED BY <1>1, <2>5
<1>4. CASE batch.op = "write"
  <2>1. c.item \in DOMAIN batch.items
    BY <1>2, <1>4, WriteChunk
  <2>2. PICK i \in DOMAIN batch.items : i = c.item
    BY <2>1
  <2>3. PICK item : item = batch.items[i]
    OBVIOUS
  <2>4. c \in Mine(i)
    BY <2>2 DEF Mine
  <2>5. /\ Chain(Mine(i), item.start, item.start + Size("write", item))
        /\ Units(c) \subseteq Extent(item)
    BY <1>2, <1>4, <2>3, <2>4, MineChain
  <2>6. c.start \in Units(c)
    BY <2>4, <2>5, UnitsOf DEF Chain
  <2> QED BY <1>1, <2>3, <2>5, <2>6
<1> QED BY <1>2, <1>3, <1>4

\* One failed request fails the items that need it and no others, each with the
\* error of the first failed request it needs, and the call raises only for an
\* item that names an illegal address itself: for every batch and every
\* interleaving of the chunks (execute_read_batch, execute_write_batch).
THEOREM FailuresStayIsolated == Spec => []FailuresIsolated
<1>1. IInv => FailuresIsolated
  <2> SUFFICES ASSUME IInv PROVE FailuresIsolated
    OBVIOUS
  <2>1. ASSUME phase = "done", NEW i \in DOMAIN results PROVE Isolated(i, batch.items[i])
    <3>1. PICK item : item = batch.items[i]
      OBVIOUS
    <3>2. batch.op \in {"read", "write"}
      BY BatchAssumption DEF IInv, CallInv
    <3> QED BY <2>1, <3>1, <3>2, ReadIsolated, WriteIsolated
  <2> QED BY <2>1, RaisesForItem, Zenon DEF FailuresIsolated, Isolated, Needs
<1> QED BY <1>1, Invariance, PTL

-----------------------------------------------------------------------------
(* Powers and patterns *)

\* A power is one factor more than the power before.
LEMMA PowerRec ==
  ASSUME NEW b \in Nat \ {0}
  PROVE  /\ \A n \in Nat : Power(b, n) \in Nat \ {0}
         /\ Power(b, 0) = 1
         /\ \A n \in Nat : Power(b, n + 1) = b * Power(b, n)
<1> DEFINE V == Nat \ {0}
           H == [x \in V \X Nat |-> b * x[1]]
           F(p) == [k \in Nat |-> IF k = 0 THEN 1 ELSE b * p[k - 1]]
           power == CHOOSE p : p = F(p)
<1>1. \A n : Power(b, n) = power[n]
  BY DEF Power
<1>2. ASSUME NEW x \in V PROVE b * x \in V
  OBVIOUS
<1>3. IsStep(V, H)
  <2> HIDE DEF V
  <2> QED BY <1>2 DEF IsStep
<1>4. 1 \in V
  OBVIOUS
<1>5. PICK f \in [Nat -> V] : f[0] = 1 /\ \A i \in Nat \ {0} : f[i] = H[<<f[i - 1], i>>]
  <2> DEFINE base == 1
  <2> HIDE DEF V, H, base
  <2>1. Recursive(V, base, H)
    BY <1>3, <1>4, Recursion DEF base
  <2> QED BY <2>1 DEF base, Recursive
<1>6. ASSUME NEW i \in Nat PROVE f[i] = IF i = 0 THEN 1 ELSE b * f[i - 1]
  <2>1. CASE i = 0
    BY <1>5, <2>1
  <2>2. CASE i # 0
    <3>1. i \in Nat \ {0} /\ i - 1 \in Nat
      BY <2>2
    <3>2. f[i] = H[<<f[i - 1], i>>] /\ f[i - 1] \in V
      BY <1>5, <3>1
    <3>3. H[<<f[i - 1], i>>] = b * f[i - 1]
      <4> HIDE DEF V
      <4> QED BY <3>1, <3>2
    <3> QED BY <2>2, <3>2, <3>3
  <2> QED BY <2>1, <2>2
<1>7. \E p : p = F(p)
  <2>1. f = [i \in Nat |-> f[i]]
    BY <1>5
  <2>2. f = [i \in Nat |-> IF i = 0 THEN 1 ELSE b * f[i - 1]]
    BY <1>6, <2>1
  <2> QED BY <2>2
<1>8. power = F(power)
  <2> HIDE DEF F
  <2> QED BY <1>7
<1> HIDE DEF power
<1>9. \A i \in Nat : power[i] = IF i = 0 THEN 1 ELSE b * power[i - 1]
  BY <1>8
<1>10. power[0] = 1
  BY <1>9
<1>11. ASSUME NEW n \in Nat PROVE power[n + 1] = b * power[n]
  <2>1. n + 1 \in Nat /\ n + 1 # 0 /\ (n + 1) - 1 = n
    OBVIOUS
  <2> HIDE DEF F
  <2> QED BY <1>9, <2>1
<1> DEFINE T == {n \in Nat : power[n] \in V}
<1>12. Nat \subseteq T
  <2>1. 0 \in T
    BY <1>4, <1>10
  <2>2. ASSUME NEW n \in Nat, n \in T PROVE n + 1 \in T
    BY <1>2, <1>11, <2>2
  <2> HIDE DEF T
  <2> QED BY <2>1, <2>2, Induction
<1> QED BY <1>1, <1>10, <1>11, <1>12

\* The bases and the patterns are positive numbers.
LEMMA Bases ==
  /\ ByteBits \in Nat \ {0} /\ ByteBase \in Nat \ {0} /\ RegisterBase \in Nat \ {0}
  /\ RegisterBase = ByteBase * ByteBase
  /\ \A d \in NumericDTypes : RegsPerItem[d] \in {1, 2, 4} /\ Patterns(d) \in Nat \ {0}
<1>1. ByteBits \in Nat \ {0}
  BY ByteAssumption
<1>2. ByteBase \in Nat \ {0}
  <2>1. 2 \in Nat \ {0} /\ ByteBits \in Nat
    BY <1>1
  <2> QED BY <2>1, PowerRec DEF ByteBase
<1>3. RegisterBase \in Nat \ {0} /\ RegisterBase = ByteBase * ByteBase
  BY <1>2 DEF RegisterBase
<1>4. ASSUME NEW d \in NumericDTypes PROVE RegsPerItem[d] \in {1, 2, 4}
  BY DEF NumericDTypes, RegsPerItem
<1>5. ASSUME NEW d \in NumericDTypes PROVE Patterns(d) \in Nat \ {0}
  <2>1. RegsPerItem[d] \in Nat
    BY <1>4
  <2> QED BY <1>3, <2>1, PowerRec DEF Patterns
<1> QED BY <1>1, <1>2, <1>3, <1>4, <1>5

-----------------------------------------------------------------------------
(* Writing *)

\* BytesToRegisters puts the bytes of a pattern where the layout says.
LEMMA EncodedRegister ==
  ASSUME NEW rpi \in Nat \ {0}, NEW x, NEW m \in 1..rpi, NEW wo \in Orders, NEW bo \in Orders
  PROVE  BytesToRegisters(ToBytes(x, 2 * rpi), wo, bo)[m] = RegisterOf(x, m, rpi, wo, bo)
<1> DEFINE W(w) == (x \div Power(ByteBase, w)) % ByteBase
           raw == ToBytes(x, 2 * rpi)
           high(i) == 2 * i - 1
           regs == [i \in 1..(Len(raw) \div 2) |->
                      IF bo = "big" THEN raw[2 * i - 1] * ByteBase + raw[2 * i]
                                    ELSE raw[2 * i] * ByteBase + raw[2 * i - 1]]
<1>1. raw = [i \in 1..2 * rpi |-> W(2 * rpi - i)]
  BY DEF ToBytes
<1> HIDE DEF raw, W
<1>2. Len(raw) = 2 * rpi /\ Len(raw) \div 2 = rpi
  BY <1>1
<1>3. ASSUME NEW i \in 1..rpi
      PROVE  /\ raw[2 * i - 1] = W(2 * (rpi - i) + 1)
             /\ raw[2 * i] = W(2 * (rpi - i))
  <2>1. /\ 2 * i - 1 \in 1..2 * rpi /\ 2 * i \in 1..2 * rpi
        /\ 2 * rpi - (2 * i - 1) = 2 * (rpi - i) + 1
        /\ 2 * rpi - 2 * i = 2 * (rpi - i)
    OBVIOUS
  <2> QED BY <1>1, <2>1
<1>4. ASSUME NEW i \in 1..rpi
      PROVE  regs[i] = IF bo = "big" THEN W(2 * (rpi - i) + 1) * ByteBase + W(2 * (rpi - i))
                                     ELSE W(2 * (rpi - i)) * ByteBase + W(2 * (rpi - i) + 1)
  BY <1>2, <1>3
<1>5. Len(regs) = rpi
  BY <1>2
<1>6. BytesToRegisters(raw, wo, bo) = IF wo = "little" THEN Reverse(regs) ELSE regs
  BY DEF BytesToRegisters
<1> HIDE DEF regs
<1>7. RegisterOf(x, m, rpi, wo, bo)
        = W(HighWeight(m, rpi, wo, bo)) * ByteBase + W(LowWeight(m, rpi, wo, bo))
  BY DEF RegisterOf, W
<1>8. CASE wo = "big"
  <2>1. BytesToRegisters(raw, wo, bo)[m] = regs[m]
    BY <1>6, <1>8
  <2>2. HighWeight(m, rpi, wo, bo) = IF bo = "big" THEN 2 * (rpi - m) + 1 ELSE 2 * (rpi - m)
    BY <1>8 DEF HighWeight, WordRank
  <2>3. LowWeight(m, rpi, wo, bo) = IF bo = "big" THEN 2 * (rpi - m) ELSE 2 * (rpi - m) + 1
    BY <1>8 DEF LowWeight, WordRank
  <2> QED BY <1>4, <1>7, <2>1, <2>2, <2>3 DEF raw
<1>9. CASE wo = "little"
  <2> DEFINE i == rpi - m + 1
  <2>1. i \in 1..rpi /\ rpi - i = m - 1
    OBVIOUS
  <2>2. BytesToRegisters(raw, wo, bo)[m] = regs[i]
    BY <1>5, <1>6, <1>9 DEF Reverse
  <2> HIDE DEF i
  <2>3. HighWeight(m, rpi, wo, bo) = IF bo = "big" THEN 2 * (rpi - i) + 1 ELSE 2 * (rpi - i)
    BY <1>9, <2>1 DEF HighWeight, WordRank
  <2>4. LowWeight(m, rpi, wo, bo) = IF bo = "big" THEN 2 * (rpi - i) ELSE 2 * (rpi - i) + 1
    BY <1>9, <2>1 DEF LowWeight, WordRank
  <2> QED BY <1>4, <1>7, <2>1, <2>2, <2>3, <2>4 DEF raw
<1> QED BY <1>8, <1>9 DEF Orders

\* A number less than p away from zero, modulo p.
LEMMA Wrapped ==
  ASSUME NEW p \in Nat \ {0}, NEW n \in Int, -p <= n, n < p
  PROVE  n % p = IF n < 0 THEN n + p ELSE n
<1>1. n \div p \in Int /\ n % p = n - (n \div p) * p
  <2>1. n \div p \in Int /\ n % p \in Int /\ n = p * (n \div p) + (n % p)
    OBVIOUS
  <2> QED BY <2>1
<1>2. CASE n < 0
  <2>1. (-1) * p = -p
    OBVIOUS
  <2>2. (-1) * p <= n /\ n < (-1) * p + p
    BY <1>2, <2>1
  <2>3. n \div p = -1
    BY <2>2, Quotient
  <2>4. n % p = n - (-1) * p
    BY <1>1, <2>3
  <2> QED BY <1>2, <2>1, <2>4
<1>3. CASE ~(n < 0)
  <2>1. 0 * p <= n /\ n < 0 * p + p
    BY <1>3
  <2>2. n \div p = 0
    BY <2>1, Quotient
  <2>3. n % p = n - 0 * p
    BY <1>1, <2>2
  <2> QED BY <1>3, <2>3
<1> QED BY <1>2, <1>3

\* A valid value is encoded as its two's complement or its bit pattern.
LEMMA ValidPattern ==
  ASSUME NEW item \in WriteItems, Registers(item), ValidWrite(item), Sound("write", item),
         NEW k \in DOMAIN item.values, item.dtype \in NumericDTypes, item.values[k].n \in Int
  PROVE  item.values[k].n % Patterns(item.dtype)
           = IF item.values[k].n < 0 THEN item.values[k].n + Patterns(item.dtype)
                                     ELSE item.values[k].n
<1> DEFINE p == Patterns(item.dtype)
           n == item.values[k].n
<1>1. p \in Nat \ {0} /\ n \in Int
  BY Bases
<1>2. Encodable(item.values[k], item.dtype)
  BY DEF ValidWrite
<1>3. -p <= n /\ n < p
  <2>1. CASE item.dtype \in FloatDTypes
    <3>1. n \in 0..(p - 1)
      BY <2>1 DEF Sound
    <3> HIDE DEF n, p
    <3> QED BY <1>1, <3>1
  <2>2. CASE item.dtype \notin FloatDTypes
    <3>1. n \in IntRange(item.dtype)
      BY <1>2, <2>2 DEF Encodable
    <3>2. n \in -(p \div 2)..(p \div 2 - 1) \/ n \in 0..(p - 1)
      BY <3>1 DEF IntRange
    <3> HIDE DEF n, p
    <3> QED BY <1>1, <3>2
  <2> QED BY <2>1, <2>2
<1> HIDE DEF n, p
<1>4. n % p = IF n < 0 THEN n + p ELSE n
  BY <1>1, <1>3, Wrapped
<1> QED BY <1>4 DEF n, p

\* encode_registers puts the j-th unit of an item where the documentation says.
LEMMA EncodedUnit ==
  ASSUME IInv, Planned, batch.op = "write", NEW i \in DOMAIN batch.items,
         NEW item, item = batch.items[i], NEW j \in 1..Size("write", item)
  PROVE  Encoded(item)[j] = DocumentedUnit(item, j)
<1> DEFINE rpi == RegsPerItem[item.dtype]
           n == Len(item.values)
           k == (j - 1) \div rpi + 1
           m == ((j - 1) % rpi) + 1
<1>1. /\ item \in WriteItems /\ item.dtype \in NumericDTypes /\ n \in Nat \ {0}
      /\ DOMAIN item.values = 1..n /\ rpi \in {1, 2, 4}
      /\ \A a \in DOMAIN item.values : item.values[a].n \in Int
      /\ Size("write", item) = n * rpi
      /\ ValidWrite(item) /\ Sound("write", item)
  BY WriteFields
<1>2. k \in 1..n /\ m \in 1..rpi /\ j \in 1..n * rpi /\ j \in Int
  <2> HIDE DEF n, rpi
  <2>1. j \in Int /\ 1 <= j /\ j <= n * rpi
    BY <1>1
  <2>2. CASE rpi = 1
    BY <1>1, <2>1, <2>2
  <2>3. CASE rpi = 2
    BY <1>1, <2>1, <2>3
  <2>4. CASE rpi = 4
    BY <1>1, <2>1, <2>4
  <2> QED BY <1>1, <2>2, <2>3, <2>4
<1>3. CASE Registers(item)
  <2> DEFINE wo == item.layout.word_order
             bo == item.layout.byte_order
             x == item.values[k].n
             p == Patterns(item.dtype)
             Blocks(a) == BytesToRegisters(EncodeOne(item.values[a], item.dtype), wo, bo)
  <2>1. Encoded(item) = EncodeRegisters(item.values, item.dtype, wo, bo)
    BY <1>3 DEF Encoded
  <2>2. Encoded(item)[j] = Blocks(k)[m]
    <3> DEFINE regs == [a \in DOMAIN item.values |-> Blocks(a)]
    <3>1. Encoded(item) = [b \in 1..n * rpi |-> regs[(b - 1) \div rpi + 1][((b - 1) % rpi) + 1]]
      BY <2>1 DEF EncodeRegisters
    <3>2. regs[k] = Blocks(k)
      <4> HIDE DEF Blocks, k
      <4> QED BY <1>1, <1>2
    <3> HIDE DEF regs, n, rpi
    <3>3. Encoded(item)[j] = regs[k][m]
      BY <1>2, <3>1
    <3> QED BY <3>2, <3>3
  <2>3. Blocks(k) = BytesToRegisters(ToBytes(x % p, 2 * rpi), wo, bo)
    BY DEF EncodeOne
  <2>4. wo \in Orders /\ bo \in Orders
    BY <1>1 DEF WriteItems, Layouts
  <2>5. x % p = IF x < 0 THEN x + p ELSE x
    <3>1. k \in DOMAIN item.values
      BY <1>1, <1>2
    <3> HIDE DEF k
    <3> QED BY <1>1, <1>3, <3>1, ValidPattern
  <2>6. DocumentedUnit(item, j) = RegisterOf(x % p, m, rpi, wo, bo)
    BY <1>3, <2>5 DEF DocumentedUnit
  <2> DEFINE y == x % p
  <2> HIDE DEF y
  <2>7. BytesToRegisters(ToBytes(y, 2 * rpi), wo, bo)[m] = RegisterOf(y, m, rpi, wo, bo)
    <3>1. rpi \in Nat \ {0}
      BY <1>1
    <3> HIDE DEF rpi, m, wo, bo
    <3> QED BY <1>2, <2>4, <3>1, EncodedRegister
  <2> QED BY <2>2, <2>3, <2>6, <2>7 DEF y
<1>4. CASE ~Registers(item)
  <2>1. rpi = 1
    <3>1. item.dtype = "uint16"
      BY <1>1, <1>4 DEF Sound, Registers
    <3> QED BY <3>1 DEF RegsPerItem
  <2>2. k = j
    <3> HIDE DEF rpi
    <3> QED BY <1>2, <2>1
  <2>3. Encoded(item) = [a \in DOMAIN item.values |-> item.values[a].n]
    BY <1>4 DEF Encoded
  <2>4. Encoded(item)[j] = item.values[j].n
    <3>1. j \in DOMAIN item.values
      <4> HIDE DEF k
      <4> QED BY <1>1, <1>2, <2>2
    <3> QED BY <2>3, <3>1
  <2>5. DocumentedUnit(item, j) = item.values[k].n
    BY <1>4 DEF DocumentedUnit
  <2> HIDE DEF k
  <2> QED BY <2>2, <2>4, <2>5
<1> QED BY <1>3, <1>4

\* An item reported as written is written, every value at its address and in the
\* layout asked for, however the item was cut: for every batch and every
\* interleaving of the chunks (execute_write_batch, encode_registers).
THEOREM WritesApplied == Spec => []WriteOkMeansApplied
<1>1. IInv => WriteOkMeansApplied
  <2> SUFFICES ASSUME IInv, phase = "done", batch.op = "write", NEW i \in DOMAIN results,
                      results[i].ok, NEW j \in 1..Size("write", batch.items[i])
               PROVE  [item |-> i, addr |-> batch.items[i].start + j - 1,
                       value |-> DocumentedUnit(batch.items[i], j)] \in applied
    BY DEF WriteOkMeansApplied
  <2>1. i \in DOMAIN batch.items /\ Planned
    BY DEF IInv, OutcomeInv, Planned
  <2>2. PICK item : item = batch.items[i]
    OBVIOUS
  <2> DEFINE a == item.start + j - 1
             size == Size("write", item)
  <2>3. /\ item.start \in Int /\ size \in Nat \ {0}
        /\ Chain(Mine(i), item.start, item.start + size)
    BY <2>1, <2>2, WriteFields, MineChain
  <2>4. a \in item.start..(item.start + size - 1) /\ a - item.start + 1 = j
    <3>1. j \in 1..size
      BY <2>2
    <3> HIDE DEF size
    <3> QED BY <2>3, <3>1
  <2>5. PICK c \in Mine(i) : a \in Units(c)
    <3> HIDE DEF a, size
    <3> QED BY <2>3, <2>4 DEF Chain
  <2>6. c \in plan /\ c.item = i /\ state[c] = "ok"
    BY <2>2, WriteIsolated DEF Mine
  <2>7. Written(c) \subseteq applied
    BY <2>6 DEF IInv, ChunkInv
  <2>8. [item |-> i, addr |-> a, value |-> Encoded(item)[a - item.start + 1]] \in Written(c)
    <3> HIDE DEF a
    <3>1. Written(c) = {[item |-> c.item, addr |-> u,
                         value |-> Encoded(item)[u - item.start + 1]] : u \in Units(c)}
      BY <2>2, <2>6 DEF Written
    <3> QED BY <2>5, <2>6, <3>1
  <2>9. Encoded(item)[j] = DocumentedUnit(item, j)
    BY <2>1, <2>2, EncodedUnit
  <2> QED BY <2>2, <2>4, <2>7, <2>8, <2>9
<1> QED BY <1>1, Invariance, PTL

-----------------------------------------------------------------------------
(* Reading: the value of a block *)

\* Numbers put together one at a time, each time scaling what there is.
Accumulates(f, b, d, n) ==
  f \in [0..n -> Int] /\ f[0] = 0 /\ \A i \in 1..n : f[i] = f[i - 1] * b + d[i]

\* Such a function exists.
LEMMA Accumulated ==
  ASSUME NEW b \in Int, NEW n \in Nat, NEW d, \A i \in 1..n : d[i] \in Int
  PROVE  \E f : Accumulates(f, b, d, n)
<1> DEFINE H == [x \in Int \X Nat |-> IF x[2] \in 1..n THEN x[1] * b + d[x[2]] ELSE 0]
<1>1. IsStep(Int, H)
  <2>1. ASSUME NEW x \in Int \X Nat PROVE (IF x[2] \in 1..n THEN x[1] * b + d[x[2]] ELSE 0) \in Int
    <3>1. x[1] \in Int /\ x[1] * b \in Int
      OBVIOUS
    <3> QED BY <3>1
  <2> QED BY <2>1 DEF IsStep
<1>2. PICK g \in [Nat -> Int] : g[0] = 0 /\ \A i \in Nat \ {0} : g[i] = H[<<g[i - 1], i>>]
  <2> DEFINE base == 0
  <2> HIDE DEF H, base
  <2>1. Recursive(Int, base, H)
    BY <1>1, Recursion DEF base
  <2> QED BY <2>1 DEF base, Recursive
<1> DEFINE f == [i \in 0..n |-> g[i]]
<1>3. ASSUME NEW i \in 1..n PROVE f[i] = f[i - 1] * b + d[i]
  <2>1. i \in Nat \ {0} /\ i - 1 \in Nat /\ i \in 0..n /\ i - 1 \in 0..n /\ i \in Nat
    OBVIOUS
  <2>2. g[i] = H[<<g[i - 1], i>>] /\ g[i - 1] \in Int
    BY <1>2, <2>1
  <2>3. H[<<g[i - 1], i>>] = g[i - 1] * b + d[i]
    <3> DEFINE e == g[i - 1]
    <3>1. e \in Int
      BY <2>2
    <3> HIDE DEF e
    <3>2. H[<<e, i>>] = e * b + d[i]
      BY <2>1, <3>1
    <3> QED BY <3>2 DEF e
  <2> QED BY <2>1, <2>2, <2>3
<1>4. f \in [0..n -> Int] /\ f[0] = 0
  BY <1>2
<1> HIDE DEF f
<1>5. Accumulates(f, b, d, n)
  BY <1>3, <1>4 DEF Accumulates
<1> QED BY <1>5

\* What the equations say of a sum determines that it consists of integers.
LEMMA AccumulatesInt ==
  ASSUME NEW b \in Int, NEW n \in Nat, NEW d, \A i \in 1..n : d[i] \in Int,
         NEW f, f[0] = 0, \A i \in 1..n : f[i] = f[i - 1] * b + d[i]
  PROVE  \A i \in 0..n : f[i] \in Int
<1> DEFINE T == {i \in Nat : i <= n => f[i] \in Int}
<1>1. 0 \in T
  OBVIOUS
<1>2. ASSUME NEW i \in Nat, i \in T PROVE i + 1 \in T
  <2> SUFFICES ASSUME i + 1 <= n PROVE f[i + 1] \in Int
    OBVIOUS
  <2>1. i + 1 \in 1..n /\ (i + 1) - 1 = i /\ f[i] \in Int
    BY <1>2
  <2>2. f[i] * b \in Int /\ d[i + 1] \in Int
    BY <2>1
  <2> QED BY <2>1, <2>2
<1>3. Nat \subseteq T
  <2> HIDE DEF T
  <2> QED BY <1>1, <1>2, Induction
<1> QED BY <1>3

\* A sequence of n integers.
Ints(s, n) == Len(s) = n /\ \A i \in 1..n : s[i] \in Int

\* FromBytes adds the bytes up, the first with the highest weight.
LEMMA FromBytesRec ==
  ASSUME NEW n \in Nat, NEW raw, Len(raw) = n, \A i \in 1..n : raw[i] \in Int
  PROVE  \E f : Accumulates(f, ByteBase, raw, n) /\ FromBytes(raw) = f[n]
<1> DEFINE F(p) == [i \in 0..Len(raw) |-> IF i = 0 THEN 0 ELSE p[i - 1] * ByteBase + raw[i]]
           value == CHOOSE p : p = F(p)
<1>0. ByteBase \in Int
  BY Bases
<1>1. FromBytes(raw) = value[n]
  BY DEF FromBytes
<1>2. \E p : p = F(p)
  <2>1. PICK f : Accumulates(f, ByteBase, raw, n)
    BY <1>0, Accumulated
  <2>2. f \in [0..n -> Int] /\ f[0] = 0 /\ \A i \in 1..n : f[i] = f[i - 1] * ByteBase + raw[i]
    BY <2>1 DEF Accumulates
  <2>3. ASSUME NEW i \in 0..n PROVE f[i] = IF i = 0 THEN 0 ELSE f[i - 1] * ByteBase + raw[i]
    BY <2>2
  <2>4. f = [i \in 0..n |-> f[i]]
    BY <2>2
  <2>5. f = [i \in 0..n |-> IF i = 0 THEN 0 ELSE f[i - 1] * ByteBase + raw[i]]
    BY <2>3, <2>4
  <2> QED BY <2>5
<1>3. value = F(value)
  <2> HIDE DEF F
  <2> QED BY <1>2
<1> HIDE DEF value
<1>4. value = [i \in 0..n |-> IF i = 0 THEN 0 ELSE value[i - 1] * ByteBase + raw[i]]
  BY <1>3
<1>5. value[0] = 0 /\ \A i \in 1..n : value[i] = value[i - 1] * ByteBase + raw[i]
  <2>1. \A i \in 0..n : value[i] = IF i = 0 THEN 0 ELSE value[i - 1] * ByteBase + raw[i]
    BY <1>4
  <2> HIDE DEF F
  <2>2. 0 \in 0..n /\ \A i \in 1..n : i \in 0..n /\ i # 0
    OBVIOUS
  <2> QED BY <2>1, <2>2
<1>6. \A i \in 0..n : value[i] \in Int
  <2> HIDE DEF F
  <2> QED BY <1>0, <1>5, AccumulatesInt
<1>7. value \in [0..n -> Int]
  BY <1>4, <1>6
<1> HIDE DEF F
<1> QED BY <1>1, <1>5, <1>7 DEF Accumulates

\* A register's two bytes, in the byte order, as a number.
Joined(r, bo) == IF bo = "big" THEN (r \div ByteBase) * ByteBase + (r % ByteBase)
                               ELSE (r % ByteBase) * ByteBase + (r \div ByteBase)
\* What the j-th register of a block of n is worth.
Weighed(regs, n, wo, bo) == [j \in 1..n |-> Joined(regs[j], bo) * Power(ByteBase, 2 * WordRank(j, n, wo))]

\* Numbers added up.
Adds(f, d, n) == Accumulates(f, 1, d, n)

\* BlockValue adds the registers up by their ranks.
LEMMA BlockValueRec ==
  ASSUME NEW n \in Nat, NEW regs, Len(regs) = n, \A i \in 1..n : regs[i] \in Int,
         NEW wo \in Orders, NEW bo \in Orders
  PROVE  \E f : Adds(f, Weighed(regs, n, wo, bo), n) /\ BlockValue(regs, wo, bo) = f[n]
<1> DEFINE Part(j) == (regs[j] \div ByteBase) * Power(ByteBase, HighWeight(j, n, wo, bo))
                      + (regs[j] % ByteBase) * Power(ByteBase, LowWeight(j, n, wo, bo))
           F(p) == [i \in 0..n |-> IF i = 0 THEN 0 ELSE p[i - 1] + Part(i)]
           sum == CHOOSE p : p = F(p)
           d == Weighed(regs, n, wo, bo)
<1>0. ByteBase \in Nat \ {0}
  BY Bases
<1>1. BlockValue(regs, wo, bo) = sum[n]
  BY DEF BlockValue
<1>2. ASSUME NEW j \in 1..n PROVE Part(j) = d[j] /\ d[j] \in Int
  <2> DEFINE w == 2 * WordRank(j, n, wo)
             h == regs[j] \div ByteBase
             l == regs[j] % ByteBase
             P == Power(ByteBase, w)
  <2>1. w \in Nat
    BY DEF WordRank
  <2>2. P \in Nat /\ Power(ByteBase, w + 1) = ByteBase * P
    <3> HIDE DEF w
    <3> QED BY <1>0, <2>1, PowerRec
  <2>3. h \in Int /\ l \in Int
    BY <1>0
  <2>4. d[j] = Joined(regs[j], bo) * P
    BY DEF Weighed
  <2>5. CASE bo = "big"
    <3>1. HighWeight(j, n, wo, bo) = w + 1 /\ LowWeight(j, n, wo, bo) = w
      <4>1. LowWeight(j, n, wo, bo) = w + 0
        BY <2>5 DEF LowWeight
      <4> HIDE DEF w
      <4>2. w + 0 = w
        BY <2>1
      <4> QED BY <2>5, <4>1, <4>2 DEF HighWeight, w
    <3>2. Part(j) = h * Power(ByteBase, w + 1) + l * Power(ByteBase, w)
      BY <3>1
    <3>3. Joined(regs[j], bo) = h * ByteBase + l
      BY <2>5 DEF Joined
    <3> HIDE DEF w, h, l, P, Part, d
    <3>4. Part(j) = h * (ByteBase * P) + l * P
      BY <2>2, <3>2 DEF P
    <3>5. h * (ByteBase * P) + l * P = (h * ByteBase + l) * P /\ (h * ByteBase + l) * P \in Int
      BY <1>0, <2>2, <2>3
    <3> QED BY <2>4, <3>3, <3>4, <3>5
  <2>6. CASE bo = "little"
    <3>1. HighWeight(j, n, wo, bo) = w /\ LowWeight(j, n, wo, bo) = w + 1
      <4>1. HighWeight(j, n, wo, bo) = w + 0
        BY <2>6 DEF HighWeight
      <4> HIDE DEF w
      <4>2. w + 0 = w
        BY <2>1
      <4> QED BY <2>6, <4>1, <4>2 DEF LowWeight, w
    <3>2. Part(j) = h * Power(ByteBase, w) + l * Power(ByteBase, w + 1)
      BY <3>1
    <3>3. Joined(regs[j], bo) = l * ByteBase + h
      BY <2>6 DEF Joined
    <3> HIDE DEF w, h, l, P, Part, d
    <3>4. Part(j) = h * P + l * (ByteBase * P)
      BY <2>2, <3>2 DEF P
    <3>5. h * P + l * (ByteBase * P) = (l * ByteBase + h) * P /\ (l * ByteBase + h) * P \in Int
      BY <1>0, <2>2, <2>3
    <3> QED BY <2>4, <3>3, <3>4, <3>5
  <2> QED BY <2>5, <2>6 DEF Orders
<1> HIDE DEF Part, d
<1>3. \E p : p = F(p)
  <2>1. PICK f : Accumulates(f, 1, d, n)
    <3> DEFINE one == 1
    <3>1. one \in Int /\ \A i \in 1..n : d[i] \in Int
      BY <1>2
    <3> HIDE DEF one
    <3>2. \E f : Accumulates(f, one, d, n)
      BY <3>1, Accumulated
    <3> QED BY <3>2 DEF one
  <2>2. f \in [0..n -> Int] /\ f[0] = 0 /\ \A i \in 1..n : f[i] = f[i - 1] * 1 + d[i]
    BY <2>1 DEF Accumulates
  <2>3. ASSUME NEW i \in 0..n PROVE f[i] = IF i = 0 THEN 0 ELSE f[i - 1] + Part(i)
    <3>1. CASE i = 0
      BY <2>2, <3>1
    <3>2. CASE i # 0
      <4>1. i \in 1..n /\ f[i - 1] \in Int
        BY <2>2, <3>2
      <4>2. f[i] = f[i - 1] * 1 + d[i] /\ f[i - 1] * 1 = f[i - 1]
        BY <2>2, <4>1
      <4> QED BY <1>2, <3>2, <4>1, <4>2
    <3> QED BY <3>1, <3>2
  <2>4. f = [i \in 0..n |-> f[i]]
    BY <2>2
  <2>5. f = [i \in 0..n |-> IF i = 0 THEN 0 ELSE f[i - 1] + Part(i)]
    BY <2>3, <2>4
  <2> QED BY <2>5
<1>4. sum = F(sum)
  <2> HIDE DEF F
  <2> QED BY <1>3
<1> HIDE DEF sum
<1>5. sum = [i \in 0..n |-> IF i = 0 THEN 0 ELSE sum[i - 1] + Part(i)]
  BY <1>4
<1> HIDE DEF F
<1>6. sum[0] = 0 /\ \A i \in 1..n : sum[i] = sum[i - 1] + d[i]
  <2>1. \A i \in 0..n : sum[i] = IF i = 0 THEN 0 ELSE sum[i - 1] + Part(i)
    BY <1>5
  <2>2. 0 \in 0..n /\ \A i \in 1..n : i \in 0..n /\ i # 0
    OBVIOUS
  <2> QED BY <1>2, <2>1, <2>2
<1> DEFINE T == {i \in Nat : i <= n => sum[i] \in Int}
<1>7. Nat \subseteq T
  <2>1. 0 \in T
    BY <1>6
  <2>2. ASSUME NEW i \in Nat, i \in T PROVE i + 1 \in T
    <3> SUFFICES ASSUME i + 1 <= n PROVE sum[i + 1] \in Int
      OBVIOUS
    <3>1. i + 1 \in 1..n /\ (i + 1) - 1 = i /\ sum[i] \in Int
      BY <2>2
    <3>2. sum[i + 1] = sum[(i + 1) - 1] + d[i + 1]
      BY <1>6, <3>1
    <3>3. d[i + 1] \in Int
      BY <1>2, <3>1
    <3> QED BY <3>1, <3>2, <3>3
  <2> HIDE DEF T
  <2> QED BY <2>1, <2>2, Induction
<1>8. \A i \in 0..n : sum[i] \in Int
  BY <1>7
<1>9. sum \in [0..n -> Int]
  BY <1>5, <1>8
<1>10. \A i \in 1..n : sum[i] = sum[i - 1] * 1 + d[i]
  <2>1. ASSUME NEW i \in 1..n PROVE sum[i - 1] * 1 = sum[i - 1]
    BY <1>8
  <2> QED BY <1>6, <2>1
<1>11. Adds(sum, d, n)
  BY <1>6, <1>9, <1>10 DEF Adds, Accumulates
<1> QED BY <1>1, <1>11 DEF d

\* Which register of a block of n comes i-th, the most significant first.
Place(i, n, wo) == IF wo = "big" THEN i ELSE n - i + 1

\* The registers of a block as numbers.
JoinedAll(regs, n, bo) == [i \in 1..n |-> Joined(regs[i], bo)]
\* The bytes in pairs are the registers, and these have the ranks of their places.
PairsUp(raw, b, joined, n, wo) ==
  \A i \in 1..n : raw[2 * i - 1] * b + raw[2 * i] = joined[Place(i, n, wo)]
Ranked(d, b, joined, n, wo) ==
  \A i \in 1..n : d[i] = joined[i] * Power(b, 2 * WordRank(i, n, wo))

\* The bytes of a block, two by two, are its registers in the word order.
LEMMA BlockBytes ==
  ASSUME NEW n \in Nat, NEW regs, Len(regs) = n, \A i \in 1..n : regs[i] \in Int,
         NEW wo \in Orders, NEW bo \in Orders,
         NEW raw, raw = RegistersToBytes(regs, wo, bo)
  PROVE  Ints(raw, 2 * n) /\ PairsUp(raw, ByteBase, JoinedAll(regs, n, bo), n, wo)
<1> DEFINE seq == IF wo = "little" THEN Reverse(regs) ELSE regs
           Byte(i) == IF (i % 2 = 1) = (bo = "big") THEN seq[(i + 1) \div 2] \div ByteBase
                                                    ELSE seq[(i + 1) \div 2] % ByteBase
<1>0. ByteBase \in Nat \ {0}
  BY Bases
<1>1. raw = [i \in 1..2 * n |-> Byte(i)]
  BY DEF RegistersToBytes
<1>2. ASSUME NEW i \in 1..n PROVE Place(i, n, wo) \in 1..n /\ seq[i] = regs[Place(i, n, wo)] /\ seq[i] \in Int
  <2>1. CASE wo = "big"
    BY <2>1 DEF Place
  <2>2. CASE wo = "little"
    <3>1. n - i + 1 \in 1..n
      OBVIOUS
    <3>2. seq[i] = regs[n - i + 1]
      BY <2>2 DEF Reverse
    <3> HIDE DEF seq
    <3> QED BY <2>2, <3>1, <3>2 DEF Place
  <2> QED BY <2>1, <2>2 DEF Orders
<1> HIDE DEF seq
<1>3. ASSUME NEW i \in 1..n
      PROVE  /\ 2 * i - 1 \in 1..2 * n /\ 2 * i \in 1..2 * n
             /\ raw[2 * i - 1] = IF bo = "big" THEN seq[i] \div ByteBase ELSE seq[i] % ByteBase
             /\ raw[2 * i] = IF bo = "big" THEN seq[i] % ByteBase ELSE seq[i] \div ByteBase
  <2>1. /\ 2 * i - 1 \in 1..2 * n /\ 2 * i \in 1..2 * n
        /\ ((2 * i - 1) + 1) \div 2 = i /\ (2 * i + 1) \div 2 = i
        /\ (2 * i - 1) % 2 = 1 /\ (2 * i) % 2 = 0
    OBVIOUS
  <2>2. Byte(2 * i - 1) = IF bo = "big" THEN seq[i] \div ByteBase ELSE seq[i] % ByteBase
    BY <2>1
  <2>3. Byte(2 * i) = IF bo = "big" THEN seq[i] % ByteBase ELSE seq[i] \div ByteBase
    BY <2>1
  <2> HIDE DEF Byte
  <2>4. raw[2 * i - 1] = Byte(2 * i - 1) /\ raw[2 * i] = Byte(2 * i)
    BY <1>1, <2>1
  <2> QED BY <2>1, <2>2, <2>3, <2>4
<1>4. ASSUME NEW i \in 1..2 * n PROVE raw[i] \in Int
  <2>1. (i + 1) \div 2 \in 1..n
    OBVIOUS
  <2>2. seq[(i + 1) \div 2] \in Int
    BY <1>2, <2>1
  <2> DEFINE r == seq[(i + 1) \div 2]
  <2>3. r \div ByteBase \in Int /\ r % ByteBase \in Int
    <3> HIDE DEF r
    <3> QED BY <1>0, <2>2 DEF r
  <2> HIDE DEF r
  <2>4. raw[i] = r \div ByteBase \/ raw[i] = r % ByteBase
    BY <1>1 DEF r
  <2> QED BY <2>3, <2>4
<1>5. ASSUME NEW i \in 1..n
      PROVE  raw[2 * i - 1] * ByteBase + raw[2 * i] = JoinedAll(regs, n, bo)[Place(i, n, wo)]
  <2>1. raw[2 * i - 1] * ByteBase + raw[2 * i] = Joined(regs[Place(i, n, wo)], bo)
    BY <1>2, <1>3 DEF Joined
  <2> QED BY <1>2, <2>1 DEF JoinedAll
<1>6. Len(raw) = 2 * n
  BY <1>1
<1> HIDE DEF Byte
<1> QED BY <1>4, <1>5, <1>6 DEF Ints, PairsUp

\* The most significant register first: what has been read by then, times the
\* weight of what is left, is the sum so far.
LEMMA BigBlock ==
  ASSUME NEW n \in Nat, NEW b \in Nat \ {0}, NEW raw, NEW joined, NEW f, NEW g, NEW d,
         Accumulates(f, b, raw, 2 * n), Adds(g, d, n),
         Ints(raw, 2 * n), PairsUp(raw, b, joined, n, "big"), Ranked(d, b, joined, n, "big")
  PROVE  g[n] = f[2 * n]
<1>0. /\ \A i \in 1..2 * n : raw[i] \in Int
      /\ \A i \in 1..n : raw[2 * i - 1] * b + raw[2 * i] = joined[i]
      /\ \A i \in 1..n : d[i] = joined[i] * Power(b, 2 * (n - i))
  BY DEF Ints, PairsUp, Ranked, Place, WordRank
<1>1. /\ f \in [0..2 * n -> Int] /\ f[0] = 0 /\ \A i \in 1..2 * n : f[i] = f[i - 1] * b + raw[i]
      /\ g \in [0..n -> Int] /\ g[0] = 0 /\ \A i \in 1..n : g[i] = g[i - 1] * 1 + d[i]
  BY DEF Accumulates, Adds
<1> DEFINE T == {j \in Nat : j <= n => g[j] = f[2 * j] * Power(b, 2 * (n - j))}
<1>2. 0 \in T
  <2>1. 2 * 0 = 0 /\ 2 * (n - 0) \in Nat
    OBVIOUS
  <2>2. Power(b, 2 * (n - 0)) \in Nat
    BY <2>1, PowerRec
  <2>3. 0 * Power(b, 2 * (n - 0)) = 0
    <3> DEFINE P == Power(b, 2 * (n - 0))
    <3>1. P \in Nat
      BY <2>2
    <3> HIDE DEF P
    <3>2. 0 * P = 0
      BY <3>1
    <3> QED BY <3>2 DEF P
  <2> QED BY <1>1, <2>1, <2>3
<1>3. ASSUME NEW j \in Nat, j \in T PROVE j + 1 \in T
  <2> SUFFICES ASSUME j + 1 <= n PROVE g[j + 1] = f[2 * (j + 1)] * Power(b, 2 * (n - (j + 1)))
    OBVIOUS
  <2> DEFINE i == j + 1
             w == 2 * (n - (j + 1))
             P == Power(b, w)
             x == f[2 * j]
  <2>1. /\ i \in 1..n /\ i - 1 = j /\ j <= n /\ w \in Nat /\ w + 1 \in Nat
        /\ 2 * (n - j) = (w + 1) + 1 /\ 2 * (n - i) = w
        /\ 2 * i - 1 \in 1..2 * n /\ 2 * i \in 1..2 * n /\ (2 * i - 1) - 1 = 2 * j
        /\ 2 * j \in 0..2 * n /\ j \in 0..n /\ 2 * (j + 1) = 2 * i
    OBVIOUS
  <2>2. P \in Nat /\ Power(b, 2 * (n - j)) = b * (b * P)
    <3> HIDE DEF w
    <3>1. P \in Nat /\ Power(b, w + 1) = b * P /\ Power(b, (w + 1) + 1) = b * Power(b, w + 1)
      BY <2>1, PowerRec
    <3> QED BY <2>1, <3>1
  <2>3. g[j] = x * Power(b, 2 * (n - j)) /\ x \in Int /\ g[j] \in Int
    BY <1>1, <1>3, <2>1
  <2> HIDE DEF i, w, P
  <2>4. g[i] = g[j] * 1 + d[i] /\ d[i] = joined[i] * P
    BY <1>1, <1>0, <2>1 DEF P
  <2>5. f[2 * i - 1] = x * b + raw[2 * i - 1] /\ f[2 * i] = f[2 * i - 1] * b + raw[2 * i]
    BY <1>1, <2>1
  <2> DEFINE hi == raw[2 * i - 1]
             lo == raw[2 * i]
  <2>6. hi \in Int /\ lo \in Int /\ joined[i] = hi * b + lo
    BY <1>0, <2>1
  <2> HIDE DEF x, hi, lo
  <2>7. f[2 * i] = (x * b + hi) * b + lo
    BY <2>5 DEF hi, lo
  <2>8. g[i] = x * (b * (b * P)) + (hi * b + lo) * P
    <3>1. g[j] * 1 = g[j]
      BY <2>3
    <3> QED BY <2>2, <2>3, <2>4, <2>6, <3>1
  <2>9. x * (b * (b * P)) + (hi * b + lo) * P = ((x * b + hi) * b + lo) * P
    BY <2>2, <2>3, <2>6
  <2> QED BY <2>1, <2>7, <2>8, <2>9 DEF i, w, P
<1>4. n \in T
  <2> HIDE DEF T
  <2> QED BY <1>2, <1>3, Induction
<1>5. g[n] = f[2 * n] * Power(b, 2 * (n - n))
  BY <1>4
<1>6. 2 * (n - n) = 0 /\ Power(b, 0) = 1
  BY PowerRec
<1>7. f[2 * n] * 1 = f[2 * n]
  <2>1. 2 * n \in 0..2 * n
    OBVIOUS
  <2> QED BY <1>1, <2>1
<1> QED BY <1>5, <1>6, <1>7

\* The least significant register first: what is read after the first j
\* registers, times their weight, and the sum of those make the number.
LEMMA LittleBlock ==
  ASSUME NEW n \in Nat, NEW b \in Nat \ {0}, NEW raw, NEW joined, NEW f, NEW g, NEW d,
         Accumulates(f, b, raw, 2 * n), Adds(g, d, n),
         Ints(raw, 2 * n), PairsUp(raw, b, joined, n, "little"), Ranked(d, b, joined, n, "little")
  PROVE  g[n] = f[2 * n]
<1>0. /\ \A i \in 1..2 * n : raw[i] \in Int
      /\ \A i \in 1..n : raw[2 * i - 1] * b + raw[2 * i] = joined[n - i + 1]
      /\ \A i \in 1..n : d[i] = joined[i] * Power(b, 2 * (i - 1))
  BY DEF Ints, PairsUp, Ranked, Place, WordRank
<1>1. /\ f \in [0..2 * n -> Int] /\ f[0] = 0 /\ \A i \in 1..2 * n : f[i] = f[i - 1] * b + raw[i]
      /\ g \in [0..n -> Int] /\ g[0] = 0 /\ \A i \in 1..n : g[i] = g[i - 1] * 1 + d[i]
  BY DEF Accumulates, Adds
<1> DEFINE T == {j \in Nat : j <= n => f[2 * n] = f[2 * (n - j)] * Power(b, 2 * j) + g[j]}
<1>2. 0 \in T
  <2>1. 2 * 0 = 0 /\ 2 * (n - 0) = 2 * n /\ Power(b, 0) = 1 /\ 2 * n \in 0..2 * n
    BY PowerRec
  <2>2. f[2 * n] * 1 + 0 = f[2 * n]
    BY <1>1, <2>1
  <2>3. f[2 * n] = f[2 * (n - 0)] * Power(b, 2 * 0) + g[0]
    BY <1>1, <2>1, <2>2
  <2> QED BY <2>3
<1>3. ASSUME NEW j \in Nat, j \in T PROVE j + 1 \in T
  <2> SUFFICES ASSUME j + 1 <= n
               PROVE  f[2 * n] = f[2 * (n - (j + 1))] * Power(b, 2 * (j + 1)) + g[j + 1]
    OBVIOUS
  <2> DEFINE i == n - j
             k == j + 1
             w == 2 * j
             P == Power(b, w)
             x == f[2 * (n - k)]
  <2>1. /\ i \in 1..n /\ n - i + 1 = k /\ j <= n /\ w \in Nat /\ w + 1 \in Nat
        /\ 2 * k = (w + 1) + 1 /\ k \in 1..n /\ k - 1 = j /\ 2 * (k - 1) = w
        /\ 2 * i - 1 \in 1..2 * n /\ 2 * i \in 1..2 * n /\ (2 * i - 1) - 1 = 2 * (n - k)
        /\ 2 * (n - k) \in 0..2 * n /\ j \in 0..n
    OBVIOUS
  <2>2. P \in Nat /\ Power(b, 2 * k) = b * (b * P)
    <3> HIDE DEF w, k
    <3>1. P \in Nat /\ Power(b, w + 1) = b * P /\ Power(b, (w + 1) + 1) = b * Power(b, w + 1)
      BY <2>1, PowerRec
    <3> QED BY <2>1, <3>1
  <2>3. f[2 * n] = f[2 * i] * P + g[j] /\ x \in Int /\ g[j] \in Int
    BY <1>1, <1>3, <2>1
  <2> HIDE DEF i, k, w, P
  <2>4. g[k] = g[j] * 1 + d[k] /\ d[k] = joined[k] * P
    BY <1>1, <1>0, <2>1 DEF P
  <2>5. f[2 * i - 1] = x * b + raw[2 * i - 1] /\ f[2 * i] = f[2 * i - 1] * b + raw[2 * i]
    BY <1>1, <2>1
  <2> DEFINE hi == raw[2 * i - 1]
             lo == raw[2 * i]
  <2>6. hi \in Int /\ lo \in Int /\ joined[k] = hi * b + lo
    BY <1>0, <2>1
  <2> HIDE DEF x, hi, lo
  <2>7. f[2 * i] = (x * b + hi) * b + lo
    BY <2>5 DEF hi, lo
  <2>8. f[2 * n] = ((x * b + hi) * b + lo) * P + g[j] /\ g[k] = g[j] + (hi * b + lo) * P
    <3>1. g[j] * 1 = g[j]
      BY <2>3
    <3> QED BY <2>3, <2>4, <2>6, <2>7, <3>1
  <2>9. ((x * b + hi) * b + lo) * P + g[j] = x * (b * (b * P)) + (g[j] + (hi * b + lo) * P)
    BY <2>2, <2>3, <2>6
  <2> QED BY <2>2, <2>8, <2>9 DEF k, x
<1>4. n \in T
  <2> HIDE DEF T
  <2> QED BY <1>2, <1>3, Induction
<1>5. f[2 * n] = f[2 * (n - n)] * Power(b, 2 * n) + g[n]
  BY <1>4
<1>6. 2 * (n - n) = 0 /\ 2 * n \in Nat /\ g[n] \in Int
  BY <1>1
<1>7. 0 * Power(b, 2 * n) = 0
  <2> DEFINE P == Power(b, 2 * n)
  <2>1. P \in Nat
    BY <1>6, PowerRec
  <2> HIDE DEF P
  <2>2. 0 * P = 0
    BY <2>1
  <2> QED BY <2>2 DEF P
<1> QED BY <1>1, <1>5, <1>6, <1>7

\* The bytes of a block in any layout, read as one number, have the value that
\* the documented weights give: ABCD, CDAB, BADC and DCBA (registers_to_bytes).
LEMMA BlockMeaning ==
  ASSUME NEW n \in Nat, NEW regs, Len(regs) = n, \A i \in 1..n : regs[i] \in Int,
         NEW wo \in Orders, NEW bo \in Orders
  PROVE  /\ FromBytes(RegistersToBytes(regs, wo, bo)) = BlockValue(regs, wo, bo)
         /\ BlockValue(regs, wo, bo) \in Int
<1> DEFINE joined == JoinedAll(regs, n, bo)
           d == Weighed(regs, n, wo, bo)
<1>0. ByteBase \in Nat \ {0}
  BY Bases
<1>1. PICK raw : raw = RegistersToBytes(regs, wo, bo)
  OBVIOUS
<1>2. Ints(raw, 2 * n) /\ PairsUp(raw, ByteBase, joined, n, wo)
  BY <1>1, BlockBytes
<1>3. PICK f : Accumulates(f, ByteBase, raw, 2 * n) /\ FromBytes(raw) = f[2 * n]
  <2> DEFINE m == 2 * n
  <2>1. m \in Nat
    OBVIOUS
  <2> HIDE DEF m
  <2>2. Len(raw) = m /\ \A i \in 1..m : raw[i] \in Int
    BY <1>2 DEF m, Ints
  <2> QED BY <2>1, <2>2, FromBytesRec DEF m
<1>4. PICK g : Adds(g, d, n) /\ BlockValue(regs, wo, bo) = g[n]
  BY BlockValueRec
<1>5. Ranked(d, ByteBase, joined, n, wo)
  BY DEF Ranked, Weighed, JoinedAll
<1> HIDE DEF joined, d
<1>7. f[2 * n] = g[n]
  BY <1>0, <1>2, <1>3, <1>4, <1>5, BigBlock, LittleBlock DEF Orders
<1>8. g[n] \in Int
  BY <1>4 DEF Accumulates, Adds
<1> QED BY <1>1, <1>3, <1>4, <1>7, <1>8

\* A type has an even number of patterns: the upper half is negative.
LEMMA Halves ==
  ASSUME NEW dtype \in NumericDTypes
  PROVE  Patterns(dtype) \in Nat /\ 2 * (Patterns(dtype) \div 2) = Patterns(dtype)
<1> DEFINE r == RegsPerItem[dtype] - 1
           Q == Power(RegisterBase, r)
           q == Power(2, ByteBits - 1)
           B == ByteBase
<1>1. /\ ByteBits \in Nat \ {0} /\ B \in Nat \ {0} /\ RegisterBase = B * B
      /\ RegisterBase \in Nat \ {0} /\ RegsPerItem[dtype] \in {1, 2, 4}
  BY Bases
<1>2. r \in Nat /\ RegsPerItem[dtype] = r + 1
  BY <1>1
<1>3. Patterns(dtype) = RegisterBase * Q /\ Q \in Nat
  <2> HIDE DEF r
  <2> QED BY <1>1, <1>2, PowerRec DEF Patterns
<1>4. B = 2 * q /\ q \in Nat
  <2> DEFINE m == ByteBits - 1
  <2>1. m \in Nat /\ ByteBits = m + 1 /\ 2 \in Nat \ {0}
    BY <1>1
  <2> HIDE DEF m
  <2>2. Power(2, m + 1) = 2 * Power(2, m) /\ Power(2, m) \in Nat
    BY <2>1, PowerRec
  <2> QED BY <2>1, <2>2 DEF ByteBase, m
<1> HIDE DEF Q, q, B
<1> DEFINE h == (q * B) * Q
<1>5. h \in Nat /\ Patterns(dtype) = 2 * h
  <2>1. Patterns(dtype) = ((2 * q) * B) * Q
    BY <1>1, <1>3, <1>4
  <2>2. ((2 * q) * B) * Q = 2 * ((q * B) * Q) /\ (q * B) * Q \in Nat
    BY <1>1, <1>3, <1>4
  <2> QED BY <2>1, <2>2
<1> HIDE DEF h
<1> QED BY <1>5

\* decode_registers: each value means what the documentation says.
LEMMA DecodedValue ==
  ASSUME NEW dtype \in NumericDTypes, NEW layout \in Layouts, NEW n \in Nat, NEW regs \in Seq(Int),
         Len(regs) = n, NEW k \in 1..(n \div RegsPerItem[dtype])
  PROVE  DecodeRegisters(regs, dtype, layout.word_order, layout.byte_order)[k]
           = DocumentedValue(regs, k, dtype, layout)
<1> DEFINE rpi == RegsPerItem[dtype]
           wo == layout.word_order
           bo == layout.byte_order
           block == SubSeq(regs, (k - 1) * rpi + 1, k * rpi)
           x == BlockValue(block, wo, bo)
           p == Patterns(dtype)
<1>1. rpi \in {1, 2, 4}
  BY Bases
<1>2. /\ k \in Int /\ (k - 1) * rpi \in Nat /\ k * rpi = (k - 1) * rpi + rpi
      /\ (k - 1) * rpi + rpi <= n
  <2> HIDE DEF rpi
  <2>1. CASE rpi = 1
    BY <2>1 DEF rpi
  <2>2. CASE rpi = 2
    BY <2>2 DEF rpi
  <2>3. CASE rpi = 4
    BY <2>3 DEF rpi
  <2> QED BY <1>1, <2>1, <2>2, <2>3
<1>3. Len(block) = rpi /\ \A i \in 1..rpi : block[i] \in Int
  <2> DEFINE a == (k - 1) * rpi
  <2>1. a \in Nat /\ rpi \in Nat /\ a + rpi <= Len(regs)
    BY <1>1, <1>2
  <2> HIDE DEF a, rpi
  <2>2. /\ SubSeq(regs, a + 1, a + rpi) \in Seq(Int) /\ Len(SubSeq(regs, a + 1, a + rpi)) = rpi
    BY <2>1, Taken
  <2>3. \A i \in 1..rpi : SubSeq(regs, a + 1, a + rpi)[i] \in Int
    BY <2>2
  <2> QED BY <1>2, <2>2, <2>3 DEF a
<1>4. wo \in Orders /\ bo \in Orders
  BY DEF Layouts
<1> HIDE DEF block, wo, bo
<1>5. FromBytes(RegistersToBytes(block, wo, bo)) = x /\ x \in Int
  <2>1. rpi \in Nat
    BY <1>1
  <2> HIDE DEF rpi
  <2> QED BY <1>3, <1>4, <2>1, BlockMeaning
<1>6. DecodeRegisters(regs, dtype, wo, bo)[k] = DecodeOne(RegistersToBytes(block, wo, bo), dtype)
  BY DEF DecodeRegisters, block
<1>7. DecodeOne(RegistersToBytes(block, wo, bo), dtype)
        = IF dtype \in SignedDTypes /\ x >= p \div 2 THEN x - p ELSE x
  <2> HIDE DEF x
  <2> QED BY <1>5 DEF DecodeOne
<1>8. DocumentedValue(regs, k, dtype, layout)
        = IF dtype \in SignedDTypes /\ 2 * x >= p THEN x - p ELSE x
  BY DEF DocumentedValue, block, wo, bo
<1>9. p \in Nat /\ 2 * (p \div 2) = p
  BY Halves
<1> HIDE DEF x, p
<1>10. x >= p \div 2 <=> 2 * x >= p
  BY <1>5, <1>9
<1> QED BY <1>6, <1>7, <1>8, <1>10 DEF wo, bo

\* The registers of an item that was read.
LEMMA ReadRegisters ==
  ASSUME IInv, phase = "done", batch.op = "read", NEW i \in DOMAIN results,
         NEW item, item = batch.items[i], NEW units,
         \A c \in Covering(item) : state[c] = "ok",
         IsSlice(units, Covering(item), got, item.start, item.count),
         item.count \in Nat, DOMAIN units = 1..item.count
  PROVE  Contents(units) \in Seq(Int) /\ Len(Contents(units)) = item.count
<1> DEFINE n == item.count
<1>1. \A a \in 0..AddressMax : batch.mem[a] \in Int
  <2>1. batch.mem \in [0..AddressMax -> 0..(RegisterBase - 1)]
    BY BatchAssumption DEF IInv, CallInv
  <2>2. \A x \in 0..(RegisterBase - 1) : x \in Int
    OBVIOUS
  <2> QED BY <2>1, <2>2
<1>2. ASSUME NEW a \in 0..AddressMax, NEW v \in {0, 1} PROVE Stored(item.area, a, v) \in Int
  <2> DEFINE x == (batch.mem[a] + v) % RegisterBase
  <2>1. batch.mem[a] \in Int /\ v \in Int /\ RegisterBase \in Nat \ {0}
    BY <1>1, Bases
  <2>2. x \in Int
    BY <2>1
  <2>3. Stored(item.area, a, v) = IF item.area \in BitAreas THEN x % 2 ELSE x
    BY DEF Stored
  <2> HIDE DEF x
  <2> QED BY <2>2, <2>3
<1>3. ASSUME NEW j \in 1..n PROVE units[j].value \in Int
  <2>1. PICK v \in {0, 1} :
          /\ units[j] = [addr |-> item.start + j - 1, version |-> v,
                         value |-> Stored(item.area, item.start + j - 1, v)]
          /\ item.start + j - 1 \in 0..AddressMax
    BY UnitContents
  <2>2. Stored(item.area, item.start + j - 1, v) \in Int
    BY <1>2, <2>1
  <2> QED BY <2>1, <2>2
<1>4. Contents(units) = [j \in 1..n |-> units[j].value]
  BY DEF Contents
<1> HIDE DEF n
<1>5. [j \in 1..n |-> units[j].value] \in Seq(Int) /\ Len([j \in 1..n |-> units[j].value]) = n
  BY <1>3 DEF n
<1> QED BY <1>4, <1>5 DEF n

\* What an item's values mean, from its registers.
Meaning(item, regs, v) ==
  IF ~Registers(item) THEN v = regs
  ELSE IF item.dtype \in {"bit", "bits"}
  THEN /\ Len(v) = Len(item.bits)
       /\ \A j \in DOMAIN v :
            v[j] = DocumentedBit(regs, item.bits[j], item.layout, item.numbering)
  ELSE /\ Len(v) * RegsPerItem[item.dtype] = item.count
       /\ \A k \in DOMAIN v : v[k] = DocumentedValue(regs, k, item.dtype, item.layout)

\* _decode_register_item gives the values of a block their documented meaning.
LEMMA ItemMeaning ==
  ASSUME NEW item \in ReadItems, item.count \in Nat \ {0}, NEW units,
         Contents(units) \in Seq(Int), Len(Contents(units)) = item.count,
         Unfailed(item, units).ok
  PROVE  Meaning(item, Contents(units), Unfailed(item, units).values)
<1> DEFINE regs == Contents(units)
           n == item.count
           wo == item.layout.word_order
           bo == item.layout.byte_order
           v == Unfailed(item, units).values
           rpi == RegsPerItem[item.dtype]
<1>1. /\ item.layout \in Layouts /\ wo \in Orders /\ bo \in Orders /\ item.bits \in Seq(Int)
      /\ item.dtype \in DTypes /\ item.numbering \in Numberings
  BY DEF ReadItems, Layouts
<1>2. n \in Nat /\ Len(regs) = n /\ \A i \in 1..n : regs[i] \in Int
  OBVIOUS
<1>3. CASE ~Registers(item)
  BY <1>3 DEF Unfailed, Meaning
<1>4. CASE Registers(item) /\ item.dtype \in {"bit", "bits"}
  <2> DEFINE value == FromBytes(RegistersToBytes(regs, wo, bo))
  <2>1. v = ExtractBits(regs, item.bits, wo, bo, item.numbering)
    BY <1>4 DEF Unfailed, DecodeRegisterItem, Failure
  <2>2. value = BlockValue(regs, wo, bo)
    <3> HIDE DEF regs, n, wo, bo
    <3> QED BY <1>1, <1>2, BlockMeaning
  <2>3. v = [j \in DOMAIN item.bits |->
               (value \div Power(2, ResolvePos(item.bits[j], Len(regs) * RegisterBits,
                                               item.numbering))) % 2]
    BY <2>1 DEF ExtractBits
  <2> HIDE DEF value, v
  <2>4. Len(v) = Len(item.bits) /\ DOMAIN v = DOMAIN item.bits
    BY <1>1, <2>3
  <2>5. ASSUME NEW j \in DOMAIN item.bits
        PROVE  v[j] = DocumentedBit(regs, item.bits[j], item.layout, item.numbering)
    <3> HIDE DEF regs
    <3> QED BY <2>2, <2>3 DEF DocumentedBit, ResolvePos
  <2> HIDE DEF regs
  <2>6. Meaning(item, regs, v)
    BY <1>4, <2>4, <2>5 DEF Meaning
  <2> QED BY <2>6 DEF regs, v
<1>5. CASE Registers(item) /\ item.dtype \notin {"bit", "bits"}
  <2>1. item.dtype \in NumericDTypes
    BY <1>1, <1>5 DEF DTypes
  <2>2. v = DecodeRegisters(regs, item.dtype, wo, bo) /\ n % rpi = 0
    BY <1>5 DEF Unfailed, DecodeRegisterItem, Failure
  <2>3. DOMAIN v = 1..(n \div rpi) /\ Len(v) = n \div rpi
    <3>1. DOMAIN v = 1..(n \div rpi)
      BY <2>2 DEF DecodeRegisters
    <3>2. n \div rpi \in Nat
      <4>1. rpi \in {1, 2, 4}
        BY <2>1, Bases
      <4> HIDE DEF rpi
      <4> QED BY <4>1
    <3>3. v = [k \in 1..(n \div rpi) |->
                 DecodeOne(RegistersToBytes(SubSeq(regs, (k - 1) * rpi + 1, k * rpi), wo, bo),
                           item.dtype)]
      BY <2>2 DEF DecodeRegisters
    <3> HIDE DEF rpi, n, v
    <3> QED BY <3>1, <3>2, <3>3
  <2>4. (n \div rpi) * rpi = n
    <3>1. rpi \in {1, 2, 4}
      BY <2>1, Bases
    <3> HIDE DEF rpi
    <3>2. CASE rpi = 1
      BY <3>2
    <3>3. CASE rpi = 2
      BY <2>2, <3>3
    <3>4. CASE rpi = 4
      BY <2>2, <3>4
    <3> QED BY <3>1, <3>2, <3>3, <3>4
  <2>5. ASSUME NEW k \in DOMAIN v PROVE v[k] = DocumentedValue(regs, k, item.dtype, item.layout)
    <3>1. k \in 1..(n \div rpi)
      BY <2>3
    <3> HIDE DEF regs, v
    <3>2. DecodeRegisters(regs, item.dtype, wo, bo)[k] = DocumentedValue(regs, k, item.dtype, item.layout)
      BY <1>1, <1>2, <2>1, <3>1, DecodedValue DEF regs
    <3> QED BY <2>2, <3>2
  <2> HIDE DEF regs, v
  <2>6. Meaning(item, regs, v)
    BY <1>5, <2>3, <2>4, <2>5 DEF Meaning
  <2> QED BY <2>6 DEF regs, v
<1> QED BY <1>3, <1>4, <1>5

\* A successful read returns what its registers mean in the layout asked for,
\* for every dtype, layout and bit numbering, every count of registers and
\* every width of a byte (_decode_register_item, decode_registers, extract_bits).
THEOREM ReadsMeanWhatIsDocumented == Spec => []ReadsDecodeAsDocumented
<1>1. IInv => ReadsDecodeAsDocumented
  <2> SUFFICES ASSUME IInv, phase = "done", batch.op = "read", NEW i \in DOMAIN results,
                      results[i].ok
               PROVE  Meaning(batch.items[i], Contents(results[i].units), results[i].values)
    BY Zenon DEF ReadsDecodeAsDocumented, Meaning
  <2>1. i \in DOMAIN batch.items /\ Planned
    BY DEF IInv, OutcomeInv, Planned
  <2>2. PICK item : item = batch.items[i]
    OBVIOUS
  <2>3. PICK units : /\ units \in Seq(Values(item))
                     /\ IsSlice(units, Covering(item), got, item.start, item.count)
                     /\ \A c \in Covering(item) : state[c] = "ok"
                     /\ results[i] = Unfailed(item, units) /\ results[i].units = units
    BY <2>2, Succeeded
  <2>4. item \in ReadItems /\ item.count \in Nat \ {0}
    BY <2>1, <2>2, ItemChain
  <2>5. DOMAIN units = 1..item.count
    BY <2>3 DEF IsSlice
  <2>6. Contents(units) \in Seq(Int) /\ Len(Contents(units)) = item.count
    BY <2>2, <2>3, <2>4, <2>5, ReadRegisters
  <2>7. Unfailed(item, units).ok
    BY <2>3
  <2>8. Meaning(item, Contents(units), Unfailed(item, units).values)
    BY <2>4, <2>6, <2>7, ItemMeaning
  <2> QED BY <2>2, <2>3, <2>8
<1> QED BY <1>1, Invariance, PTL
=============================================================================
