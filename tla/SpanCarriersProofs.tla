------------------------- MODULE SpanCarriersProofs -------------------------
(***************************************************************************)
(* Proofs about SpanCarriers for every set of slots, every capacity and    *)
(* every template argument.  The state predicate IInv is the conjunction   *)
(* of what holds of the span variable and of each carrier by itself; it is *)
(* inductive because a call reads one carrier or the span, and writes one. *)
(***************************************************************************)
EXTENDS SpanCarriers, TLAPS

SpanOK(sp) ==
  /\ sp \in StdSpan
  /\ sp.extent # Dynamic => sp.view.size = sp.extent
  /\ Within(sp.view, sp.elem, sp.from)

CarrierOK(c) ==
  /\ c \in Carrier
  /\ FactHolds(c)
  /\ Within(c.view, c.elem, c.from)
  /\ c.view.data + c.view.size = c.end

IInv ==
  /\ owner \in [base : Nat, size : Nat]
  /\ SpanOK(span)
  /\ \A s \in Slots : CarrierOK(carrier[s])
  /\ carrier \in [Slots -> Carrier]

-----------------------------------------------------------------------------
(* Lemmas about the values that the calls compute.                         *)

\* A carrier validated against the span variable is a good one, for both
\* class templates: what is to show is only that the fact was tested.
LEMMA CarryOK ==
  ASSUME SpanOK(span), NEW kind \in {"at_least", "blocks"}, NEW N \in Nat,
         NEW T \in Element, N > 0,
         qualification_compatible(span.elem, T),
         kind = "at_least" => span.view.size >= N,
         kind = "blocks" => span.view.size % N = 0
  PROVE  CarrierOK(Carry(kind, N, T, span.view, span.from))
BY DEF SpanOK, CarrierOK, Carry, StdSpan, Carrier, Borrowed, View, Within,
       FactHolds, Element, qualification_compatible

\* The empty optional satisfies everything that is said of a carrier.
LEMMA NulloptOK == CarrierOK(Nullopt)
BY DEF CarrierOK, Nullopt, NullView, Carrier, Borrowed, View, Element, Within, FactHolds

\* The converting constructor of at_least_span: a weaker fact is still a fact.
LEMMA WeakenOK ==
  ASSUME NEW c, CarrierOK(c), c.kind = "at_least", NEW N \in Nat, NEW T \in Element,
         N > 0, c.n >= N, qualification_compatible(c.elem, T)
  PROVE  CarrierOK([c EXCEPT !.n = N, !.elem = T])
<1> DEFINE d == [c EXCEPT !.n = N, !.elem = T]
<1>1. c \in Carrier
  BY DEF CarrierOK
<1>2. /\ d \in Carrier
      /\ d.kind = c.kind /\ d.n = N /\ d.elem = T
      /\ d.view = c.view /\ d.from = c.from /\ d.end = c.end
  BY <1>1 DEF Carrier
<1> HIDE DEF d
<1>3. FactHolds(d)
  BY <1>1, <1>2 DEF CarrierOK, FactHolds, Carrier, View
<1>4. Within(d.view, d.elem, d.from)
  BY <1>2 DEF CarrierOK, Within, qualification_compatible, Element
<1>5. CarrierOK(d)
  BY <1>2, <1>3, <1>4 DEF CarrierOK
<1> QED
  BY <1>5 DEF d

\* The converting constructor of block_span: the partition is kept.
LEMMA QualifyOK ==
  ASSUME NEW c, CarrierOK(c), c.kind = "blocks", NEW T \in Element,
         qualification_compatible(c.elem, T)
  PROVE  CarrierOK([c EXCEPT !.elem = T])
<1> DEFINE d == [c EXCEPT !.elem = T]
<1>1. c \in Carrier
  BY DEF CarrierOK
<1>2. /\ d \in Carrier
      /\ d.kind = c.kind /\ d.n = c.n /\ d.elem = T
      /\ d.view = c.view /\ d.from = c.from /\ d.end = c.end
  BY <1>1 DEF Carrier
<1> HIDE DEF d
<1>3. FactHolds(d)
  BY <1>2 DEF CarrierOK, FactHolds
<1>4. Within(d.view, d.elem, d.from)
  BY <1>2 DEF CarrierOK, Within, qualification_compatible, Element
<1>5. CarrierOK(d)
  BY <1>2, <1>3, <1>4 DEF CarrierOK
<1> QED
  BY <1>5 DEF d

\* subspan() below N keeps the residual minimum, and the end of the view.
LEMMA SubspanOK ==
  ASSUME NEW c, CarrierOK(c), c.kind = "at_least", NEW Offset \in Nat, Offset < c.n
  PROVE  CarrierOK([c EXCEPT !.n = @ - Offset, !.view = Drop(@, Offset)])
<1> DEFINE d == [c EXCEPT !.n = @ - Offset, !.view = Drop(@, Offset)]
<1>1. c \in Carrier /\ c.n <= c.view.size
  BY DEF CarrierOK, FactHolds
<1>2. /\ c.n - Offset \in Nat /\ c.n - Offset > 0
      /\ Drop(c.view, Offset) \in View
  BY <1>1 DEF Carrier, View, Drop
<1>3. /\ d \in Carrier
      /\ d.kind = c.kind /\ d.n = c.n - Offset /\ d.elem = c.elem
      /\ d.view = Drop(c.view, Offset) /\ d.from = c.from /\ d.end = c.end
  BY <1>1, <1>2 DEF Carrier
<1> HIDE DEF d
<1>4. FactHolds(d)
  BY <1>1, <1>2, <1>3 DEF FactHolds, Carrier, View, Drop
<1>5. Within(d.view, d.elem, d.from) /\ d.view.data + d.view.size = d.end
  BY <1>1, <1>3 DEF CarrierOK, Within, Carrier, Borrowed, View, Drop
<1>6. CarrierOK(d)
  BY <1>3, <1>4, <1>5 DEF CarrierOK
<1> QED
  BY <1>6 DEF d

\* The views that leave a carrier as a std::span stay inside the carrier's.
LEMMA PrefixOK ==
  ASSUME NEW c, CarrierOK(c), c.kind = "at_least"
  PROVE  SpanOK([view |-> prefix(c), elem |-> c.elem, extent |-> c.n, from |-> c.from])
BY DEF CarrierOK, Carrier, Borrowed, View, Element, Within, FactHolds, SpanOK, StdSpan,
       prefix, Take

LEMMA RestOK ==
  ASSUME NEW c, CarrierOK(c), c.kind = "at_least"
  PROVE  SpanOK([view |-> rest(c), elem |-> c.elem, extent |-> Dynamic, from |-> c.from])
BY DEF CarrierOK, Carrier, Borrowed, View, Element, Within, FactHolds, SpanOK, StdSpan,
       rest, Drop

\* Every call stores one carrier or assigns one span: the rest is a frame.
LEMMA StoreKeeps ==
  ASSUME IInv, NEW s \in Slots, NEW c, CarrierOK(c), Store(s, c),
         UNCHANGED <<owner, span>>
  PROVE  IInv'
BY DEF IInv, Store, CarrierOK

LEMMA AssignKeeps ==
  ASSUME IInv, NEW v, NEW extent, NEW T, NEW from,
         SpanOK([view |-> v, elem |-> T, extent |-> extent, from |-> from]),
         Assign(v, extent, T, from), UNCHANGED <<owner, carrier>>
  PROVE  IInv'
BY DEF IInv, Assign, SpanOK

-----------------------------------------------------------------------------
(* The inductive invariant.                                                *)

LEMMA InitIInv == Init => IInv
<1> SUFFICES ASSUME Init PROVE IInv
  OBVIOUS
<1>1. owner \in [base : Nat, size : Nat]
  <2>1. owner \in [base : Bases, size : 0 .. Capacity]
    BY DEF Init
  <2>2. Bases \subseteq Nat /\ 0 .. Capacity \subseteq Nat
    BY ConstantsAssumption
  <2> QED
    BY <2>1, <2>2
<1>2. SpanOK(span)
  BY ConstantsAssumption
  DEF Init, SpanOK, StdSpan, Borrowed, View, NullView, Element, Within
<1>3. Nullopt \in Carrier
  BY NulloptOK DEF CarrierOK
<1> QED
  BY <1>1, <1>2, <1>3, NulloptOK DEF Init, IInv

\* The owner's steps leave the span and the carriers alone: that is what makes
\* them dangle, and why nothing here speaks of live elements.
LEMMA OwnerStepKeeps == IInv /\ OwnerStep => IInv'
BY ConstantsAssumption DEF IInv, OwnerStep, Resize, Reallocate

LEMMA BorrowKeeps ==
  ASSUME IInv, NEW offset \in Nat, NEW count \in Nat, NEW fixed \in BOOLEAN,
         NEW T \in Element, Borrow(offset, count, fixed, T)
  PROVE  IInv'
<1> DEFINE v == [data |-> owner.base + offset, size |-> count]
           from == [view |-> v, elem |-> T]
           extent == IF fixed THEN count ELSE Dynamic
<1>1. v \in View /\ from \in Borrowed
  BY DEF IInv, View, Borrowed
<1>2. SpanOK([view |-> v, elem |-> T, extent |-> extent, from |-> from])
  BY <1>1 DEF SpanOK, StdSpan, Borrowed, View, Within
<1> QED
  BY <1>2, AssignKeeps DEF Borrow

LEMMA CheckedSpanKeeps ==
  ASSUME IInv, NEW N \in Nat, CheckedSpan(N)
  PROVE  IInv'
<1>1. SpanOK([view |-> Take(span.view, N), elem |-> span.elem, extent |-> N,
              from |-> span.from])
  BY DEF IInv, CheckedSpan, SpanOK, StdSpan, Borrowed, View, Element, Within, Take
<1> QED
  BY <1>1, AssignKeeps DEF CheckedSpan

LEMMA ObserveKeeps ==
  ASSUME IInv, NEW t \in Slots, Observe(t)
  PROVE  IInv'
<1> DEFINE c == carrier[t]
<1>1. CarrierOK(c)
  BY DEF IInv
<1>2. CASE AtLeastSubspanAll(t)
  BY <1>1, <1>2, RestOK, AssignKeeps DEF AtLeastSubspanAll, Holds, rest
<1>3. CASE TakePrefix(t)
  BY <1>1, <1>3, PrefixOK, AssignKeeps DEF TakePrefix, Holds
<1>4. CASE TakeRest(t)
  BY <1>1, <1>4, RestOK, AssignKeeps DEF TakeRest, Holds
<1>5. CASE AsSpan(t)
  <2>1. SpanOK([view |-> c.view, elem |-> c.elem, extent |-> Dynamic, from |-> c.from])
    BY <1>1 DEF CarrierOK, SpanOK, StdSpan, Carrier
  <2> QED
    BY <1>5, <2>1, AssignKeeps DEF AsSpan
<1> QED
  BY <1>2, <1>3, <1>4, <1>5 DEF Observe

LEMMA ValidateKeeps ==
  ASSUME IInv, NEW s \in Slots, NEW N \in Nat, NEW T \in Element, Validate(s, N, T)
  PROVE  IInv'
<1>1. SpanOK(span)
  BY DEF IInv
<1>2. span.view \in View
  BY <1>1 DEF SpanOK, StdSpan
<1>3. CASE AtLeastFromFixed(s, N, T)
  BY <1>1, <1>3, CarryOK, StoreKeeps DEF AtLeastFromFixed, valid_argument, SpanOK
<1>4. CASE AtLeastTryFrom(s, N, T)
  BY <1>1, <1>2, <1>4, CarryOK, NulloptOK, StoreKeeps
  DEF AtLeastTryFrom, too_short, valid_argument, View
<1>5. CASE BlockFromFixed(s, N, T)
  BY <1>1, <1>5, CarryOK, StoreKeeps DEF BlockFromFixed, valid_argument, SpanOK
<1>6. CASE BlockTryFrom(s, N, T)
  BY <1>1, <1>6, CarryOK, NulloptOK, StoreKeeps DEF BlockTryFrom, partial, valid_argument
<1>7. CASE BlockDefault(s, N, T)
  <2>1. CarrierOK(Carry("blocks", N, T, NullView, [view |-> NullView, elem |-> T]))
    BY <1>7 DEF BlockDefault, valid_argument, Carry, CarrierOK, Carrier, Borrowed, View,
                NullView, Within, FactHolds
  <2> QED
    BY <1>7, <2>1, StoreKeeps DEF BlockDefault
<1> QED
  BY <1>3, <1>4, <1>5, <1>6, <1>7 DEF Validate

LEMMA ConvertKeeps ==
  ASSUME IInv, NEW s \in Slots, NEW t \in Slots, Convert(s, t)
  PROVE  IInv'
<1>1. CarrierOK(carrier[t])
  BY DEF IInv
<1>2. CASE CopyCarrier(s, t)
  BY <1>1, <1>2, StoreKeeps DEF CopyCarrier
<1>3. ASSUME NEW T \in Element, BlockQualify(s, t, T)
      PROVE  IInv'
  BY <1>1, <1>3, QualifyOK, StoreKeeps DEF BlockQualify, Holds
<1>4. ASSUME NEW T \in Element, NEW N \in 0 .. MaxN, AtLeastWeaken(s, t, N, T)
      PROVE  IInv'
  <2>1. N \in Nat /\ N > 0 /\ carrier[t].kind = "at_least"
    BY <1>4, ConstantsAssumption DEF AtLeastWeaken, Holds, valid_argument
  <2>2. CarrierOK([carrier[t] EXCEPT !.n = N, !.elem = T])
    BY <1>1, <1>4, <2>1, WeakenOK DEF AtLeastWeaken
  <2> QED
    BY <1>4, <2>2, StoreKeeps DEF AtLeastWeaken
<1>5. ASSUME NEW Offset \in 0 .. MaxN, AtLeastSubspan(s, t, Offset)
      PROVE  IInv'
  <2>1. Offset \in Nat /\ carrier[t].kind = "at_least"
    BY <1>5, ConstantsAssumption DEF AtLeastSubspan, Holds
  <2>2. CarrierOK([carrier[t] EXCEPT !.n = @ - Offset, !.view = Drop(@, Offset)])
    BY <1>1, <1>5, <2>1, SubspanOK DEF AtLeastSubspan
  <2> QED
    BY <1>5, <2>2, StoreKeeps DEF AtLeastSubspan
<1> QED
  BY <1>2, <1>3, <1>4, <1>5 DEF Convert

LEMMA NextIInv == IInv /\ [Next]_vars => IInv'
<1> SUFFICES ASSUME IInv, [Next]_vars PROVE IInv'
  OBVIOUS
<1>1. CASE OwnerStep
  BY <1>1, OwnerStepKeeps
<1>2. ASSUME NEW offset \in 0 .. Capacity, NEW count \in 0 .. Capacity,
             NEW fixed \in BOOLEAN, NEW T \in Element, Borrow(offset, count, fixed, T)
      PROVE  IInv'
  BY <1>2, ConstantsAssumption, BorrowKeeps
<1>3. ASSUME NEW N \in 0 .. MaxN, CheckedSpan(N)
      PROVE  IInv'
  BY <1>3, ConstantsAssumption, CheckedSpanKeeps
<1>4. ASSUME NEW s \in Slots, Discard(s)
      PROVE  IInv'
  BY <1>4, NulloptOK, StoreKeeps DEF Discard
<1>5. ASSUME NEW s \in Slots, Observe(s)
      PROVE  IInv'
  BY <1>5, ObserveKeeps
<1>6. ASSUME NEW s \in Slots, NEW N \in 0 .. MaxN, NEW T \in Element, Validate(s, N, T)
      PROVE  IInv'
  BY <1>6, ConstantsAssumption, ValidateKeeps
<1>7. ASSUME NEW s \in Slots, NEW t \in Slots, Convert(s, t)
      PROVE  IInv'
  BY <1>7, ConvertKeeps
<1>8. CASE UNCHANGED vars
  BY <1>8 DEF vars, IInv
<1> QED
  BY <1>1, <1>2, <1>3, <1>4, <1>5, <1>6, <1>7, <1>8 DEF Next

LEMMA SpecIInv == Spec => []IInv
BY InitIInv, NextIInv, PTL DEF Spec

-----------------------------------------------------------------------------
(* The invariants that are conjuncts of IInv.                              *)

\* The owner, the span and every carrier keep their types.
THEOREM TypeCorrect == Spec => []TypeOK
<1>1. IInv => TypeOK
  BY DEF IInv, TypeOK, SpanOK
<1> QED
  BY <1>1, SpecIInv, PTL

\* A span of fixed extent has as many elements as its type says, so that the
\* constructors that look at the type alone are justified.
THEOREM ExtentTrusted == Spec => []ExtentIsSize
<1>1. IInv => ExtentIsSize
  BY DEF IInv, ExtentIsSize, SpanOK
<1> QED
  BY <1>1, SpecIInv, PTL

\* No chain of calls reaches a carrier whose fact is false.
THEOREM FactsAreTrue == Spec => []CarrierFacts
<1>1. IInv => CarrierFacts
  BY DEF IInv, CarrierFacts, CarrierOK
<1> QED
  BY <1>1, SpecIInv, PTL

\* No chain of calls widens a view or gives back the right to write.
THEOREM ProvenanceKept == Spec => []Provenance
<1>1. IInv => Provenance
  BY DEF IInv, Provenance, CarrierOK, SpanOK
<1> QED
  BY <1>1, SpecIInv, PTL

\* No chain of subspan() calls cuts anything off the end of a view.
THEOREM NeverTruncates == Spec => []NotTruncated
<1>1. IInv => NotTruncated
  BY DEF IInv, NotTruncated, CarrierOK
<1> QED
  BY <1>1, SpecIInv, PTL

-----------------------------------------------------------------------------
(* Access and partition: the arithmetic of block indexes.                  *)

\* A multiple of n is n times its quotient, so that the last of size \div n
\* blocks ends at size exactly.
LEMMA WholeBlocks ==
  ASSUME NEW size \in Nat, NEW n \in Nat, n > 0, size % n = 0
  PROVE  size \div n \in Nat /\ size = (size \div n) * n
OBVIOUS

\* A block before the last one ends where the next begins, inside the view.
LEMMA BlockInside ==
  ASSUME NEW q \in Nat, NEW n \in Nat, NEW i \in 0 .. q - 1
  PROVE  i * n \in Nat /\ i * n + n <= q * n
<1>1. i + 1 <= q /\ i \in Nat
  OBVIOUS
<1>2. q - (i + 1) \in Nat
  BY <1>1
<1>3. (q - (i + 1)) * n \in Nat
  BY <1>2
<1>4. (q - (i + 1)) * n = q * n - (i * n + n)
  BY <1>1
<1> QED
  BY <1>1, <1>3, <1>4

\* Blocks of different indexes have no element in common.
LEMMA BlocksApart ==
  ASSUME NEW n \in Nat, NEW i \in Nat, NEW j \in Nat, i < j
  PROVE  i * n + n <= j * n
<1>1. i \in 0 .. j - 1
  OBVIOUS
<1> QED
  BY <1>1, BlockInside

\* Every offset below q * n lies in one of q blocks.
LEMMA BlocksCover ==
  ASSUME NEW q \in Nat, NEW n \in Nat, n > 0, NEW k \in Nat, k < q * n
  PROVE  /\ k \div n \in 0 .. q - 1
         /\ (k \div n) * n <= k
         /\ k < (k \div n) * n + n
<1> DEFINE d == k \div n
<1>1. d \in Nat /\ d * n <= k /\ k < d * n + n
  OBVIOUS
<1>2. d < q
  <2> HIDE DEF d
  <2>1. SUFFICES ASSUME q <= d PROVE FALSE
    BY <1>1
  <2>2. (d - q) * n \in Nat /\ (d - q) * n = d * n - q * n
    BY <1>1, <2>1
  <2> QED
    BY <1>1, <2>2
<1> QED
  BY <1>1, <1>2

\* The blocks of a carrier are inside its view, apart, and cover it.
LEMMA BlocksTileView ==
  ASSUME NEW c, CarrierOK(c), c.kind = "blocks"
  PROVE  BlocksTile(c)
<1> DEFINE n == c.n
           q == block_count(c)
           base == c.view.data
<1>1. /\ n \in Nat /\ n > 0 /\ base \in Nat
      /\ c.view.size \in Nat /\ c.view.size % n = 0
  BY DEF CarrierOK, Carrier, View, FactHolds
<1>2. q \in Nat /\ c.view.size = q * n
  BY <1>1, WholeBlocks DEF block_count
<1>3. \A i \in 0 .. q - 1 : Elements(block(c, i)) = base + i * n .. base + i * n + n - 1
  BY DEF Elements, block
<1> HIDE DEF q
<1>4. UNION {Elements(b) : b \in blocks(c)} = Elements(c.view)
  <2>1. ASSUME NEW i \in 0 .. q - 1, NEW e \in Elements(block(c, i))
        PROVE  e \in Elements(c.view)
    <3>1. i * n \in Nat /\ i * n + n <= q * n
      BY <1>1, <1>2, BlockInside
    <3>2. e \in base + i * n .. base + i * n + n - 1
      BY <1>3, <2>1
    <3> QED
      BY <1>1, <1>2, <3>1, <3>2 DEF Elements
  <2>2. ASSUME NEW e \in Elements(c.view)
        PROVE  \E i \in 0 .. q - 1 : e \in Elements(block(c, i))
    <3> DEFINE k == e - base
               i == k \div n
    <3>1. k \in Nat /\ k < q * n
      BY <1>1, <1>2 DEF Elements
    <3>2. i \in 0 .. q - 1 /\ i * n <= k /\ k < i * n + n
      BY <1>1, <1>2, <3>1, BlocksCover
    <3>3. e \in Int /\ e = base + k
      BY <1>1 DEF Elements
    <3> HIDE DEF k, i
    <3>4. e \in base + i * n .. base + i * n + n - 1
      <4>1. i * n \in Int
        BY <1>1, <3>2
      <4> QED
        BY <1>1, <3>1, <3>2, <3>3, <4>1
    <3> QED
      BY <1>3, <3>2, <3>4
  <2> QED
    BY <2>1, <2>2 DEF blocks, q
<1>5. ASSUME NEW i \in 0 .. q - 1, NEW j \in 0 .. q - 1, i < j
      PROVE  Elements(block(c, i)) \cap Elements(block(c, j)) = {}
  <2>1. i \in Nat /\ j \in Nat /\ i * n \in Int /\ j * n \in Int
    BY <1>1, <1>2
  <2>2. i * n + n <= j * n
    BY <1>1, <1>5, <2>1, BlocksApart
  <2> HIDE DEF n, base
  <2>3. ASSUME NEW e \in Elements(block(c, i)), e \in Elements(block(c, j))
        PROVE  FALSE
    <3>1. /\ e \in base + i * n .. base + i * n + n - 1
          /\ e \in base + j * n .. base + j * n + n - 1
      BY <1>3, <2>3
    <3> QED
      BY <1>1, <2>1, <2>2, <3>1
  <2> QED
    BY <2>3
<1>6. ASSUME NEW b1 \in blocks(c), NEW b2 \in blocks(c), b1 # b2
      PROVE  Elements(b1) \cap Elements(b2) = {}
  <2>1. PICK i \in 0 .. q - 1 : b1 = block(c, i)
    BY DEF blocks, q
  <2>2. PICK j \in 0 .. q - 1 : b2 = block(c, j)
    BY DEF blocks, q
  <2>3. i < j \/ j < i
    BY <1>2, <1>6, <2>1, <2>2
  <2> QED
    BY <1>5, <2>1, <2>2, <2>3
<1> QED
  BY <1>4, <1>6 DEF BlocksTile

\* prefix() and rest() share nothing and leave nothing out.
LEMMA SplitTilesView ==
  ASSUME NEW c, CarrierOK(c), c.kind = "at_least"
  PROVE  SplitTiles(c)
<1>1. /\ c.n \in Nat /\ c.view.data \in Nat /\ c.view.size \in Nat
      /\ c.view.size >= c.n
  BY DEF CarrierOK, Carrier, View, FactHolds
<1> QED
  BY <1>1 DEF SplitTiles, Elements, prefix, rest, Take, Drop

\* All that a carrier can reach is in its view.
LEMMA ReachInView ==
  ASSUME NEW c, CarrierOK(c)
  PROVE  Reach(c) \subseteq Elements(c.view)
<1>1. CASE c.kind = "at_least"
  <2>1. /\ c.n \in Nat /\ c.n > 0 /\ c.view.data \in Nat /\ c.view.size \in Nat
        /\ c.view.size >= c.n
    BY <1>1 DEF CarrierOK, Carrier, View, FactHolds
  <2>2. front(c) \in Elements(c.view) /\ back(c) \in Elements(c.view)
    BY <2>1 DEF front, back, Elements
  <2>3. elements(c) \subseteq Elements(c.view)
    BY <2>1 DEF elements, Elements
  <2> QED
    BY <1>1, <2>2, <2>3, SplitTilesView DEF Reach, SplitTiles
<1>2. CASE c.kind = "blocks"
  BY <1>2, BlocksTileView DEF Reach, BlocksTile
<1>3. CASE c.kind = "nullopt"
  BY <1>3 DEF Reach
<1> QED
  BY <1>1, <1>2, <1>3 DEF CarrierOK, Carrier

\* Memory safety for every program that uses the family: whoever keeps the
\* borrowed span valid never reaches a dead element through a carrier of it.
THEOREM AccessIsSafe == Spec => []AccessSafe
<1>1. ASSUME IInv, NEW s \in Slots
      PROVE  Reach(carrier[s]) \subseteq Elements(carrier[s].from.view)
  <2>1. CarrierOK(carrier[s])
    BY <1>1 DEF IInv
  <2>2. Elements(carrier[s].view) \subseteq Elements(carrier[s].from.view)
    BY <2>1 DEF CarrierOK, Carrier, Borrowed, View, Within, Elements
  <2> QED
    BY <2>1, <2>2, ReachInView
<1>2. IInv => AccessSafe
  BY <1>1 DEF AccessSafe
<1> QED
  BY <1>2, SpecIInv, PTL

\* Blocks, and a prefix with its rest, always partition the complete view.
THEOREM PartitionHolds == Spec => []Partition
<1>1. IInv => Partition
  BY BlocksTileView, SplitTilesView DEF IInv, Partition
<1> QED
  BY <1>1, SpecIInv, PTL

=============================================================================
