------------------------- MODULE ValueCarriersProofs -------------------------
(***************************************************************************)
(* Proofs about ValueCarriers for integer types, alignments and spans of   *)
(* any size.  The invariant has a part for each variable: the client's     *)
(* value is the one that was meant (RawInv), a carrier's fact is true and  *)
(* was decided about that value (Carried), and the index of decimate() is  *)
(* written * step, with no wrap so far (LoopInv).                          *)
(***************************************************************************)
EXTENDS ValueCarriers, TLAPS

RawInv ==
  /\ raw \in [is : {"number", "pointer"}, type : Types, value : Int, meant : Int]
  /\ raw.value \in Values(raw.type)
  /\ raw.value = raw.meant
  /\ Is("pointer") => raw.type = Size

Carriers == [kind : Kinds, engaged : BOOLEAN, n : Nat, type : Types,
             value : Int, meant : Int, from : Types]
Carried(c) ==
  /\ c \in Carriers
  /\ c.value \in Values(c.type)
  /\ c.kind \in {"index_below", "aligned_ptr"} => c.type = Size
  /\ c.kind = "aligned_ptr" => c.n \in Alignments
  /\ c.engaged => FactHolds(c)
  /\ c.kind = "index_below" => ExactIndex(c)
  /\ c.kind = "nonzero" => ExactNonzero(c)
  /\ c.kind = "aligned_ptr" => ExactAligned(c)
CarrierInv == carrier \in [Slots -> Carriers] /\ \A s \in Slots : Carried(carrier[s])

LoopType ==
  /\ loop \in [state : {"idle", "running", "left"}, input : 0 .. MaxElements,
               output : 0 .. MaxElements, step : Values(Factor),
               index : Values(Size), read : Seq(Values(Size))]
  /\ written <= loop.output
LoopInv ==
  /\ LoopType
  /\ Running => loop.step # 0 /\ loop.index = written * loop.step
  /\ Decimated

IInv == RawInv /\ CarrierInv /\ LoopInv

-----------------------------------------------------------------------------
(* Remainders.                                                             *)

LEMMA Division ==
  ASSUME NEW a \in Int, NEW n \in Nat \ {0}
  PROVE  /\ a = n * (a \div n) + (a % n)
         /\ a \div n \in Int
         /\ a % n \in 0 .. n - 1
BY Z3

\* A quotient and a remainder determine a number, and the other way round.
LEMMA Remainder ==
  ASSUME NEW n \in Nat \ {0}, NEW k \in Int, NEW r \in 0 .. n - 1
  PROVE  (n * k + r) % n = r
<1>1. PICK q, s \in Int : q = (n * k + r) \div n /\ s = (n * k + r) % n
  BY Division
<1>2. n * k + r = n * q + s /\ s \in 0 .. n - 1
  BY <1>1, Division
<1>3. n * (k - q) = s - r
  BY <1>2
<1>4. k - q < 1 /\ k - q > -1
  <2>1. SUFFICES ASSUME NEW d \in Int, d = k - q, d >= 1 \/ d <= -1, n * d = s - r
                 PROVE  FALSE
    BY <1>3
  <2> QED
    BY <2>1, <1>2
<1> QED
  BY <1>4, <1>3, <1>1

LEMMA SmallRemainder ==
  ASSUME NEW n \in Nat \ {0}, NEW r \in 0 .. n - 1
  PROVE  r % n = r
<1>1. n * 0 + r = r
  OBVIOUS
<1> QED
  BY <1>1, Remainder

LEMMA OnceAround ==
  ASSUME NEW n \in Nat \ {0}, NEW a \in Int, a \in n .. 2 * n - 1
  PROVE  a % n = a - n
<1>1. PICK r \in 0 .. n - 1 : r = a - n
  OBVIOUS
<1>2. n * 1 + r = a
  BY <1>1
<1> QED
  BY <1>1, <1>2, Remainder

\* Multiples of n are the numbers that leave no remainder.
LEMMA Multiple ==
  ASSUME NEW n \in Nat \ {0}, NEW q \in Int
  PROVE  (n * q) % n = 0
<1>1. n * q + 0 = n * q
  OBVIOUS
<1>2. (n * q + 0) % n = 0
  BY Remainder
<1> QED
  BY <1>1, <1>2

LEMMA Quotient ==
  ASSUME NEW n \in Nat \ {0}, NEW a \in Int, a % n = 0
  PROVE  \E q \in Int : a = n * q
<1>1. a = n * (a \div n) + (a % n) /\ a \div n \in Int
  BY Division
<1>2. PICK q \in Int : a = n * q + 0
  BY <1>1
<1> QED
  BY <1>2

LEMMA Divides ==
  ASSUME NEW a \in Int, NEW m \in Nat \ {0}, NEW n \in Nat \ {0}, a % m = 0, m % n = 0
  PROVE  a % n = 0
<1>1. PICK p \in Int : a = m * p
  BY Quotient
<1>2. PICK q \in Int : m = n * q
  BY Quotient
<1>3. a = n * (q * p) /\ q * p \in Int
  BY <1>1, <1>2
<1> QED
  BY <1>3, Multiple

-----------------------------------------------------------------------------
(* Conversions.                                                            *)

LEMMA TypeFacts ==
  ASSUME NEW t \in Types
  PROVE  /\ t.max \in Nat /\ t.min \in Int /\ t.min \in {0, -t.max - 1}
         /\ count(t) \in Nat \ {0}
         /\ count(t) = t.max - t.min + 1
BY ConstantsAssumption DEF count

LEMMA SizeFacts ==
  /\ Size \in Types /\ Size.min = 0 /\ Size.max \in Nat
  /\ count(Size) = Size.max + 1
  /\ Values(Size) = 0 .. Size.max
  /\ Factor \in Types /\ Factor.max \in Nat
  /\ Values(Factor) \subseteq Values(Size)
BY ConstantsAssumption DEF count, Values

\* A conversion ends in the type's values, and changes none of them.
LEMMA ConvertFits ==
  ASSUME NEW t \in Types, NEW v \in Int
  PROVE  convert(v, t) \in Values(t) /\ convert(v, t) \in Int
<1>1. (v - t.min) % count(t) \in 0 .. count(t) - 1
  BY TypeFacts, Division
<1> QED
  BY <1>1, TypeFacts DEF convert, Values

LEMMA ConvertKeeps ==
  ASSUME NEW t \in Types, NEW v \in Values(t)
  PROVE  convert(v, t) = v
<1>1. v \in Int /\ v - t.min \in 0 .. count(t) - 1
  BY TypeFacts DEF Values
<1>2. (v - t.min) % count(t) = v - t.min
  BY <1>1, TypeFacts, SmallRemainder
<1> QED
  BY <1>1, <1>2, TypeFacts DEF convert

\* Below zero a conversion to an unsigned type adds the number of its values.
LEMMA ConvertNegative ==
  ASSUME NEW t \in Types, t.min = 0, NEW v \in -count(t) .. -1
  PROVE  convert(v, t) = v + count(t)
<1>1. v \in Int /\ v + count(t) \in 0 .. count(t) - 1
  BY TypeFacts
<1>2. v - t.min = count(t) * (-1) + (v + count(t))
  BY <1>1, TypeFacts
<1>3. (v - t.min) % count(t) = v + count(t)
  BY <1>1, <1>2, TypeFacts, Remainder
<1> QED
  BY <1>1, <1>3, TypeFacts DEF convert

\* Above a type's values it takes that number away.
LEMMA ConvertPast ==
  ASSUME NEW t \in Types, NEW v \in Int, v - t.min \in count(t) .. 2 * count(t) - 1
  PROVE  convert(v, t) = v - count(t)
<1>1. v - t.min \in Int
  BY TypeFacts
<1>2. (v - t.min) % count(t) = v - t.min - count(t)
  BY <1>1, TypeFacts, OnceAround
<1> QED
  BY <1>2, TypeFacts DEF convert

-----------------------------------------------------------------------------
(* What each validation decides.                                           *)

\* Rounding a up to a multiple of n, in a range of numbers whose size is one:
\* a multiple stays, and does not wrap on the way.
LEMMA RoundUp ==
  ASSUME NEW n \in Nat \ {0}, NEW size \in Int, size % n = 0,
         NEW a \in Int, 0 <= a, a < size,
         NEW up \in Int, a + n - 1 < size => up = a + n - 1
  PROVE  up - (up % n) = a <=> a % n = 0
<1>1. ASSUME up - (up % n) = a
      PROVE  a % n = 0
  <2>1. up = n * (up \div n) + (up % n) /\ up \div n \in Int /\ up % n \in 0 .. n - 1
    BY Division
  <2>2. a = n * (up \div n)
    BY <2>1, <1>1
  <2> QED
    BY <2>1, <2>2, Multiple
<1>2. ASSUME a % n = 0
      PROVE  up - (up % n) = a
  <2>1. PICK p \in Int : a = n * p
    BY <1>2, Quotient
  <2>2. PICK k \in Int : size = n * k
    BY Quotient
  <2>3. p < k
    BY <2>1, <2>2
  <2>4. n * (p + 1) <= n * k
    BY <2>3
  <2>5. up = n * p + (n - 1)
    BY <2>4, <2>1, <2>2
  <2>6. up % n = n - 1
    BY <2>5, Remainder
  <2> QED
    BY <2>5, <2>6, <2>1
<1> QED
  BY <1>1, <1>2

\* The call of std::align moves an address exactly when it is not a multiple.
LEMMA AlignExact ==
  ASSUME NEW N \in Alignments, NEW a \in Values(Size)
  PROVE  a = 0 \/ align(N, a) = a <=> a % N = 0
<1> DEFINE up == convert(a + N - 1, Size)
<1>1. /\ N \in Nat \ {0}
      /\ count(Size) \in Int /\ count(Size) % N = 0
      /\ a \in Int /\ 0 <= a /\ a < count(Size)
  BY ConstantsAssumption, SizeFacts
<1>2. up \in Int
  BY <1>1, SizeFacts, ConvertFits
<1>3. a + N - 1 < count(Size) => up = a + N - 1
  <2>1. SUFFICES ASSUME a + N - 1 < count(Size) PROVE up = a + N - 1
    OBVIOUS
  <2>2. a + N - 1 \in Values(Size)
    BY <2>1, <1>1, SizeFacts
  <2> QED
    BY <2>2, SizeFacts, ConvertKeeps
<1> HIDE DEF up
<1>4. up - (up % N) = a <=> a % N = 0
  BY <1>1, <1>2, <1>3, RoundUp
<1>5. a = 0 => a % N = 0
  BY <1>1, SmallRemainder
<1>6. align(N, a) = IF up - (up % N) = a THEN a ELSE 0
  BY DEF align, up
<1> QED
  BY <1>4, <1>5, <1>6

\* The raw number is the one that was meant, and no wider than its type.
LEMMA Meant ==
  ASSUME RawInv
  PROVE  /\ raw.type \in Types /\ raw.value \in Int
         /\ raw.meant = raw.value /\ raw.value \in Values(raw.type)
BY DEF RawInv

LEMMA IndexResult ==
  ASSUME RawInv, NEW N \in 0 .. MaxN
  PROVE  Carried(Result("index_below", convert(raw.value, Size) < N, N, Size,
                        convert(raw.value, Size)))
<1> DEFINE index == convert(raw.value, Size)
<1> DEFINE c == Result("index_below", index < N, N, Size, index)
<1>1. index \in Values(Size) /\ index \in Int
  BY Meant, SizeFacts, ConvertFits
<1>2. N \in Nat
  BY ConstantsAssumption
<1>3. ASSUME raw.value \in Values(Size)
      PROVE  index = raw.value
  BY <1>3, SizeFacts, ConvertKeeps
<1>4. ASSUME raw.value < 0, count(raw.type) <= count(Size)
      PROVE  index >= N \/ 2 * N > count(Size)
  <2>1. 2 * raw.value >= -count(raw.type)
    BY <1>4, Meant, TypeFacts DEF Values
  <2>2. raw.value \in -count(Size) .. -1
    BY <2>1, <1>4, Meant, TypeFacts, SizeFacts
  <2>3. index = raw.value + count(Size)
    BY <2>2, SizeFacts, ConvertNegative
  <2> QED
    BY <2>1, <2>2, <2>3, <1>2, <1>4, Meant, TypeFacts, SizeFacts
<1>5. ASSUME raw.value >= 0, count(raw.type) <= count(Size)
      PROVE  raw.value \in Values(Size)
  BY <1>5, Meant, TypeFacts, SizeFacts DEF Values
<1> HIDE DEF index
<1>6. c \in Carriers
  BY <1>1, <1>2, Meant, SizeFacts DEF Carriers, Kinds, Result
<1>7. ExactIndex(c)
  <2>1. count(raw.type) \in Nat /\ count(Size) \in Nat
    BY Meant, TypeFacts, SizeFacts
  <2>2. SUFFICES ASSUME count(raw.type) <= count(Size), 2 * N <= count(Size)
                 PROVE  IF index < N THEN index = raw.value ELSE raw.value \notin 0 .. N - 1
    <3>1. /\ c.from = raw.type /\ c.n = N /\ c.engaged = (index < N)
          /\ c.value = index /\ c.meant = raw.value
      BY Meant DEF Result
    <3>2. ~(count(raw.type) > count(Size)) <=> count(raw.type) <= count(Size)
      BY <2>1
    <3> HIDE DEF c
    <3> QED
      BY <3>1, <3>2, Zenon DEF ExactIndex, Wider
  <2> QED
    BY <2>1, <2>2, <1>1, <1>2, <1>3, <1>4, <1>5, Meant
<1> QED
  BY <1>1, <1>6, <1>7 DEF Carried, FactHolds, Result, index

LEMMA NonzeroResult ==
  ASSUME RawInv, NEW t \in Types
  PROVE  Carried(Result("nonzero", convert(raw.value, t) # 0, 0, t, convert(raw.value, t)))
<1> DEFINE value == convert(raw.value, t)
<1> DEFINE c == Result("nonzero", value # 0, 0, t, value)
<1>1. value \in Values(t) /\ value \in Int
  BY Meant, ConvertFits
<1>2. ASSUME raw.value \in Values(t)
      PROVE  value = raw.value
  BY <1>2, ConvertKeeps
<1>3. ASSUME raw.value \notin Values(t), count(raw.type) <= count(t)
      PROVE  value # 0 /\ raw.value # 0
  <2>1. raw.value # 0
    BY <1>3, TypeFacts DEF Values
  <2>2. CASE t.min = 0
    <3>1. raw.value \in -count(t) .. -1
      BY <2>2, <1>3, Meant, TypeFacts DEF Values
    <3>2. value = raw.value + count(t)
      BY <3>1, <2>2, ConvertNegative
    <3>3. 2 * raw.value >= -count(t)
      BY <3>1, <1>3, Meant, TypeFacts DEF Values
    <3> QED
      BY <3>1, <3>2, <3>3, <2>1, TypeFacts
  <2>3. CASE t.min = -t.max - 1
    <3>1. raw.value > t.max /\ raw.value < count(t)
      BY <2>3, <1>3, Meant, TypeFacts DEF Values
    <3>2. raw.value - t.min \in count(t) .. 2 * count(t) - 1
      BY <2>3, <3>1, Meant, TypeFacts
    <3>3. value = raw.value - count(t)
      BY <3>2, Meant, ConvertPast
    <3> QED
      BY <3>1, <3>3, <2>1, Meant, TypeFacts
  <2> QED
    BY <2>2, <2>3, TypeFacts
<1> HIDE DEF value
<1>4. c \in Carriers
  BY <1>1, Meant DEF Carriers, Kinds, Result
<1>5. ExactNonzero(c)
  <2>1. count(raw.type) \in Nat /\ count(t) \in Nat
    BY Meant, TypeFacts
  <2>2. SUFFICES ASSUME count(raw.type) <= count(t)
                 PROVE  /\ value # 0 <=> raw.value # 0
                        /\ raw.value \in Values(t) => value = raw.value
    <3>1. /\ c.from = raw.type /\ c.type = t /\ c.engaged = (value # 0)
          /\ c.value = value /\ c.meant = raw.value
      BY Meant DEF Result
    <3>2. ~(count(raw.type) > count(t)) <=> count(raw.type) <= count(t)
      BY <2>1
    <3> HIDE DEF c
    <3> QED
      BY <3>1, <3>2, Zenon DEF ExactNonzero, Wider
  <2> QED
    BY <2>2, <1>2, <1>3
<1> QED
  BY <1>1, <1>4, <1>5 DEF Carried, FactHolds, Result, value

LEMMA AlignedResult ==
  ASSUME RawInv, Is("pointer"), NEW N \in Alignments
  PROVE  Carried(Result("aligned_ptr", raw.value = 0 \/ align(N, raw.value) = raw.value,
                        N, Size, raw.value))
<1> DEFINE engaged == raw.value = 0 \/ align(N, raw.value) = raw.value
<1> DEFINE c == Result("aligned_ptr", engaged, N, Size, raw.value)
<1>1. raw.value \in Values(Size) /\ N \in Nat
  BY ConstantsAssumption DEF RawInv
<1>2. engaged <=> raw.value % N = 0
  BY <1>1, AlignExact
<1>3. engaged \in BOOLEAN
  OBVIOUS
<1> HIDE DEF engaged
<1>4. c \in Carriers
  BY <1>1, <1>3, Meant, SizeFacts DEF Carriers, Kinds, Result
<1>5. ExactAligned(c)
  BY <1>2, Meant DEF ExactAligned, Result
<1> QED
  BY <1>1, <1>2, <1>4, <1>5 DEF Carried, FactHolds, Result, engaged

\* A weaker alignment divides a stronger one.
LEMMA WeakenedCarried ==
  ASSUME NEW c, Carried(c), c.kind = "aligned_ptr", c.engaged, NEW N \in Alignments, c.n >= N
  PROVE  Carried([c EXCEPT !.n = N])
<1>1. c \in Carriers /\ c.n \in Alignments /\ c.value % c.n = 0 /\ c.value = c.meant
  BY DEF Carried, FactHolds, ExactAligned
<1>2. c.value \in Int /\ c.n \in Nat \ {0} /\ N \in Nat \ {0} /\ c.n % N = 0
  BY <1>1, ConstantsAssumption DEF Carriers
<1>3. c.value % N = 0
  BY <1>1, <1>2, Divides
<1> DEFINE d == [c EXCEPT !.n = N]
<1>4. /\ d \in Carriers /\ d.n = N
      /\ d.kind = c.kind /\ d.engaged = c.engaged /\ d.value = c.value
      /\ d.meant = c.meant /\ d.type = c.type
  BY <1>1, <1>2 DEF Carriers
<1> HIDE DEF d
<1>5. Carried(d)
  BY <1>1, <1>3, <1>4 DEF Carried, FactHolds, ExactAligned
<1> QED
  BY <1>5 DEF d

-----------------------------------------------------------------------------
(* The client's steps.                                                     *)

LEMMA RawKept ==
  ASSUME RawInv, raw' = raw
  PROVE  RawInv'
BY DEF RawInv, Is

LEMMA LoopKept ==
  ASSUME LoopInv, loop' = loop
  PROVE  LoopInv'
BY DEF LoopInv, LoopType, Running, Decimated, written

LEMMA CarrierKept ==
  ASSUME CarrierInv, carrier' = carrier
  PROVE  CarrierInv'
BY DEF CarrierInv

\* Storing a carrier that is right keeps all of them right.
LEMMA StoreKeeps ==
  ASSUME IInv, NEW s \in Slots, NEW c, Carried(c), Store(s, c)
  PROVE  IInv'
<1>1. CarrierInv'
  BY DEF IInv, CarrierInv, Store, Carried
<1> QED
  BY <1>1, RawKept, LoopKept DEF IInv, Store

\* And so does obtaining a value that is as it was meant.
LEMMA ObtainKeeps ==
  ASSUME IInv, NEW r, Obtain(r),
         r \in [is : {"number", "pointer"}, type : Types, value : Int, meant : Int],
         r.value \in Values(r.type), r.value = r.meant,
         r.is = "pointer" => r.type = Size
  PROVE  IInv'
<1>1. RawInv'
  BY DEF Obtain, RawInv, Is
<1> QED
  BY <1>1, CarrierKept, LoopKept DEF IInv, Obtain

LEMMA RawKeeps ==
  ASSUME IInv, NEW r \in Raw, Obtain(r)
  PROVE  IInv'
<1>1. CASE \E a \in Values(Size) : r = Pointer(a)
  <2>1. PICK a \in Values(Size) : r = Pointer(a)
    BY <1>1
  <2>2. a \in Int
    BY SizeFacts
  <2> QED
    BY <2>1, <2>2, SizeFacts, ObtainKeeps DEF Pointer
<1>2. CASE \E t \in Types : \E v \in Values(t) : r = Number(v, t)
  <2>1. PICK t \in Types : \E v \in Values(t) : r = Number(v, t)
    BY <1>2
  <2>2. PICK v \in Values(t) : r = Number(v, t)
    BY <2>1
  <2>3. v \in Int
    BY TypeFacts DEF Values
  <2> QED
    BY <2>2, <2>3, ObtainKeeps DEF Number
<1> QED
  BY <1>1, <1>2 DEF Raw

LEMMA NarrowKeeps ==
  ASSUME IInv, NEW t \in Types, narrow_exact(t)
  PROVE  IInv'
<1> DEFINE r == [raw EXCEPT !.type = t, !.value = convert(@, t)]
<1>1. raw.is = "number" /\ raw.value \in Values(t)
  BY Meant, TypeFacts DEF IInv, narrow_exact, Is, in_range, Values
<1>2. convert(raw.value, t) = raw.value
  BY <1>1, ConvertKeeps
<1>3. /\ r \in [is : {"number", "pointer"}, type : Types, value : Int, meant : Int]
      /\ r.is = "number" /\ r.type = t /\ r.value = raw.value /\ r.meant = raw.meant
  BY <1>1, <1>2 DEF IInv, RawInv
<1>4. Obtain(r)
  BY DEF narrow_exact
<1> HIDE DEF r
<1> QED
  BY <1>1, <1>3, <1>4, ObtainKeeps DEF IInv, RawInv

LEMMA ValidateKeeps ==
  ASSUME IInv, NEW s \in Slots, Validate(s)
  PROVE  IInv'
<1>1. ASSUME NEW N \in 0 .. MaxN, IndexTryFrom(s, N)
      PROVE  IInv'
  BY <1>1, IndexResult, StoreKeeps DEF IInv, IndexTryFrom
<1>2. ASSUME NEW t \in Types, NonzeroTryFrom(s, t)
      PROVE  IInv'
  BY <1>2, NonzeroResult, StoreKeeps DEF IInv, NonzeroTryFrom
<1>3. ASSUME NEW N \in Alignments, AlignedTryFrom(s, N)
      PROVE  IInv'
  BY <1>3, AlignedResult, StoreKeeps DEF IInv, AlignedTryFrom
<1> QED
  BY <1>1, <1>2, <1>3 DEF Validate

LEMMA WeakenKeeps ==
  ASSUME IInv, NEW s \in Slots, NEW t \in Slots, NEW N \in Alignments, Weaken(s, t, N)
  PROVE  IInv'
<1>1. Carried(carrier[t])
  BY DEF IInv, CarrierInv
<1>2. Carried([carrier[t] EXCEPT !.n = N])
  BY <1>1, WeakenedCarried DEF Weaken, weakens
<1> QED
  BY <1>2, StoreKeeps DEF Weaken

LEMMA GetKeeps ==
  ASSUME IInv, NEW t \in Slots, Get(t)
  PROVE  IInv'
<1>1. Carried(carrier[t]) /\ carrier[t].kind = "aligned_ptr"
  BY DEF IInv, CarrierInv, Get
<1>2. carrier[t].value \in Int /\ carrier[t].value \in Values(Size)
  BY <1>1 DEF Carried, Carriers
<1> QED
  BY <1>2, SizeFacts, ObtainKeeps DEF Get, Pointer

-----------------------------------------------------------------------------
(* decimate().                                                             *)

\* A step of a factor from a small enough index does not wrap.
LEMMA Stride ==
  ASSUME NEW w \in Nat, NEW step \in Nat \ {0}, NEW input \in Nat, NEW max \in Nat,
         step <= max, 2 * input <= max + 1, w * step < input
  PROVE  /\ w * step + step \in 0 .. max
         /\ w * step + step = (w + 1) * step
<1>1. w * step \in Nat
  OBVIOUS
<1>2. w * step + step <= max
  <2>1. CASE w = 0
    BY <2>1
  <2>2. CASE w >= 1
    <3>1. step <= w * step
      BY <2>2
    <3> QED
      BY <3>1, <1>1
  <2> QED
    BY <2>1, <2>2
<1> QED
  BY <1>1, <1>2

\* As many strides as the plan has are enough, and no fewer are.
LEMMA Planned ==
  ASSUME NEW w \in Int, NEW output \in Int, NEW input \in Int, NEW step \in Nat \ {0},
         w <= output, w * step >= input, output <= input \div step
  PROVE  w = output
<1>1. input = step * (input \div step) + (input % step)
      /\ input \div step \in Int /\ input % step \in 0 .. step - 1
  BY Division
<1>2. PICK q \in Int : q = input \div step
  BY <1>1
<1>3. step * output <= step * q
  BY <1>2
<1>4. step * output <= step * w
  BY <1>1, <1>2, <1>3
<1>5. ~ w < output
  <2>1. SUFFICES ASSUME w + 1 <= output PROVE FALSE
    OBVIOUS
  <2>2. step * (w + 1) <= step * output
    BY <2>1
  <2> QED
    BY <2>2, <1>4
<1> QED
  BY <1>5

LEMMA IdleInv ==
  ASSUME loop = Idle
  PROVE  LoopInv
<1>1. LoopType
  BY SizeFacts, ConstantsAssumption DEF LoopType, Idle, written, Values
<1>2. Decimated
  BY DEF Idle, Decimated, written
<1> QED
  BY <1>1, <1>2 DEF LoopInv, Running, Idle

LEMMA LoopStepKeeps ==
  ASSUME IInv, LoopInv', UNCHANGED <<raw, carrier>>
  PROVE  IInv'
BY RawKept, CarrierKept DEF IInv

LEMMA EnterKeeps ==
  ASSUME IInv, NEW s \in Slots, NEW input \in 0 .. MaxElements, NEW output \in 0 .. MaxElements,
         Enter(s, input, output)
  PROVE  IInv'
<1>1. carrier[s].value \in Values(Factor) /\ carrier[s].value # 0
  BY DEF IInv, CarrierInv, Carried, FactHolds, Enter
<1>2. /\ loop'.state = "running" /\ loop'.input = input /\ loop'.output = output
      /\ loop'.step = carrier[s].value /\ loop'.index = 0 /\ loop'.read = << >>
  BY DEF Enter
<1>3. LoopType'
  BY <1>1, SizeFacts, ConstantsAssumption DEF Enter, LoopType, written
<1>4. carrier[s].value \in Int
  BY <1>1, SizeFacts
<1>5. loop'.index = Len(loop'.read) * loop'.step
  BY <1>2, <1>4
<1>6. Decimated'
  BY <1>2 DEF Decimated, written
<1>7. LoopInv'
  BY <1>1, <1>2, <1>3, <1>5, <1>6 DEF LoopInv, Running, written
<1> QED
  BY <1>7, LoopStepKeeps DEF Enter

LEMMA IterateKeeps ==
  ASSUME IInv, Iterate
  PROVE  IInv'
<1>1. /\ LoopType /\ Decimated
      /\ loop.step # 0 /\ loop.index = written * loop.step
      /\ loop.index < loop.input /\ written < loop.output
  BY DEF IInv, LoopInv, Iterate, more
<1>2. /\ loop.step \in Nat \ {0} /\ loop.step <= Size.max /\ written \in Nat
      /\ loop.input \in Nat /\ 2 * loop.input <= Size.max + 1 /\ Size.max \in Nat
      /\ loop.output \in 0 .. MaxElements
      /\ loop.index \in Values(Size) /\ loop.index \in Int
      /\ loop.read \in Seq(Values(Size))
  BY <1>1, SizeFacts, ConstantsAssumption DEF LoopType, written
<1>3. /\ loop.index + loop.step \in Values(Size)
      /\ loop.index + loop.step = (written + 1) * loop.step
  <2>1. written * loop.step < loop.input
    BY <1>1
  <2>2. /\ written * loop.step + loop.step \in 0 .. Size.max
        /\ written * loop.step + loop.step = (written + 1) * loop.step
    BY <2>1, <1>2, Stride
  <2> QED
    BY <2>2, <1>1, SizeFacts
<1>4. advance(loop.index, loop.step) = loop.index + loop.step
  BY <1>3, SizeFacts, ConvertKeeps DEF advance
<1>5. /\ loop' = [loop EXCEPT !.index = loop.index + loop.step, !.read = Append(loop.read, loop.index)]
      /\ loop'.read = Append(loop.read, loop.index)
      /\ loop'.index = loop.index + loop.step
      /\ loop'.state = "running" /\ loop'.step = loop.step
      /\ loop'.input = loop.input /\ loop'.output = loop.output
  BY <1>1, <1>4 DEF Iterate, Running, LoopType
<1>6. written' = written + 1
  BY <1>2, <1>5 DEF written
<1>7. LoopType'
  <2>1. Append(loop.read, loop.index) \in Seq(Values(Size))
    BY <1>2
  <2>2. loop' \in [state : {"idle", "running", "left"}, input : 0 .. MaxElements,
                   output : 0 .. MaxElements, step : Values(Factor),
                   index : Values(Size), read : Seq(Values(Size))]
    BY <2>1, <1>1, <1>3, <1>5 DEF LoopType
  <2>3. written' <= loop'.output
    BY <1>1, <1>2, <1>5, <1>6
  <2> QED
    BY <2>2, <2>3 DEF LoopType
<1>8. Decimated'
  <2>1. ASSUME NEW k \in 1 .. written + 1
        PROVE  loop'.read[k] = (k - 1) * loop.step /\ loop'.read[k] < loop.input
    <3>1. CASE k <= written
      <4>1. loop'.read[k] = loop.read[k]
        BY <3>1, <1>2, <1>5 DEF written
      <4> QED
        BY <4>1, <3>1, <1>1, <1>2 DEF Decimated
    <3>2. CASE k = written + 1
      <4>1. loop'.read[k] = loop.index /\ k - 1 = written
        BY <3>2, <1>2, <1>5 DEF written
      <4> QED
        BY <4>1, <1>1
    <3> QED
      BY <3>1, <3>2, <1>2
  <2> QED
    BY <2>1, <1>5, <1>6 DEF Decimated
<1>9. LoopInv'
  BY <1>1, <1>3, <1>5, <1>6, <1>7, <1>8 DEF LoopInv
<1> QED
  BY <1>9, LoopStepKeeps DEF Iterate

LEMMA LeaveKeeps ==
  ASSUME IInv, Leave
  PROVE  IInv'
<1>1. /\ LoopType /\ Decimated
      /\ loop.step # 0 /\ loop.index = written * loop.step
      /\ ~(loop.index < loop.input /\ written < loop.output)
  BY DEF IInv, LoopInv, Leave, more
<1>2. /\ loop.step \in Nat \ {0} /\ written \in Int /\ loop.index \in Int
      /\ loop.input \in Int /\ loop.output \in Int /\ written <= loop.output
  BY <1>1, SizeFacts, ConstantsAssumption DEF LoopType, written
<1>3. /\ loop'.state = "left" /\ loop'.read = loop.read /\ loop'.index = loop.index
      /\ loop'.step = loop.step /\ loop'.input = loop.input /\ loop'.output = loop.output
      /\ written' = written
  BY <1>1 DEF Leave, LoopType, written
<1>4. written = loop.output \/ written * loop.step >= loop.input
  BY <1>1, <1>2
<1>5. loop.output <= decimated_length(loop.input, loop.step) => written = loop.output
  BY <1>2, <1>4, Planned DEF decimated_length
<1>6. Decimated'
  BY <1>1, <1>3, <1>4, <1>5 DEF Decimated
<1>7. LoopType'
  BY <1>1, <1>3 DEF Leave, LoopType
<1>8. LoopInv'
  BY <1>3, <1>6, <1>7 DEF LoopInv, Running
<1> QED
  BY <1>8, LoopStepKeeps DEF Leave

LEMMA ConsumeKeeps ==
  ASSUME IInv, Consume
  PROVE  IInv'
<1>1. LoopInv'
  <2>1. loop' = Idle
    BY DEF Consume
  <2>2. LoopType'
    BY <2>1, SizeFacts, ConstantsAssumption DEF LoopType, Idle, written, Values
  <2>3. Decimated'
    BY <2>1 DEF Idle, Decimated, written
  <2> QED
    BY <2>1, <2>2, <2>3 DEF LoopInv, Running, Idle
<1> QED
  BY <1>1, LoopStepKeeps DEF Consume

-----------------------------------------------------------------------------
LEMMA InitIInv ==
  ASSUME Init
  PROVE  IInv
<1>1. RawInv
  BY SizeFacts DEF Init, RawInv, Pointer, Is
<1>2. CarrierInv
  <2>1. Carried(Nothing)
    BY SizeFacts DEF Carried, Carriers, Kinds, Nothing
  <2> QED
    BY <2>1 DEF Init, CarrierInv, Carried
<1>3. LoopInv
  BY IdleInv DEF Init
<1> QED
  BY <1>1, <1>2, <1>3 DEF IInv

LEMMA NextIInv ==
  ASSUME IInv, [Next]_vars
  PROVE  IInv'
<1>1. ASSUME NEW r \in Raw, Obtain(r) PROVE IInv'
  BY <1>1, RawKeeps
<1>2. ASSUME NEW t \in Types, narrow_exact(t) PROVE IInv'
  BY <1>2, NarrowKeeps
<1>3. ASSUME NEW s \in Slots, Validate(s) PROVE IInv'
  BY <1>3, ValidateKeeps
<1>4. ASSUME NEW s \in Slots, Get(s) PROVE IInv'
  BY <1>4, GetKeeps
<1>5. ASSUME NEW s \in Slots, NEW t \in Slots, NEW N \in Alignments, Weaken(s, t, N) PROVE IInv'
  BY <1>5, WeakenKeeps
<1>6. ASSUME NEW s \in Slots, NEW input \in 0 .. MaxElements, NEW output \in 0 .. MaxElements,
             Enter(s, input, output)
      PROVE  IInv'
  BY <1>6, EnterKeeps
<1>7. CASE Iterate
  BY <1>7, IterateKeeps
<1>8. CASE Leave
  BY <1>8, LeaveKeeps
<1>9. CASE Consume
  BY <1>9, ConsumeKeeps
<1>10. CASE UNCHANGED vars
  BY <1>10, RawKept, CarrierKept, LoopKept DEF IInv, vars
<1> QED
  BY <1>1, <1>2, <1>3, <1>4, <1>5, <1>6, <1>7, <1>8, <1>9, <1>10 DEF Next

LEMMA Inductive == Spec => []IInv
<1>1. Init => IInv
  BY InitIInv
<1>2. IInv /\ [Next]_vars => IInv'
  BY NextIInv
<1> QED
  BY <1>1, <1>2, PTL DEF Spec

\* Values, carriers and the state of decimate() keep their types.
THEOREM TypeCorrect == Spec => []TypeOK
<1>1. IInv => TypeOK
  BY DEF IInv, RawInv, CarrierInv, Carried, Carriers, LoopInv, LoopType, TypeOK
<1> QED
  BY <1>1, Inductive, PTL

\* No chain of conversions, validations, weakenings and narrowings makes a
\* carrier whose fact is false.
THEOREM FactsAreTrue == Spec => []CarrierFacts
<1>1. IInv => CarrierFacts
  BY DEF IInv, CarrierInv, Carried, CarrierFacts
<1> QED
  BY <1>1, Inductive, PTL

\* narrow_exact never changes a number, and validations of numbers that are no
\* wider than the parameter decide about the number that was meant.
THEOREM DecisionsAreExact == Spec => []Exact
<1>1. IInv => Exact
  BY DEF IInv, RawInv, CarrierInv, Carried, Exact
<1> QED
  BY <1>1, Inductive, PTL

\* decimate() reads each step-th element once and fills a planned output: its
\* index never wraps, whatever the factor.
THEOREM DecimatesRightly == Spec => []Decimated
<1>1. IInv => Decimated
  BY DEF IInv, LoopInv
<1> QED
  BY <1>1, Inductive, PTL

=============================================================================
