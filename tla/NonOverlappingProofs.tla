------------------------ MODULE NonOverlappingProofs ------------------------
(***************************************************************************)
(* Proofs about NonOverlapping for spans of any size at any address.  The  *)
(* argument has two halves: while a scan runs, every element before its    *)
(* position differs from the address looked for (Progress); and two ranges *)
(* that have elements share one exactly when one starts inside the other   *)
(* (StartsInside), which is what makes two one-sided scans enough.         *)
(***************************************************************************)
EXTENDS NonOverlapping, TLAPS

\* None of the first k elements of v is at the address a.
Missed(v, a, k) == \A i \in 0 .. k - 1 : v.data + i # a

Progress ==
  /\ pc \in {"in_first", "in_second"} => arg.first.size > 0 /\ arg.second.size > 0
  /\ pc = "in_first" =>
       /\ position <= arg.first.size
       /\ compared = position
       /\ Missed(arg.first, arg.second.data, position)
  /\ pc = "in_second" =>
       /\ position <= arg.second.size
       /\ compared = arg.first.size + position
       /\ Missed(arg.first, arg.second.data, arg.first.size)
       /\ Missed(arg.second, arg.first.data, position)

IInv == TypeOK /\ Progress /\ DecisionExact /\ CarrierDisjoint /\ LinearWork

LEMMA ViewType ==
  ASSUME NEW v \in View
  PROVE  v.data \in Nat /\ v.size \in Nat /\ v.size <= MaxSize
<1>1. v.data \in Bases /\ v.size \in 0 .. MaxSize
  BY DEF View
<1>2. v.data \in Nat
  BY <1>1, ConstantsAssumption
<1> QED
  BY <1>1, <1>2, ConstantsAssumption

\* Two ranges with elements share one exactly when one starts in the other.
LEMMA StartsInside ==
  ASSUME NEW v \in View, NEW w \in View, v.size > 0, w.size > 0
  PROVE  overlap(v, w) <=> w.data \in Elements(v) \/ v.data \in Elements(w)
<1>1. /\ v.data \in Nat /\ v.size \in Nat
      /\ w.data \in Nat /\ w.size \in Nat
  BY ViewType
<1>2. ASSUME NEW e \in Elements(v), e \in Elements(w)
      PROVE  w.data \in Elements(v) \/ v.data \in Elements(w)
  BY <1>1, <1>2 DEF Elements
<1>3. w.data \in Elements(w) /\ v.data \in Elements(v)
  BY <1>1 DEF Elements
<1> QED
  BY <1>2, <1>3 DEF overlap

\* An empty range overlaps nothing.
LEMMA EmptyDisjoint ==
  ASSUME NEW v \in View, NEW w \in View, v.size = 0 \/ w.size = 0
  PROVE  ~overlap(v, w)
BY ViewType DEF overlap, Elements

\* So the test that the code makes decides the relation; the modules that take
\* a call as one step use the test.
THEOREM TestDecidesRelation ==
  ASSUME NEW v \in View, NEW w \in View
  PROVE  storage_ranges_overlap(v, w) <=> overlap(v, w)
<1>1. v.size \in Nat /\ w.size \in Nat
  BY ViewType
<1>2. CASE v.size > 0 /\ w.size > 0
  BY <1>2, StartsInside DEF storage_ranges_overlap, contains_element_address
<1>3. CASE v.size = 0 \/ w.size = 0
  BY <1>1, <1>3, EmptyDisjoint DEF storage_ranges_overlap
<1> QED
  BY <1>1, <1>2, <1>3

\* A scan that has passed every element has found that a is in none.
LEMMA MissedAll ==
  ASSUME NEW v \in View, NEW a \in Nat, Missed(v, a, v.size)
  PROVE  a \notin Elements(v)
<1>1. v.data \in Nat /\ v.size \in Nat
  BY ViewType
<1>2. SUFFICES ASSUME a \in Elements(v) PROVE FALSE
  OBVIOUS
<1>3. a - v.data \in 0 .. v.size - 1 /\ v.data + (a - v.data) = a
  BY <1>1, <1>2 DEF Elements
<1> QED
  BY <1>3 DEF Missed

LEMMA MissedNext ==
  ASSUME NEW v \in View, NEW a \in Nat, NEW k \in Nat,
         Missed(v, a, k), v.data + k # a
  PROVE  Missed(v, a, k + 1)
BY DEF Missed

-----------------------------------------------------------------------------
LEMMA InitIInv == Init => IInv
BY ConstantsAssumption
DEF Init, IInv, TypeOK, Progress, DecisionExact, CarrierDisjoint, LinearWork, View, Nullopt

LEMMA CallKeeps ==
  ASSUME IInv, NEW v \in View, NEW w \in View, Call(v, w)
  PROVE  IInv'
<1>1. /\ arg' = [first |-> v, second |-> w]
      /\ arg'.first = v /\ arg'.second = w
      /\ position' = 0 /\ compared' = 0 /\ carrier' = carrier
  BY DEF Call
<1>2. /\ v.size \in Nat /\ w.size \in Nat
  BY ViewType
<1>3. TypeOK'
  BY <1>1, ConstantsAssumption DEF IInv, TypeOK, Call
<1>4. Progress'
  BY <1>1, <1>2 DEF Call, Progress, Missed
<1>5. DecisionExact'
  BY <1>1, <1>2, EmptyDisjoint DEF Call, DecisionExact
<1>6. CarrierDisjoint' /\ LinearWork'
  BY <1>1, <1>2 DEF IInv, CarrierDisjoint, LinearWork
<1> QED
  BY <1>3, <1>4, <1>5, <1>6 DEF IInv

LEMMA ScanFirstKeeps ==
  ASSUME IInv, ScanFirst
  PROVE  IInv'
<1>1. /\ arg' = arg /\ carrier' = carrier
      /\ pc = "in_first"
      /\ arg.first \in View /\ arg.second \in View
      /\ position \in Nat /\ compared = position
      /\ position <= arg.first.size
      /\ Missed(arg.first, arg.second.data, position)
      /\ arg.first.size > 0 /\ arg.second.size > 0
  BY DEF IInv, TypeOK, Progress, ScanFirst, Scan
<1>2. /\ arg.first.data \in Nat /\ arg.first.size \in Nat /\ arg.first.size <= MaxSize
      /\ arg.second.data \in Nat /\ arg.second.size \in Nat /\ arg.second.size <= MaxSize
      /\ MaxSize \in Nat
  BY <1>1, ViewType, ConstantsAssumption
<1>3. CarrierDisjoint'
  BY <1>1 DEF IInv, CarrierDisjoint
<1>4. CASE position = arg.first.size
  <2>1. pc' = "in_second" /\ position' = 0 /\ compared' = compared
    BY <1>1, <1>4 DEF ScanFirst, Scan, AtEnd, Leave
  <2>2. Progress'
    BY <1>1, <1>2, <1>4, <2>1 DEF Progress, Missed
  <2>3. TypeOK'
    BY <1>1, <1>2, <2>1 DEF IInv, TypeOK
  <2>4. DecisionExact' /\ LinearWork'
    BY <1>1, <1>2, <2>1 DEF DecisionExact, LinearWork
  <2> QED
    BY <1>3, <2>2, <2>3, <2>4 DEF IInv
<1>5. CASE position < arg.first.size /\ arg.first.data + position = arg.second.data
  <2>1. pc' = "overlapping" /\ position' = position /\ compared' = compared + 1
    BY <1>1, <1>2, <1>5 DEF ScanFirst, Scan, AtEnd, Leave
  <2>2. arg.second.data \in Elements(arg.first)
    BY <1>1, <1>2, <1>5 DEF Elements
  <2>3. overlap(arg.first, arg.second)
    BY <1>1, <2>2, StartsInside
  <2>4. TypeOK' /\ LinearWork'
    BY <1>1, <1>2, <1>5, <2>1 DEF IInv, TypeOK, LinearWork
  <2> QED
    BY <1>1, <1>3, <2>1, <2>3, <2>4 DEF IInv, Progress, DecisionExact
<1>6. CASE position < arg.first.size /\ arg.first.data + position # arg.second.data
  <2>1. pc' = "in_first" /\ position' = position + 1 /\ compared' = compared + 1
    BY <1>1, <1>2, <1>6 DEF ScanFirst, Scan, AtEnd, Leave
  <2>2. Missed(arg.first, arg.second.data, position + 1)
    BY <1>1, <1>2, <1>6, MissedNext
  <2>3. Progress'
    BY <1>1, <1>2, <1>6, <2>1, <2>2 DEF Progress
  <2>4. TypeOK' /\ LinearWork'
    BY <1>1, <1>2, <1>6, <2>1 DEF IInv, TypeOK, LinearWork
  <2> QED
    BY <1>3, <2>1, <2>3, <2>4 DEF IInv, DecisionExact
<1> QED
  BY <1>1, <1>2, <1>4, <1>5, <1>6

LEMMA ScanSecondKeeps ==
  ASSUME IInv, ScanSecond
  PROVE  IInv'
<1>1. /\ arg' = arg /\ carrier' = carrier
      /\ pc = "in_second"
      /\ arg.first \in View /\ arg.second \in View
      /\ position \in Nat /\ compared = arg.first.size + position
      /\ position <= arg.second.size
      /\ Missed(arg.first, arg.second.data, arg.first.size)
      /\ Missed(arg.second, arg.first.data, position)
      /\ arg.first.size > 0 /\ arg.second.size > 0
  BY DEF IInv, TypeOK, Progress, ScanSecond, Scan
<1>2. /\ arg.first.data \in Nat /\ arg.first.size \in Nat /\ arg.first.size <= MaxSize
      /\ arg.second.data \in Nat /\ arg.second.size \in Nat /\ arg.second.size <= MaxSize
      /\ MaxSize \in Nat
  BY <1>1, ViewType, ConstantsAssumption
<1>3. CarrierDisjoint'
  BY <1>1 DEF IInv, CarrierDisjoint
<1>4. CASE position = arg.second.size
  <2>1. pc' = "disjoint" /\ position' = 0 /\ compared' = compared
    BY <1>1, <1>4 DEF ScanSecond, Scan, AtEnd, Leave
  <2>2. arg.second.data \notin Elements(arg.first) /\ arg.first.data \notin Elements(arg.second)
    BY <1>1, <1>2, <1>4, MissedAll
  <2>3. ~overlap(arg.first, arg.second)
    BY <1>1, <2>2, StartsInside
  <2>4. TypeOK' /\ LinearWork'
    BY <1>1, <1>2, <1>4, <2>1 DEF IInv, TypeOK, LinearWork
  <2> QED
    BY <1>1, <1>3, <2>1, <2>3, <2>4 DEF IInv, Progress, DecisionExact
<1>5. CASE position < arg.second.size /\ arg.second.data + position = arg.first.data
  <2>1. pc' = "overlapping" /\ position' = position /\ compared' = compared + 1
    BY <1>1, <1>2, <1>5 DEF ScanSecond, Scan, AtEnd, Leave
  <2>2. arg.first.data \in Elements(arg.second)
    BY <1>1, <1>2, <1>5 DEF Elements
  <2>3. overlap(arg.first, arg.second)
    BY <1>1, <2>2, StartsInside
  <2>4. TypeOK' /\ LinearWork'
    BY <1>1, <1>2, <1>5, <2>1 DEF IInv, TypeOK, LinearWork
  <2> QED
    BY <1>1, <1>3, <2>1, <2>3, <2>4 DEF IInv, Progress, DecisionExact
<1>6. CASE position < arg.second.size /\ arg.second.data + position # arg.first.data
  <2>1. pc' = "in_second" /\ position' = position + 1 /\ compared' = compared + 1
    BY <1>1, <1>2, <1>6 DEF ScanSecond, Scan, AtEnd, Leave
  <2>2. Missed(arg.second, arg.first.data, position + 1)
    BY <1>1, <1>2, <1>6, MissedNext
  <2>3. Progress'
    BY <1>1, <1>2, <1>6, <2>1, <2>2 DEF Progress
  <2>4. TypeOK' /\ LinearWork'
    BY <1>1, <1>2, <1>6, <2>1 DEF IInv, TypeOK, LinearWork
  <2> QED
    BY <1>3, <2>1, <2>3, <2>4 DEF IInv, DecisionExact
<1> QED
  BY <1>1, <1>2, <1>4, <1>5, <1>6

LEMMA ReturnKeeps ==
  ASSUME IInv, Return
  PROVE  IInv'
<1>1. arg' = arg /\ pc' = "returned" /\ position' = position /\ compared' = compared
  BY DEF Return
<1>2. CASE pc = "disjoint"
  <2>1. carrier' = [engaged |-> TRUE, first |-> arg.first, second |-> arg.second]
    BY <1>2 DEF Return
  <2>2. ~overlap(arg.first, arg.second)
    BY <1>2 DEF IInv, DecisionExact
  <2>3. carrier' \in Pairs
    BY <2>1 DEF IInv, TypeOK, Pairs
  <2> QED
    BY <1>1, <2>1, <2>2, <2>3
    DEF IInv, TypeOK, Progress, DecisionExact, CarrierDisjoint, LinearWork
<1>3. CASE pc = "overlapping"
  BY <1>1, <1>3
  DEF Return, IInv, TypeOK, Progress, DecisionExact, CarrierDisjoint, LinearWork, Nullopt
<1> QED
  BY <1>2, <1>3 DEF Return

LEMMA NextIInv == IInv /\ [Next]_vars => IInv'
<1> SUFFICES ASSUME IInv, [Next]_vars PROVE IInv'
  OBVIOUS
<1>1. ASSUME NEW v \in View, NEW w \in View, Call(v, w)
      PROVE  IInv'
  BY <1>1, CallKeeps
<1>2. CASE InCall
  BY <1>2, ScanFirstKeeps, ScanSecondKeeps, ReturnKeeps DEF InCall
<1>3. CASE UNCHANGED vars
  BY <1>3 DEF vars, IInv, TypeOK, Progress, DecisionExact, CarrierDisjoint, LinearWork
<1> QED
  BY <1>1, <1>2, <1>3 DEF Next

LEMMA SpecIInv == Spec => []IInv
BY InitIInv, NextIInv, PTL DEF Spec

-----------------------------------------------------------------------------
\* The state of a call, and the carrier, keep their types.
THEOREM TypeCorrect == Spec => []TypeOK
<1>1. IInv => TypeOK
  BY DEF IInv
<1> QED
  BY <1>1, SpecIInv, PTL

\* For all spans: the two scans answer "overlap" exactly when there is one.
THEOREM DecisionIsExact == Spec => []DecisionExact
<1>1. IInv => DecisionExact
  BY DEF IInv
<1> QED
  BY <1>1, SpecIInv, PTL

\* For all spans: a carrier that a client holds is a pair of disjoint ranges.
THEOREM CarrierIsDisjoint == Spec => []CarrierDisjoint
<1>1. IInv => CarrierDisjoint
  BY DEF IInv
<1> QED
  BY <1>1, SpecIInv, PTL

\* For all spans: a call compares at most as many addresses as there are elements.
THEOREM WorkIsLinear == Spec => []LinearWork
<1>1. IInv => LinearWork
  BY DEF IInv
<1> QED
  BY <1>1, SpecIInv, PTL

=============================================================================
