------------------------- MODULE NeverDecreaseProofs -------------------------
(***************************************************************************)
(* Proofs about NeverDecrease for any objects, any type T, with and without*)
(* a sign, and any stream of reports.  ValueIsGreatest and AnswerStaysTrue *)
(* are inductive together with the types; what the values have to do with  *)
(* the counts that were meant follows from ValueIsGreatest and from what   *)
(* the conversion does.  The policies meet in UpdateMoves: whatever the    *)
(* object is, its value becomes the greater.                               *)
(***************************************************************************)
EXTENDS NeverDecrease, TLAPS

Types ==
  /\ count \in Int
  /\ sent \subseteq Int
  /\ value \in [Objects -> T \cup {None}]
  /\ policy \in [Objects -> Policies \cup {None}]
  /\ answer \in {NoAnswer} \cup [to : Objects, next : T, said : BOOLEAN, again : BOOLEAN]
  /\ told \in [Objects -> SUBSET Int]

IInv == Types /\ ValueIsGreatest /\ AnswerStaysTrue

LEMMA TypesOfT == T \subseteq Int /\ None \notin T
BY ConstantsAssumption DEF T

LEMMA Division ==
  ASSUME NEW a \in Int, NEW n \in Nat \ {0}
  PROVE  /\ a = n * (a \div n) + (a % n)
         /\ a \div n \in Int
         /\ a % n \in 0 .. n - 1
BY Z3

LEMMA Products ==
  ASSUME NEW n \in Nat \ {0}, NEW q \in Int
  PROVE  /\ q >= 1 => n * q >= n
         /\ q <= -1 => n * q <= -n
         /\ q = 0 => n * q = 0
BY Z3

\* A number that is not negative is at least its remainder, and equal to it when
\* it is less than n.
LEMMA Remainder ==
  ASSUME NEW a \in Int, a >= 0, NEW n \in Nat \ {0}
  PROVE  a % n <= a /\ (a < n => a % n = a)
<1> DEFINE q == a \div n
           r == a % n
           p == n * q
<1>1. q \in Int /\ a = p + r /\ r \in 0 .. n - 1
  BY Division
<1>2. (q >= 1 => p >= n) /\ (q <= -1 => p <= -n) /\ (q = 0 => p = 0) /\ p \in Int
  BY <1>1, Products
<1> HIDE DEF q, r, p
<1>3. q >= 0
  BY <1>1, <1>2
<1>4. r <= a /\ (a < n => r = a)
  BY <1>1, <1>2, <1>3
<1> QED
  BY <1>4 DEF r

LEMMA ConvertInT == ASSUME NEW report \in Int PROVE convert(report) \in T
<1>1. (report - Lowest) % Modulus \in 0 .. Modulus - 1
  BY ConstantsAssumption, Division
<1> QED
  BY <1>1, ConstantsAssumption DEF convert, T

LEMMA ConvertKeeps == ASSUME NEW report \in T PROVE convert(report) = report
<1>1. report - Lowest \in Int /\ report - Lowest \in 0 .. Modulus - 1 /\ report \in Int
  BY ConstantsAssumption DEF T
<1>2. (report - Lowest) % Modulus = report - Lowest
  BY <1>1, ConstantsAssumption, Remainder
<1> QED
  BY <1>1, <1>2, ConstantsAssumption DEF convert

\* A number that is not below T's values is never converted to a greater one.
LEMMA ConvertLowers ==
  ASSUME NEW report \in Int, report >= Lowest
  PROVE  convert(report) <= report
<1>1. report - Lowest \in Int /\ report - Lowest >= 0
  BY ConstantsAssumption
<1>2. (report - Lowest) % Modulus <= report - Lowest
  BY <1>1, ConstantsAssumption, Remainder
<1>3. (report - Lowest) % Modulus \in Int
  BY <1>1, ConstantsAssumption, Division
<1> QED
  BY <1>2, <1>3, ConstantsAssumption DEF convert

\* The levels of an object that begins to exist, and of one that is told more.
LEMMA LevelsOfOne ==
  ASSUME Types, NEW o \in Objects, NEW initial \in T,
         told' = [told EXCEPT ![o] = {initial}]
  PROVE  levels(o)' = {initial}
<1>1. convert(initial) = initial
  BY ConvertKeeps
<1>2. told'[o] = {initial}
  BY DEF Types
<1> QED
  BY <1>1, <1>2 DEF levels

LEMMA InitIInv == Init => IInv
BY ConstantsAssumption
DEF Init, IInv, Types, ValueIsGreatest, AnswerStaysTrue, Exists, NoAnswer

LEMMA ReportKeeps ==
  ASSUME IInv, NEW n \in FirstCount + 1 .. MaxCount, Report(n)
  PROVE  IInv'
<1>1. Types'
  BY ConstantsAssumption DEF IInv, Types, Report
<1>2. \A o \in Objects : levels(o)' = levels(o)
  BY DEF Report, levels
<1> QED
  BY <1>1, <1>2 DEF IInv, Report, ValueIsGreatest, AnswerStaysTrue, Exists

LEMMA ConstructKeeps ==
  ASSUME IInv, NEW o \in Objects, NEW kind \in Policies, NEW initial \in T,
         Construct(o, kind, initial)
  PROVE  IInv'
<1>1. Types'
  BY TypesOfT DEF IInv, Types, Construct
<1>2. ValueIsGreatest'
  <2>1. levels(o)' = {initial} /\ value'[o] = initial /\ initial \in Int
    BY LevelsOfOne, TypesOfT DEF IInv, Types, Construct
  <2>2. \A p \in Objects : p # o => value'[p] = value[p] /\ levels(p)' = levels(p)
    BY DEF IInv, Types, Construct, levels
  <2> QED
    BY <2>1, <2>2 DEF IInv, ValueIsGreatest, Exists
<1>3. AnswerStaysTrue'
  <2>1. answer = NoAnswer \/ answer.to # o
    BY DEF IInv, AnswerStaysTrue, Construct
  <2> QED
    BY <2>1 DEF IInv, Types, AnswerStaysTrue, Construct, Exists
<1> QED
  BY <1>1, <1>2, <1>3 DEF IInv

LEMMA CopyConstructKeeps ==
  ASSUME IInv, NEW o \in Objects, NEW p \in Objects, CopyConstruct(o, p)
  PROVE  IInv'
<1>1. Types'
  BY DEF IInv, Types, CopyConstruct
<1>2. ValueIsGreatest'
  <2>1. levels(o)' = levels(p) /\ value'[o] = value[p]
    BY DEF IInv, Types, CopyConstruct, levels
  <2>2. \A q \in Objects : q # o => value'[q] = value[q] /\ levels(q)' = levels(q)
    BY DEF IInv, Types, CopyConstruct, levels
  <2> QED
    BY <2>1, <2>2 DEF IInv, ValueIsGreatest, CopyConstruct, Exists
<1>3. AnswerStaysTrue'
  <2>1. answer = NoAnswer \/ answer.to # o
    BY DEF IInv, AnswerStaysTrue, CopyConstruct
  <2> QED
    BY <2>1 DEF IInv, Types, AnswerStaysTrue, CopyConstruct, Exists
<1> QED
  BY <1>1, <1>2, <1>3 DEF IInv

\* An update under any policy: the value becomes the greater of the two, and an
\* answer, if one is given, is about this report and says whether it was taken.
LEMMA UpdateMoves ==
  ASSUME Types, NEW o \in Objects, value[o] # None, NEW next \in T, update(o, next)
  PROVE  /\ next \in Int /\ value[o] \in Int
         /\ value' = [value EXCEPT ![o] = IF value[o] < next THEN next ELSE value[o]]
         /\ \/ answer' = answer
            \/ Answer(o, next, FALSE) /\ next <= value[o]
               /\ (next = value[o] => policy[o] = "accept_revision")
            \/ Answer(o, next, TRUE) /\ next >= value[o]
               /\ (policy[o] = "accept_revision" => next > value[o])
<1>1. next \in Int /\ value[o] \in Int
  <2>1. value[o] \in T
    BY DEF Types
  <2> QED
    BY <2>1, TypesOfT
<1>3. value = [value EXCEPT ![o] = value[o]]
  BY DEF Types
<1>4. /\ next < value[o] => ~(value[o] < next) /\ next <= value[o] /\ next # value[o]
      /\ ~(next < value[o]) => next >= value[o] /\ (value[o] < next \/ value[o] = next)
      /\ next <= value[o] => ~(value[o] < next)
      /\ ~(next <= value[o]) => value[o] < next /\ next >= value[o] /\ next > value[o]
  BY <1>1
<1>5. CASE policy[o] # "accept_revision" /\ try_update(o, next)
  <2>1. CASE next < value[o]
    <3>1. Answer(o, next, FALSE) /\ value' = value
      BY <1>5, <2>1, Zenon DEF try_update, regression
    <3> QED
      BY <1>1, <1>3, <1>4, <2>1, <3>1, Zenon
  <2>2. CASE ~(next < value[o])
    <3>1. Answer(o, next, TRUE) /\ value' = [value EXCEPT ![o] = next]
      BY <1>5, <2>2, Zenon DEF try_update, regression, Assign
    <3> QED
      BY <1>1, <1>4, <1>5, <2>2, <3>1, Zenon
  <2> QED
    BY <2>1, <2>2
<1>6. CASE policy[o] = "accept_revision" /\ accept_revision(o, next)
  <2>1. CASE next <= value[o]
    <3>1. Answer(o, next, FALSE) /\ value' = value
      BY <1>6, <2>1, Zenon DEF accept_revision, duplicate
    <3> QED
      BY <1>1, <1>3, <1>4, <1>6, <2>1, <3>1, Zenon
  <2>2. CASE ~(next <= value[o])
    <3>1. Answer(o, next, TRUE) /\ value' = [value EXCEPT ![o] = next]
      BY <1>6, <2>2, Zenon DEF accept_revision, duplicate, Assign
    <3> QED
      BY <1>1, <1>4, <2>2, <3>1, Zenon
  <2> QED
    BY <2>1, <2>2
<1>7. CASE policy[o] = "observe_high_water" /\ observe_high_water(o, next)
  BY <1>1, <1>7 DEF observe_high_water, Assign
<1> QED
  BY <1>5, <1>6, <1>7 DEF update, set_local_progress

LEMMA DeliverKeeps ==
  ASSUME IInv, NEW o \in Objects, NEW report \in sent, Deliver(o, report)
  PROVE  IInv'
<1> DEFINE next == convert(report)
           high == IF value[o] < next THEN next ELSE value[o]
<1>1. next \in T
  BY ConvertInT DEF IInv, Types
<1>2. /\ update(o, next)
      /\ told' = [told EXCEPT ![o] = @ \cup {report}] /\ report \in Int
      /\ count' = count /\ sent' = sent /\ policy' = policy /\ value[o] # None
  BY DEF IInv, Types, Deliver, Exists
<1>11. levels(o)' = levels(o) \cup {next}
  <2>1. told'[o] = told[o] \cup {report}
    BY <1>2 DEF IInv, Types
  <2> QED
    BY <2>1 DEF levels
<1>12. \A p \in Objects : p # o => levels(p)' = levels(p)
  BY <1>2 DEF IInv, Types, levels
<1> HIDE DEF next
<1>3. /\ next \in Int /\ value[o] \in Int
      /\ value' = [value EXCEPT ![o] = high]
      /\ \/ answer' = answer
         \/ Answer(o, next, FALSE) /\ next <= value[o]
            /\ (next = value[o] => policy[o] = "accept_revision")
         \/ Answer(o, next, TRUE) /\ next >= value[o]
            /\ (policy[o] = "accept_revision" => next > value[o])
  BY <1>1, <1>2, UpdateMoves DEF IInv
<1>4. high \in T /\ high # None /\ high \in Int /\ high >= next /\ high >= value[o]
  BY <1>1, <1>2, <1>3, TypesOfT DEF IInv, Types
<1>5. high = next \/ high = value[o]
  OBVIOUS
<1> HIDE DEF high
<1>6. value'[o] = high /\ \A p \in Objects : p # o => value'[p] = value[p]
  BY <1>3 DEF IInv, Types
<1>7. value[o] \in levels(o) /\ \A l \in levels(o) : l \in Int /\ l <= value[o]
  <2>1. \A l \in levels(o) : l \in T
    BY ConvertInT DEF IInv, Types, levels
  <2>2. \A l \in levels(o) : l \in Int
    BY <2>1, TypesOfT
  <2> QED
    BY <1>2, <2>2 DEF IInv, ValueIsGreatest, Exists
<1>8. Types'
  <2>1. answer' \in {NoAnswer} \cup [to : Objects, next : T, said : BOOLEAN, again : BOOLEAN]
    <3>1. ASSUME NEW said \in BOOLEAN, Answer(o, next, said)
          PROVE  answer' \in [to : Objects, next : T, said : BOOLEAN, again : BOOLEAN]
      BY <1>1, <3>1 DEF Answer
    <3>2. answer' = answer \/ Answer(o, next, TRUE) \/ Answer(o, next, FALSE)
      BY <1>3
    <3> QED
      BY <3>1, <3>2 DEF IInv, Types
  <2> QED
    BY <1>1, <1>2, <1>3, <1>4, <2>1 DEF IInv, Types
<1>9. ValueIsGreatest'
  <2>1. high \in levels(o)'
    BY <1>5, <1>7, <1>11
  <2>2. \A l \in levels(o)' : l <= high
    BY <1>3, <1>4, <1>7, <1>11
  <2> QED
    BY <1>6, <1>12, <2>1, <2>2 DEF IInv, ValueIsGreatest, Exists
<1>10. AnswerStaysTrue'
  <2>1. CASE answer' = answer
    <3>1. answer # NoAnswer /\ answer.to # o => value'[answer.to] = value[answer.to]
      BY <1>6 DEF IInv, Types, AnswerStaysTrue, Exists
    <3>2. answer # NoAnswer /\ answer.to = o =>
            answer.next \in Int /\ answer.next <= value[o]
      <4>1. answer # NoAnswer => answer.next \in T
        BY DEF IInv, Types
      <4>2. answer # NoAnswer /\ answer.to = o => answer.next <= value[o]
        BY DEF IInv, AnswerStaysTrue
      <4>3. answer # NoAnswer => answer.next \in Int
        <5>1. \A l \in T : l \in Int
          BY TypesOfT
        <5> QED
          BY <4>1, <5>1, Zenon
      <4> QED
        BY <4>2, <4>3, Zenon
    <3>3. answer # NoAnswer /\ answer.to = o =>
            answer.next <= high /\ (answer.next = high => answer.next = value[o])
      BY <1>3, <1>4, <3>2
    <3> QED
      BY <1>2, <1>4, <1>6, <2>1, <3>1, <3>2, <3>3
      DEF IInv, AnswerStaysTrue, Exists
  <2>2. ASSUME NEW said \in BOOLEAN, Answer(o, next, said),
               said \/ (next = value[o] => policy[o] = "accept_revision"),
               said => (policy[o] = "accept_revision" => next > value[o]),
               ~said => next <= value[o]
        PROVE  AnswerStaysTrue'
    <3>1. answer'.to = o /\ answer'.next = next /\ answer'.said = said
          /\ answer'.again = (next \in levels(o))
      BY <2>2 DEF Answer
    <3>2. ~said => high = value[o]
      BY <1>3, <1>4, <1>5, <2>2
    <3>3. next > value[o] => next \notin levels(o)
      BY <1>3, <1>7
    <3> QED
      BY <1>2, <1>3, <1>4, <1>6, <1>7, <2>2, <3>1, <3>2, <3>3
      DEF AnswerStaysTrue, Exists
  <2> QED
    BY <1>3, <2>1, <2>2
<1> QED
  BY <1>8, <1>9, <1>10 DEF IInv

LEMMA NextIInv == IInv /\ [Next]_vars => IInv'
<1> SUFFICES ASSUME IInv, [Next]_vars PROVE IInv'
  OBVIOUS
<1>1. CASE UNCHANGED vars
  BY <1>1 DEF vars, IInv, Types, ValueIsGreatest, AnswerStaysTrue, Exists, levels
<1> QED
  BY <1>1, ReportKeeps, ConstructKeeps, CopyConstructKeeps, DeliverKeeps DEF Next

LEMMA SpecIInv == Spec => []IInv
BY InitIInv, NextIInv, PTL DEF Spec

LEMMA SpecTypes == Spec => []Types
<1>1. IInv => Types
  BY DEF IInv
<1> QED
  BY <1>1, SpecIInv, PTL

\* What a step does to the values, seen from the objects: at most one of them
\* changes, it is built or given the greater of its value and a level.
LEMMA StepOfValues ==
  ASSUME Types, [Next]_vars
  PROVE  [Mark!Next]_value
<1>1. ASSUME NEW n \in FirstCount + 1 .. MaxCount, Report(n)
      PROVE  value' = value
  BY <1>1 DEF Report
<1>2. ASSUME NEW o \in Objects, NEW kind \in Policies, NEW initial \in T,
             Construct(o, kind, initial)
      PROVE  Mark!Begin(o, initial)
  BY <1>2 DEF Construct, Exists, Mark!Begin
<1>3. ASSUME NEW o \in Objects, NEW p \in Objects, CopyConstruct(o, p)
      PROVE  value[p] \in T /\ Mark!Begin(o, value[p])
  BY <1>3 DEF CopyConstruct, Exists, Mark!Begin, Types
<1>4. ASSUME NEW o \in Objects, NEW report \in sent, Deliver(o, report)
      PROVE  convert(report) \in T /\ Mark!Observe(o, convert(report))
  <2>1. convert(report) \in T
    BY ConvertInT DEF Types
  <2>2. value[o] # None /\ update(o, convert(report))
    BY <1>4 DEF Deliver, Exists
  <2> QED
    BY <2>1, <2>2, UpdateMoves DEF Mark!Observe, Mark!max
<1>5. CASE UNCHANGED vars
  BY <1>5 DEF vars
<1> QED
  BY <1>1, <1>2, <1>3, <1>4, <1>5 DEF Next, Mark!Next

-----------------------------------------------------------------------------
\* The order and the repetition of reports do not matter: the value is the
\* greatest of them.
THEOREM ValueIsTheGreatest == Spec => []ValueIsGreatest
<1>1. IInv => ValueIsGreatest
  BY DEF IInv
<1> QED
  BY <1>1, SpecIInv, PTL

\* Of the counts that were meant, whatever the conversion made of them: none that
\* fits T is lost among others that do, and none that is too large for T puts a
\* value ahead of the counts.
THEOREM ValuesWereMeant == Spec => []ValueWasMeant
<1>1. ASSUME Types, ValueIsGreatest, NEW o \in Objects, Exists(o)
      PROVE  /\ told[o] \subseteq T => \A report \in told[o] : report <= value[o]
             /\ (\A report \in told[o] : report >= Lowest)
                  => \E report \in told[o] : value[o] <= report
  <2>1. \A report \in told[o] : report \in Int /\ convert(report) <= value[o]
    BY <1>1 DEF Types, ValueIsGreatest, levels
  <2>2. PICK report \in told[o] : value[o] = convert(report)
    BY <1>1 DEF ValueIsGreatest, levels
  <2>3. ASSUME told[o] \subseteq T, NEW n \in told[o]
        PROVE  n <= value[o]
    <3>1. convert(n) = n
      BY <2>3, ConvertKeeps
    <3> QED
      BY <2>1, <3>1
  <2>4. report >= Lowest => value[o] <= report
    BY <2>1, <2>2, ConvertLowers
  <2> QED
    BY <2>3, <2>4
<1>2. IInv => ValueWasMeant
  BY <1>1 DEF IInv, ValueWasMeant
<1> QED
  BY <1>2, SpecIInv, PTL

\* An answer that an update gave is never made wrong by what comes later, and
\* no revision is accepted twice.
THEOREM AnswersStayTrue == Spec => []AnswerStaysTrue
<1>1. IInv => AnswerStaysTrue
  BY DEF IInv
<1> QED
  BY <1>1, SpecIInv, PTL

\* The values are a high-water mark: every step of the one is a step or a
\* stutter of the other.
THEOREM ImplementsHighWater == Spec => RefinesHighWater
<1>1. Init => Mark!Init
  BY DEF Init, Mark!Init
<1>2. Types /\ [Next]_vars => [Mark!Next]_value
  BY StepOfValues
<1> QED
  BY <1>1, <1>2, SpecTypes, PTL DEF Spec, RefinesHighWater, Mark!Spec

\* No object's value ever goes down, and no call changes two objects.
THEOREM NeverRegresses == Spec => NoRegression
<1> DEFINE Forward ==
      /\ \A o \in Objects : Exists(o) => value'[o] >= value[o]
      /\ \A o, p \in Objects : Exists(o) /\ Exists(p) /\ o # p =>
           value'[o] = value[o] \/ value'[p] = value[p]
<1>1. ASSUME Types, Mark!Next
      PROVE  Forward
  <2>1. PICK o \in Objects, l \in T : Mark!Begin(o, l) \/ Mark!Observe(o, l)
    BY <1>1 DEF Mark!Next
  <2>2. \A p \in Objects : p # o => value'[p] = value[p]
    BY <1>1, <2>1 DEF Mark!Begin, Mark!Observe, Types
  <2>3. \A p \in Objects : Exists(p) => value[p] \in Int
    BY <1>1, TypesOfT DEF Types, Exists
  <2>4. Exists(o) => value'[o] >= value[o]
    BY <1>1, <2>1, <2>3, TypesOfT DEF Mark!Begin, Mark!Observe, Mark!max, Types, Exists
  <2> QED
    BY <2>2, <2>3, <2>4
<1>2. ASSUME Types, value' = value
      PROVE  Forward
  <2>1. \A p \in Objects : Exists(p) => value[p] \in Int
    BY <1>2, TypesOfT DEF Types, Exists
  <2> QED
    BY <1>2, <2>1
<1>3. Types /\ [Next]_vars => [Forward]_vars
  BY <1>1, <1>2, StepOfValues
<1> QED
  BY <1>3, SpecTypes, PTL DEF Spec, NoRegression

=============================================================================
