---------------------------- MODULE NeverDecrease ----------------------------
(***************************************************************************)
(* never_decrease<T>, and the policies that its example sets beside it:    *)
(* cumulative counts reported to an object over several paths, which may   *)
(* be late, out of order and repeated (the primary and the replay path of  *)
(* the example).  The sender only ever counts up; the paths keep what was  *)
(* sent and deliver any of it at any time.  An object is a never_decrease, *)
(* or a plain variable that one of the example's functions updates.        *)
(*                                                                         *)
(* T has Modulus = 2^w values for its width w, from Lowest on: 0 when it   *)
(* has no sign, -2^(w-1) when it has one.  A report is an argument of an   *)
(* integral type of its own (std::size_t in the example) and becomes a T   *)
(* by the implicit conversion at the call, which keeps it modulo 2^w.      *)
(*                                                                         *)
(* A definition Mutant_x is x with a fault, and is used by no other one.   *)
(***************************************************************************)
EXTENDS Integers, FiniteSets

CONSTANTS
  Objects,     \* the objects, each with a history of its own
  Lowest,      \* std::numeric_limits<T>::min()
  Modulus,     \* number of values of T
  FirstCount,  \* where the sender's count begins
  MaxCount,    \* bound: the largest count that is sent
  MaxReports,  \* bound: how many of the counts are reported
  None         \* no such object yet

Policies == {"try_update", "set_local_progress", "accept_revision", "observe_high_water"}

ASSUME ConstantsAssumption ==
  /\ Lowest \in Int /\ Modulus \in Nat \ {0}
  /\ FirstCount \in Int /\ MaxCount \in Int /\ MaxReports \in Nat
  /\ None \notin Int

VARIABLES
  count,     \* the sender's cumulative count
  sent,      \* the reports on the paths
  value,     \* each object's value_
  policy,    \* what each object is, by what updates it
  answer,    \* history: the latest update that answered, what it returned, and
             \* whether the object had been told that level before
  told       \* history: the numbers that each object, or the object it is a
             \* copy of, was started from or told, before their conversion

vars == <<count, sent, value, policy, answer, told>>

T == Lowest .. Lowest + (Modulus - 1)
convert(report) == Lowest + ((report - Lowest) % Modulus)

levels(o) == {convert(report) : report \in told[o]}

Exists(o) == value[o] # None
NoAnswer == [said |-> TRUE]
Answer(o, next, said) ==
  answer' = [to |-> o, next |-> next, said |-> said, again |-> next \in levels(o)]
Assign(o, next) == value' = [value EXCEPT ![o] = next]

-----------------------------------------------------------------------------
\* The sender's count goes on, and the new count is reported on the paths.
Report(n) ==
  /\ n \in count + 1 .. MaxCount /\ Cardinality(sent) < MaxReports
  /\ count' = n
  /\ sent' = sent \cup {n}
  /\ UNCHANGED <<value, policy, answer, told>>

Construct(o, kind, initial) ==
  /\ ~Exists(o)
  /\ value' = [value EXCEPT ![o] = initial]
  /\ policy' = [policy EXCEPT ![o] = kind]
  /\ told' = [told EXCEPT ![o] = {initial}]
  /\ UNCHANGED <<count, sent, answer>>

\* An assignment, to an object that exists.
Mutant_CopyConstruct(o, p) ==
  /\ Exists(p)
  /\ value' = [value EXCEPT ![o] = value[p]]
  /\ policy' = [policy EXCEPT ![o] = policy[p]]
  /\ told' = [told EXCEPT ![o] = told[p]]
  /\ UNCHANGED <<count, sent, answer>>

\* Copy and move construction: the new object starts from the source's value,
\* with a history of its own from there.
CopyConstruct(o, p) ==
  /\ ~Exists(o) /\ Exists(p)
  /\ value' = [value EXCEPT ![o] = value[p]]
  /\ policy' = [policy EXCEPT ![o] = policy[p]]
  /\ told' = [told EXCEPT ![o] = told[p]]
  /\ UNCHANGED <<count, sent, answer>>

-----------------------------------------------------------------------------
(* The policies.                                                           *)

\* Compares the two as numbers without a sign.
Mutant_regression(next, current) == next % Modulus < current % Modulus
regression(next, current) == next < current

try_update(o, next) ==
  \/ regression(next, value[o]) /\ Answer(o, next, FALSE) /\ UNCHANGED value
  \/ ~regression(next, value[o]) /\ Answer(o, next, TRUE) /\ Assign(o, next)

\* "A raw value and a local check": the same rule.
set_local_progress(o, next) == try_update(o, next)

\* Takes the rule of the other policies.
Mutant_duplicate(next, current) == next < current
duplicate(next, current) == next <= current

\* "Equal revisions are not new revisions".
accept_revision(o, next) ==
  \/ duplicate(next, value[o]) /\ Answer(o, next, FALSE) /\ UNCHANGED value
  \/ ~duplicate(next, value[o]) /\ Answer(o, next, TRUE) /\ Assign(o, next)

\* Every candidate is consumed, and none is answered.
observe_high_water(o, next) ==
  /\ Assign(o, IF value[o] < next THEN next ELSE value[o])
  /\ UNCHANGED answer

update(o, next) ==
  \/ policy[o] = "try_update" /\ try_update(o, next)
  \/ policy[o] = "set_local_progress" /\ set_local_progress(o, next)
  \/ policy[o] = "accept_revision" /\ accept_revision(o, next)
  \/ policy[o] = "observe_high_water" /\ observe_high_water(o, next)

\* The report is compared as it is, and converted when it is stored.
Mutant_Deliver(o, report) ==
  /\ Exists(o)
  /\ report \in sent
  /\ Answer(o, convert(report), ~(report < value[o]))
  /\ Assign(o, IF report < value[o] THEN value[o] ELSE convert(report))
  /\ told' = [told EXCEPT ![o] = @ \cup {report}]
  /\ UNCHANGED <<count, sent, policy>>

\* A path delivers one of its reports: it stays there to be delivered again.
Deliver(o, report) ==
  /\ Exists(o)
  /\ report \in sent
  /\ update(o, convert(report))
  /\ told' = [told EXCEPT ![o] = @ \cup {report}]
  /\ UNCHANGED <<count, sent, policy>>

Init ==
  /\ count = FirstCount
  /\ sent = {}
  /\ value = [o \in Objects |-> None]
  /\ policy = [o \in Objects |-> None]
  /\ answer = NoAnswer
  /\ told = [o \in Objects |-> {}]

Next ==
  \/ \E n \in FirstCount + 1 .. MaxCount : Report(n)
  \/ \E o \in Objects, kind \in Policies, initial \in T : Construct(o, kind, initial)
  \/ \E o, p \in Objects : CopyConstruct(o, p)
  \/ \E o \in Objects, report \in sent : Deliver(o, report)

Spec == Init /\ [][Next]_vars

-----------------------------------------------------------------------------
(* Properties.                                                             *)

\* In whatever order, and however often, the reports come: an object's value
\* is the greatest of the levels that they are as a T, none lost and none made
\* up, so that it is a T that is compared and the same T that is stored.
ValueIsGreatest ==
  \A o \in Objects : Exists(o) =>
    /\ value[o] \in levels(o)
    /\ \A l \in levels(o) : l <= value[o]

\* What the value is of the counts that were meant: as long as all that an object
\* was told are values of T it has fallen behind none of them, and as long as none
\* is below T's values it is ahead of none that it was told: the conversion can
\* make a count that is too large a regression, and never an advance.
ValueWasMeant ==
  \A o \in Objects : Exists(o) =>
    /\ told[o] \subseteq T => \A report \in told[o] : report <= value[o]
    /\ (\A report \in told[o] : report >= Lowest) => \E report \in told[o] : value[o] <= report

\* No object ever goes back, and what one object is told moves no other.
NoRegression ==
  [][/\ \A o \in Objects : Exists(o) => value'[o] >= value[o]
     /\ \A o, p \in Objects : Exists(o) /\ Exists(p) /\ o # p =>
          value'[o] = value[o] \/ value'[p] = value[p]]_vars

\* What the caller was told stays true: a rejected report is below the value
\* for good, or was a revision that the object had been told; an accepted one is
\* never above the value, and no revision is accepted twice, copies included.
AnswerStaysTrue ==
  answer # NoAnswer =>
    /\ Exists(answer.to)
    /\ answer.next <= value[answer.to]
    /\ ~answer.said /\ answer.next = value[answer.to] =>
         policy[answer.to] = "accept_revision" /\ answer.again
    /\ answer.said /\ policy[answer.to] = "accept_revision" => ~answer.again

\* Under every policy the stored value moves as a high-water mark does: what
\* the policies differ in is the answer alone.
Mark == INSTANCE HighWater WITH level <- value, Level <- T
RefinesHighWater == Mark!Spec

=============================================================================
