--------------------------- MODULE NonOverlapping ---------------------------
(***************************************************************************)
(* checked_non_overlapping(first, second): the decision whether two spans  *)
(* of byte-sized elements share storage, taken one address comparison at a *)
(* time, and the carrier that keeps the answer while its client goes on.   *)
(*                                                                         *)
(* The call takes its spans by value and the carrier stores them by value: *)
(* what the client does to its own span variables afterwards is no part of *)
(* this state, and the next call may be given any two spans.  A definition *)
(* Mutant_x is x with a fault, and is used by no other definition.         *)
(***************************************************************************)
EXTENDS ByteRanges

CONSTANTS
  Bases,     \* the addresses a span may start at
  MaxSize    \* bound: elements of a span

ASSUME ConstantsAssumption ==
  /\ Bases \subseteq Nat
  /\ MaxSize \in Nat

VARIABLES
  arg,       \* the parameters of the call in progress, or of the last one
  pc,        \* where that call is
  position,  \* the element that the running range-for loop is at
  compared,  \* history: address comparisons made by the call
  carrier    \* the client's optional<non_overlapping_spans<T, U>>

vars == <<arg, pc, position, compared, carrier>>

View == [data : Bases, size : 0 .. MaxSize]

Nullopt == [engaged |-> FALSE]
Pairs == [engaged : {TRUE}, first : View, second : View]

-----------------------------------------------------------------------------
\* The call is entered; an empty range overlaps nothing and ends the decision.
Call(first, second) ==
  /\ pc = "returned"
  /\ arg' = [first |-> first, second |-> second]
  /\ position' = 0
  /\ compared' = 0
  /\ \/ /\ first.size = 0 \/ second.size = 0
        /\ pc' = "disjoint"
     \/ /\ first.size > 0 /\ second.size > 0
        /\ pc' = "in_first"
  /\ UNCHANGED carrier

\* The range-for loop: its end, and what || does after a miss.
Mutant_AtEnd(elements) == position > elements.size
AtEnd(elements) == position = elements.size

Mutant_Leave(missed) == UNCHANGED <<pc, position>>
Leave(missed) == pc' = missed /\ position' = 0

\* contains_element_address(elements, address), one iteration of the loop: it
\* stops at a hit, and after the last element goes on where || goes on.
Scan(at, elements, address, missed) ==
  /\ pc = at
  /\ \/ /\ AtEnd(elements)
        /\ Leave(missed)
        /\ UNCHANGED compared
     \/ /\ ~AtEnd(elements)
        /\ compared' = compared + 1
        /\ \/ /\ elements.data + position = address
              /\ pc' = "overlapping"
              /\ UNCHANGED position
           \/ /\ elements.data + position # address
              /\ position' = position + 1
              /\ UNCHANGED pc
  /\ UNCHANGED <<arg, carrier>>

\* Answers after one of the two scans.
Mutant_ScanFirst == Scan("in_first", arg.first, arg.second.data, "disjoint")

ScanFirst  == Scan("in_first", arg.first, arg.second.data, "in_second")
ScanSecond == Scan("in_second", arg.second, arg.first.data, "disjoint")

\* The carrier stores the two parameters, or the client gets std::nullopt.
Return ==
  /\ \/ /\ pc = "disjoint"
        /\ carrier' = [engaged |-> TRUE, first |-> arg.first, second |-> arg.second]
     \/ /\ pc = "overlapping"
        /\ carrier' = Nullopt
  /\ pc' = "returned"
  /\ UNCHANGED <<arg, position, compared>>

Init ==
  /\ arg \in [first : View, second : View]
  /\ pc = "returned"
  /\ position = 0
  /\ compared = 0
  /\ carrier = Nullopt

InCall == ScanFirst \/ ScanSecond \/ Return
Next == (\E first, second \in View : Call(first, second)) \/ InCall

\* A thread that is inside the call takes its next step eventually.
Spec == Init /\ [][Next]_vars /\ WF_vars(InCall)

-----------------------------------------------------------------------------
(* Properties.                                                             *)

TypeOK ==
  /\ arg \in [first : View, second : View]
  /\ pc \in {"returned", "in_first", "in_second", "disjoint", "overlapping"}
  /\ position \in 0 .. MaxSize
  /\ compared \in 0 .. 2 * MaxSize
  /\ carrier \in Pairs \cup {Nullopt}

\* The two one-sided scans together decide the symmetric relation exactly: a
\* shared byte anywhere is seen as "the first byte of one is in the other",
\* and touching, nested, equal and empty ranges are told apart rightly.
DecisionExact ==
  /\ pc = "disjoint" => ~overlap(arg.first, arg.second)
  /\ pc = "overlapping" => overlap(arg.first, arg.second)

\* The carrier a client holds is a pair of ranges that share no byte, from the
\* call that made it and through every later call and rejection.
CarrierDisjoint == carrier.engaged => ~overlap(carrier.first, carrier.second)

\* "Validation is linear in the sum of both element counts".
LinearWork == compared <= arg.first.size + arg.second.size

\* Every call returns.
Returns == pc # "returned" ~> pc = "returned"

=============================================================================
