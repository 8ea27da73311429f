------------------------------- MODULE SameSize -------------------------------
(***************************************************************************)
(* same_size_pair<T, U> and the operations over equally long spans in      *)
(* same_size_relations.cpp: two dot products, one of them through the      *)
(* carrier, process_in_stages() with three stages over one pair, the       *)
(* three-span apply_weighted_mask(), and job_results::try_from(), which    *)
(* validates correspondence and not only size.                             *)
(*                                                                         *)
(* Every loop runs up to the size of its first span and indexes the others *)
(* by it.  Values are not computed: an element of the first span remembers *)
(* which stages have worked on it.                                         *)
(*                                                                         *)
(* A definition Mutant_x is x with a fault, and is used by no other one.   *)
(***************************************************************************)
EXTENDS Naturals, Sequences

CONSTANTS
  Ids,       \* what the elements of two spans may correspond by: job ids
  MaxSize    \* bound: elements of a span

ASSUME ConstantsAssumption == MaxSize \in Nat

VARIABLES
  call,     \* the operation in progress, or the last one, with its spans
  pair,     \* its local optional<same_size_pair>: the sizes of the two spans
  stages,   \* the loops that it still has to run
  index,    \* the iteration of the first of them
  done,     \* history: the stages that each element of the first span has seen
  result    \* "idle", "running", "succeeded" or "failed"

vars == <<call, pair, stages, index, done, result>>

Operations == {"dot_product_local", "dot_product_carrier", "process_in_stages",
               "apply_weighted_mask", "job_results"}
Carrying == {"dot_product_carrier", "process_in_stages"}
Span(E) == UNION {[1 .. n -> E] : n \in 0 .. MaxSize}
Calls ==
  [operation : Operations \ {"apply_weighted_mask"},
   first : Span(Ids), second : Span(Ids), mask : {<< >>}]
  \cup [operation : {"apply_weighted_mask"},
        first : Span(Ids), second : Span(Ids), mask : Span(BOOLEAN)]
NoCall ==
  [operation |-> "dot_product_local", first |-> << >>, second |-> << >>, mask |-> << >>]
Nullopt == [engaged |-> FALSE]
Pairs == [engaged : {TRUE}, first : 0 .. MaxSize, second : 0 .. MaxSize]

-----------------------------------------------------------------------------
(* Validation.                                                             *)

\* first.size() != second.size(), of the carrier and of what does without it.
differ(first, second) == Len(first) # Len(second)

checked_same_size(first, second) ==
  IF differ(first, second) THEN Nullopt
  ELSE [engaged |-> TRUE, first |-> Len(first), second |-> Len(second)]

carried(c) ==
  IF c.operation \in Carrying THEN checked_same_size(c.first, c.second) ELSE Nullopt

\* Does not look at the mask.
Mutant_valid(c) ==
  IF c.operation \in Carrying THEN carried(c).engaged ELSE ~differ(c.first, c.second)

\* The carrying operations ask the pair whether it is there.
valid(c) ==
  IF c.operation \in Carrying THEN carried(c).engaged
  ELSE /\ ~differ(c.first, c.second)
       /\ c.operation = "apply_weighted_mask" => ~differ(c.first, c.mask)

-----------------------------------------------------------------------------
(* The operations.                                                         *)

\* Emits before the values are transformed.
Mutant_program(c) ==
  IF c.operation = "process_in_stages" THEN <<"normalize", "emit", "transform">>
  ELSE <<c.operation>>

program(c) ==
  IF c.operation = "process_in_stages" THEN <<"normalize", "transform", "emit">>
  ELSE <<c.operation>>

\* The spans that a stage indexes besides the first.
others(stage) ==
  CASE stage = "transform" -> {}
    [] stage = "apply_weighted_mask" -> {"second", "mask"}
    [] OTHER -> {"second"}

\* A call validates; when that fails it returns before it has indexed anything.
Begin(c) ==
  /\ result = "idle"
  /\ call' = c
  /\ pair' = carried(c)
  /\ index' = 0
  /\ done' = [i \in 1 .. Len(c.first) |-> << >>]
  /\ \/ valid(c) /\ stages' = program(c) /\ result' = "running"
     \/ ~valid(c) /\ stages' = << >> /\ result' = "failed"

\* Loops over a pair ask the pair for its size, transform() and the others ask
\* the first span.
bound == IF pair.engaged /\ Head(stages) # "transform" THEN pair.first ELSE Len(call.first)

\* job_results compares one more pair of elements, and gives up if they differ.
mismatch ==
  Head(stages) = "job_results" /\ call.first[index + 1] # call.second[index + 1]

masked == Head(stages) = "apply_weighted_mask" /\ ~call.mask[index + 1]

Iterate ==
  /\ result = "running" /\ index < bound
  /\ \/ /\ mismatch
        /\ result' = "failed" /\ stages' = << >>
        /\ UNCHANGED <<index, done>>
     \/ /\ ~mismatch
        /\ done' = IF masked THEN done ELSE [done EXCEPT ![index + 1] = Append(@, Head(stages))]
        /\ index' = index + 1
        /\ UNCHANGED <<result, stages>>
  /\ UNCHANGED <<call, pair>>

Mutant_finished(left) == Len(left) <= 1
finished(left) == left = << >>

StageEnds ==
  /\ result = "running" /\ index = bound
  /\ stages' = Tail(stages)
  /\ index' = 0
  /\ result' = IF finished(stages') THEN "succeeded" ELSE "running"
  /\ UNCHANGED <<call, pair, done>>

\* The client has taken the result; the operation's locals are gone.
Consume ==
  /\ result \in {"succeeded", "failed"}
  /\ result' = "idle"
  /\ call' = NoCall /\ pair' = Nullopt /\ index' = 0 /\ done' = << >>
  /\ UNCHANGED stages

Init ==
  /\ call = NoCall
  /\ pair = Nullopt
  /\ stages = << >>
  /\ index = 0
  /\ done = << >>
  /\ result = "idle"

Next == (\E c \in Calls : Begin(c)) \/ Iterate \/ StageEnds \/ Consume
Spec == Init /\ [][Next]_vars

-----------------------------------------------------------------------------
(* Properties.                                                             *)

TypeOK ==
  /\ call \in Calls
  /\ pair \in Pairs \cup {Nullopt}
  /\ stages \in Seq(Operations \cup {"normalize", "transform", "emit"})
  /\ index \in 0 .. MaxSize
  /\ done \in [1 .. Len(call.first) -> Seq(Operations \cup {"normalize", "transform", "emit"})]
  /\ result \in {"idle", "running", "succeeded", "failed"}
  /\ result = "running" <=> stages # << >>

\* Stages index the second span and the mask up to the size of the first, calls
\* after the sizes were compared: every index is inside all of them.
IndexInBounds ==
  result = "running" /\ index < bound =>
    /\ index < Len(call.first)
    /\ \A s \in others(Head(stages)) : index < Len(call[s])

\* An operation succeeds exactly for spans of one size and, for job_results
\* alone, with the same jobs in the same places: "Equal cardinality is not
\* correspondence".  When it does, every element has seen every stage, in order.
VerdictRight ==
  LET sized == /\ Len(call.first) = Len(call.second)
               /\ call.operation = "apply_weighted_mask" => Len(call.mask) = Len(call.first)
      matched == call.operation = "job_results" => call.first = call.second
      seen(i) == CASE call.operation = "process_in_stages" -> <<"normalize", "transform", "emit">>
                   [] call.operation = "apply_weighted_mask" /\ ~call.mask[i] -> << >>
                   [] OTHER -> <<call.operation>>
  IN  /\ result = "succeeded" => /\ sized /\ matched
                                 /\ \A i \in 1 .. Len(call.first) : done[i] = seen(i)
      /\ result = "failed" => ~(sized /\ matched)

=============================================================================
