---------------------------- MODULE ExamplesProofs ----------------------------
(***************************************************************************)
(* Proofs about the example programs over spans, as specified side by side *)
(* in Examples, for spans of every length and every table of fields:       *)
(*                                                                         *)
(*   - the operations over equally long spans.  Followed says how far one  *)
(*     has come: each element has seen the stages that are over, those     *)
(*     before index the current one as well;                               *)
(*   - positions and the loop of checksum_blocks();                        *)
(*   - the boundaries and their consumers.  The loops of the consumers are *)
(*     functions that are defined recursively: LoopExists shows that there *)
(*     is such a function, by an induction over a set (Reaches), and the   *)
(*     lemmas after it what the loops return.                              *)
(***************************************************************************)
EXTENDS Examples, SequenceTheorems, WellFoundedInduction, TLAPS

Stages == Operations \cup {"normalize", "transform", "emit"}

\* What an element has seen after the first k stages of a call.
Seen(c, i, k) ==
  IF c.operation = "apply_weighted_mask" /\ ~c.mask[i] THEN << >> ELSE SubSeq(program(c), 1, k)

Passed == Len(program(call)) - Len(stages)

Followed ==
  /\ Passed \in 0 .. Len(program(call))
  /\ \A k \in 1 .. Len(stages) : stages[k] = program(call)[Passed + k]
  /\ \A i \in 1 .. Len(call.first) :
       done[i] = Seen(call, i, IF i <= index THEN Passed + 1 ELSE Passed)

SameSizeInv ==
  /\ result \in {"running", "succeeded"} => valid(call) /\ Followed
  /\ result = "running" =>
       /\ index <= Len(call.first)
       /\ pair = carried(call)
       /\ call.operation = "job_results" => \A i \in 1 .. index : call.first[i] = call.second[i]
  /\ result = "succeeded" =>
       /\ stages = << >> /\ index = 0
       /\ call.operation = "job_results" => call.first = call.second
  /\ result = "failed" =>
       ~(valid(call) /\ (call.operation = "job_results" => call.first = call.second))

IInv == TypeOK /\ SameSizeInv

-----------------------------------------------------------------------------
(* Calls and programs.                                                     *)

LEMMA SpanIsSeq ==
  ASSUME NEW E, NEW s \in Span(E)
  PROVE  s \in Seq(E) /\ Len(s) \in Nat /\ Len(s) \in 0 .. MaxSize /\ s \in [1 .. Len(s) -> E]
<1>1. PICK n \in 0 .. MaxSize : s \in [1 .. n -> E]
  BY DEF Span
<1>2. n \in Nat
  BY ConstantsAssumption
<1> QED
  BY <1>1, <1>2

LEMMA CallType ==
  ASSUME NEW c \in Calls
  PROVE  /\ c.operation \in Operations
         /\ c.first \in Seq(Ids) /\ Len(c.first) \in Nat /\ Len(c.first) \in 0 .. MaxSize
         /\ c.second \in Seq(Ids) /\ Len(c.second) \in Nat /\ Len(c.second) \in 0 .. MaxSize
         /\ c.mask \in Seq(BOOLEAN) /\ Len(c.mask) \in Nat
<1>1. /\ c.operation \in Operations
      /\ c.first \in Span(Ids) /\ c.second \in Span(Ids)
      /\ c.mask = << >> \/ c.mask \in Span(BOOLEAN)
  BY DEF Calls, Operations
<1>2. c.mask \in Seq(BOOLEAN) /\ Len(c.mask) \in Nat
  <2>1. CASE c.mask = << >>
    BY <2>1
  <2>2. CASE c.mask \in Span(BOOLEAN)
    BY <2>2, SpanIsSeq
  <2> QED
    BY <1>1, <2>1, <2>2
<1> QED
  BY <1>1, <1>2, SpanIsSeq

LEMMA NoCallIsCall == NoCall \in Calls /\ Len(NoCall.first) = 0
<1>1. << >> \in [1 .. 0 -> Ids] /\ 0 \in 0 .. MaxSize
  BY ConstantsAssumption
<1>2. << >> \in Span(Ids)
  BY <1>1 DEF Span
<1> QED
  BY <1>2 DEF NoCall, Calls, Operations

LEMMA ProgramIs ==
  ASSUME NEW c \in Calls
  PROVE  /\ program(c) \in Seq(Stages) /\ Len(program(c)) \in {1, 3}
         /\ \A k \in 1 .. Len(program(c)) : program(c)[k] \in Stages
         /\ c.operation # "process_in_stages" =>
              /\ Len(program(c)) = 1 /\ program(c)[1] = c.operation
         /\ c.operation = "process_in_stages" =>
              program(c) = <<"normalize", "transform", "emit">>
         /\ \A k \in 1 .. Len(program(c)) : \A o \in {"job_results", "apply_weighted_mask"} :
              program(c)[k] = o <=> c.operation = o
<1>1. CASE c.operation = "process_in_stages"
  <2>1. program(c) = <<"normalize", "transform", "emit">>
    BY <1>1 DEF program
  <2> QED
    BY <1>1, <2>1 DEF Stages
<1>2. CASE c.operation # "process_in_stages"
  <2>1. program(c) = <<c.operation>> /\ c.operation \in Stages
    BY <1>2, CallType DEF program, Stages
  <2> QED
    BY <1>2, <2>1
<1> QED
  BY <1>1, <1>2

\* One more stage.
LEMMA SeenNext ==
  ASSUME NEW c \in Calls, NEW i \in 1 .. Len(c.first), NEW k \in 0 .. Len(program(c)) - 1,
         c.operation = "apply_weighted_mask" => c.mask[i]
  PROVE  Append(Seen(c, i, k), program(c)[k + 1]) = Seen(c, i, k + 1)
<1>1. program(c) \in Seq(Stages) /\ Len(program(c)) \in {1, 3}
  BY ProgramIs
<1>2. k + 1 \in 1 .. Len(program(c)) /\ k \in Nat
  BY <1>1
<1>3. Append(SubSeq(program(c), 1, k), program(c)[k + 1]) = SubSeq(program(c), 1, k + 1)
  BY <1>1, <1>2
<1> QED
  BY <1>3 DEF Seen

LEMMA SeenType ==
  ASSUME NEW c \in Calls, NEW i, NEW k \in 0 .. Len(program(c))
  PROVE  Seen(c, i, k) \in Seq(Stages) /\ Seen(c, i, 0) = << >>
<1>1. program(c) \in Seq(Stages) /\ Len(program(c)) \in {1, 3}
  BY ProgramIs
<1>2. SubSeq(program(c), 1, k) \in Seq(Stages) /\ SubSeq(program(c), 1, 0) = << >>
  BY <1>1
<1> QED
  BY <1>2 DEF Seen

-----------------------------------------------------------------------------
(* Steps.                                                                  *)

LEMMA Initially == Init => IInv
<1> SUFFICES ASSUME Init PROVE IInv
  OBVIOUS
<1>1. TypeOK
  <2>1. done \in [1 .. Len(call.first) -> Seq(Stages)]
    BY NoCallIsCall DEF Init
  <2> QED
    BY <2>1, NoCallIsCall, ConstantsAssumption DEF Init, TypeOK, Stages
<1> QED
  BY <1>1 DEF IInv, SameSizeInv, Init

\* Whether by the carrier that it is returned or by a check of its own, an
\* operation lets exactly the spans of one size pass.
LEMMA ValidIs ==
  ASSUME NEW c \in Calls
  PROVE  valid(c) <=> /\ Len(c.first) = Len(c.second)
                      /\ c.operation = "apply_weighted_mask" => Len(c.mask) = Len(c.first)
<1>1. c.operation \in Carrying => c.operation # "apply_weighted_mask"
  BY DEF Carrying
<1>2. checked_same_size(c.first, c.second).engaged <=> Len(c.first) = Len(c.second)
  BY DEF checked_same_size, differ, Nullopt
<1> QED
  BY <1>1, <1>2 DEF valid, carried, differ

\* What holds of an operation while it runs.
LEMMA Running ==
  ASSUME IInv, result = "running"
  PROVE  /\ call \in Calls /\ valid(call) /\ Len(call.first) \in Nat
         /\ Len(call.second) = Len(call.first)
         /\ call.operation = "apply_weighted_mask" => Len(call.mask) = Len(call.first)
         /\ stages \in Seq(Stages) /\ stages # << >> /\ Len(stages) \in Nat \ {0}
         /\ Len(program(call)) \in {1, 3}
         /\ Passed \in 0 .. Len(program(call)) - 1
         /\ Len(stages) = Len(program(call)) - Passed
         /\ Head(stages) = program(call)[Passed + 1]
         /\ \A o \in {"job_results", "apply_weighted_mask"} :
              Head(stages) = o <=> call.operation = o
         /\ index \in Nat /\ index <= Len(call.first)
         /\ bound = Len(call.first)
<1>1. /\ call \in Calls /\ valid(call) /\ index <= Len(call.first) /\ index \in 0 .. MaxSize
      /\ stages \in Seq(Stages) /\ stages # << >> /\ Followed
      /\ pair = carried(call)
  BY DEF IInv, TypeOK, SameSizeInv, Stages
<1>2. /\ Len(call.first) \in Nat /\ index \in Nat
      /\ Len(program(call)) \in {1, 3}
      /\ Len(stages) \in Nat \ {0}
  BY <1>1, CallType, ProgramIs, ConstantsAssumption
<1>3. Passed \in 0 .. Len(program(call)) - 1 /\ Len(stages) = Len(program(call)) - Passed
  BY <1>1, <1>2 DEF Followed, Passed
<1>4. stages[1] = program(call)[Passed + 1] /\ Passed + 1 \in 1 .. Len(program(call))
  BY <1>1, <1>2, <1>3 DEF Followed
<1>5. Head(stages) = stages[1]
  BY <1>1
<1>6. \A o \in {"job_results", "apply_weighted_mask"} :
        program(call)[Passed + 1] = o <=> call.operation = o
  BY <1>1, <1>4, ProgramIs
<1>7. bound = Len(call.first)
  BY <1>1, ValidIs DEF bound, carried, checked_same_size, differ, Nullopt
<1>8. /\ Len(call.second) = Len(call.first)
      /\ call.operation = "apply_weighted_mask" => Len(call.mask) = Len(call.first)
  BY <1>1, ValidIs
<1> QED
  BY <1>1, <1>2, <1>3, <1>4, <1>5, <1>6, <1>7, <1>8

LEMMA BeginKeeps == ASSUME IInv, NEW c \in Calls, Begin(c) PROVE IInv'
<1>1. /\ call' = c /\ index' = 0 /\ done' = [i \in 1 .. Len(c.first) |-> << >>]
      /\ pair' = carried(c)
  BY DEF Begin
<1>2. Len(c.first) \in 0 .. MaxSize /\ Len(c.second) \in 0 .. MaxSize /\ Len(c.first) \in Nat
  BY CallType
<1>3. pair' \in Pairs \cup {Nullopt}
  BY <1>1, <1>2 DEF carried, checked_same_size, Pairs
<1>4. done' \in [1 .. Len(c.first) -> Seq(Stages)]
  BY <1>1
<1>5. CASE valid(c) /\ stages' = program(c) /\ result' = "running"
  <2>1. program(c) \in Seq(Stages) /\ Len(program(c)) \in {1, 3} /\ program(c) # << >>
    BY ProgramIs
  <2>2. TypeOK'
    BY <1>1, <1>3, <1>4, <1>5, <2>1, ConstantsAssumption DEF TypeOK, Stages
  <2>3. Passed' = 0
    BY <1>1, <1>5, <2>1 DEF Passed
  <2>4. Followed'
    <3>1. \A k \in 1 .. Len(program(c)) : program(c)[k] = program(c)[0 + k]
      OBVIOUS
    <3>2. \A i \in 1 .. Len(c.first) : ~(i <= 0) /\ Seen(c, i, 0) = << >>
      BY <2>1, SeenType
    <3> QED
      BY <1>1, <1>5, <2>1, <2>3, <3>1, <3>2 DEF Followed
  <2> QED
    BY <1>1, <1>2, <1>5, <2>2, <2>4 DEF IInv, SameSizeInv
<1>6. CASE ~valid(c) /\ stages' = << >> /\ result' = "failed"
  <2>1. TypeOK'
    BY <1>1, <1>3, <1>4, <1>6, ConstantsAssumption DEF TypeOK, Stages
  <2> QED
    BY <1>1, <1>6, <2>1 DEF IInv, SameSizeInv
<1> QED
  BY <1>5, <1>6 DEF Begin

LEMMA IterateKeeps == ASSUME IInv, Iterate PROVE IInv'
<1>1. result = "running" /\ call' = call /\ pair' = pair
  BY DEF Iterate
<1>2. /\ call \in Calls /\ Len(call.first) \in Nat /\ Len(call.first) <= MaxSize
      /\ Passed \in 0 .. Len(program(call)) - 1 /\ Len(program(call)) \in {1, 3}
      /\ Head(stages) = program(call)[Passed + 1] /\ Head(stages) \in Stages
      /\ \A o \in {"job_results", "apply_weighted_mask"} : Head(stages) = o <=> call.operation = o
      /\ index \in Nat /\ index < Len(call.first)
  BY <1>1, Running, CallType, ConstantsAssumption DEF Iterate
<1>3. done \in [1 .. Len(call.first) -> Seq(Stages)] /\ index + 1 \in 1 .. Len(call.first)
  BY <1>2 DEF IInv, TypeOK, Stages
<1>4. CASE mismatch /\ result' = "failed" /\ stages' = << >> /\ UNCHANGED <<index, done>>
  <2>1. call.operation = "job_results" /\ call.first # call.second
    BY <1>2, <1>4 DEF mismatch
  <2>2. TypeOK'
    BY <1>1, <1>4 DEF IInv, TypeOK
  <2> QED
    BY <1>1, <1>4, <2>1, <2>2 DEF IInv, SameSizeInv
<1>5. CASE /\ ~mismatch
           /\ done' = IF masked THEN done ELSE [done EXCEPT ![index + 1] = Append(@, Head(stages))]
           /\ index' = index + 1
           /\ UNCHANGED <<result, stages>>
  <2>1. done' \in [1 .. Len(call.first) -> Seq(Stages)]
    BY <1>2, <1>3, <1>5
  <2>2. index' \in 0 .. MaxSize /\ index' <= Len(call.first)
    BY <1>2, <1>5, ConstantsAssumption
  <2>3. TypeOK'
    BY <1>1, <1>5, <2>1, <2>2 DEF IInv, TypeOK, Stages
  <2>4. Passed' = Passed
    BY <1>1, <1>5 DEF Passed
  <2>5. ASSUME NEW i \in 1 .. Len(call.first)
        PROVE  done'[i] = Seen(call, i, IF i <= index' THEN Passed + 1 ELSE Passed)
    <3>1. done[i] = Seen(call, i, IF i <= index THEN Passed + 1 ELSE Passed)
      BY <1>1 DEF IInv, SameSizeInv, Followed
    <3>2. CASE i # index + 1
      <4>1. done'[i] = done[i] /\ (i <= index <=> i <= index + 1)
        BY <1>2, <1>3, <1>5, <3>2
      <4> QED
        BY <1>5, <3>1, <4>1
    <3>3. CASE i = index + 1 /\ masked
      <4>1. call.operation = "apply_weighted_mask" /\ ~call.mask[i]
        BY <1>2, <3>3 DEF masked
      <4> QED
        BY <1>5, <3>1, <3>3, <4>1 DEF Seen
    <3>4. CASE i = index + 1 /\ ~masked
      <4>1. call.operation = "apply_weighted_mask" => call.mask[i]
        BY <1>2, <3>4 DEF masked
      <4>2. done[i] = Seen(call, i, Passed)
        BY <1>2, <3>1, <3>4
      <4>3. done'[i] = Append(done[i], Head(stages))
        BY <1>3, <1>5, <3>4
      <4>4. Append(Seen(call, i, Passed), program(call)[Passed + 1]) = Seen(call, i, Passed + 1)
        BY <1>2, <4>1, SeenNext
      <4>5. i <= index'
        BY <1>2, <1>5, <3>4
      <4> QED
        BY <1>2, <4>2, <4>3, <4>4, <4>5
    <3> QED
      BY <3>2, <3>3, <3>4
  <2>6. Followed'
    BY <1>1, <1>5, <2>4, <2>5 DEF IInv, SameSizeInv, Followed
  <2>7. call.operation = "job_results" =>
          \A i \in 1 .. index' : call.first[i] = call.second[i]
    <3> SUFFICES ASSUME call.operation = "job_results", NEW i \in 1 .. index'
                 PROVE  call.first[i] = call.second[i]
      OBVIOUS
    <3>1. CASE i = index + 1
      BY <1>2, <1>5, <3>1 DEF mismatch
    <3>2. CASE i # index + 1
      <4>1. i \in 1 .. index
        BY <1>2, <1>5, <3>2
      <4> QED
        BY <1>1, <4>1 DEF IInv, SameSizeInv
    <3> QED
      BY <3>1, <3>2
  <2> QED
    BY <1>1, <1>5, <2>2, <2>3, <2>6, <2>7 DEF IInv, SameSizeInv
<1> QED
  BY <1>4, <1>5 DEF Iterate

LEMMA StageEndsKeeps == ASSUME IInv, StageEnds PROVE IInv'
<1>1. result = "running" /\ call' = call /\ pair' = pair /\ done' = done /\ index' = 0
  BY DEF StageEnds
<1>2. /\ call \in Calls /\ valid(call) /\ Len(call.first) \in Nat
      /\ Len(call.second) = Len(call.first)
      /\ stages \in Seq(Stages) /\ stages # << >> /\ Len(stages) \in Nat \ {0}
      /\ Passed \in 0 .. Len(program(call)) - 1 /\ Len(program(call)) \in {1, 3}
      /\ Len(stages) = Len(program(call)) - Passed
      /\ index = Len(call.first)
  BY <1>1, Running DEF StageEnds
<1>3. /\ stages' = Tail(stages)
      /\ result' = IF Tail(stages) = << >> THEN "succeeded" ELSE "running"
  BY DEF StageEnds, finished
<1>4. /\ Tail(stages) \in Seq(Stages) /\ Len(Tail(stages)) = Len(stages) - 1
      /\ \A k \in 1 .. Len(Tail(stages)) : Tail(stages)[k] = stages[k + 1]
  BY <1>2, HeadTailProperties
<1>5. TypeOK'
  BY <1>1, <1>3, <1>4, ConstantsAssumption DEF IInv, TypeOK, Stages
<1>6. Passed' = Passed + 1 /\ Passed + 1 \in 0 .. Len(program(call))
  BY <1>1, <1>2, <1>3, <1>4 DEF Passed
<1> HIDE DEF Passed
<1>7. Followed'
  <2>1. ASSUME NEW k \in 1 .. Len(Tail(stages))
        PROVE  Tail(stages)[k] = program(call)[Passed + 1 + k]
    <3>1. k + 1 \in 1 .. Len(stages) /\ Passed + (k + 1) = Passed + 1 + k
      BY <1>2, <1>4
    <3>2. stages[k + 1] = program(call)[Passed + (k + 1)]
      BY <1>1, <3>1 DEF IInv, SameSizeInv, Followed
    <3> QED
      BY <1>4, <3>1, <3>2
  <2>2. ASSUME NEW i \in 1 .. Len(call.first)
        PROVE  done[i] = Seen(call, i, Passed + 1) /\ ~(i <= 0)
    <3>1. i <= index
      BY <1>2
    <3> QED
      BY <1>1, <3>1 DEF IInv, SameSizeInv, Followed
  <2> QED
    BY <1>1, <1>3, <1>6, <2>1, <2>2 DEF Followed
<1>8. call.operation = "job_results" => call.first = call.second
  <2> SUFFICES ASSUME call.operation = "job_results" PROVE call.first = call.second
    OBVIOUS
  <2>1. \A i \in 1 .. Len(call.first) : call.first[i] = call.second[i]
    BY <1>1, <1>2 DEF IInv, SameSizeInv
  <2>2. call.first \in Seq(Ids) /\ call.second \in Seq(Ids)
    BY <1>2, CallType
  <2> QED
    BY <1>2, <2>1, <2>2, SeqEqual
<1>9. SameSizeInv'
  BY <1>1, <1>2, <1>3, <1>7, <1>8 DEF IInv, SameSizeInv
<1> QED
  BY <1>5, <1>9 DEF IInv

LEMMA ConsumeKeeps == ASSUME IInv, Consume PROVE IInv'
<1>1. call' = NoCall /\ pair' = Nullopt /\ index' = 0 /\ done' = << >> /\ result' = "idle"
  BY DEF Consume
<1>2. stages' = << >>
  BY DEF IInv, TypeOK, Consume, Stages
<1>3. done' \in [1 .. Len(call'.first) -> Seq(Stages)]
  BY <1>1, NoCallIsCall
<1>4. TypeOK'
  BY <1>1, <1>2, <1>3, NoCallIsCall, ConstantsAssumption DEF TypeOK, Stages
<1> QED
  BY <1>1, <1>4 DEF IInv, SameSizeInv

LEMMA StepKeeps == IInv /\ [Next]_vars => IInv'
<1> SUFFICES ASSUME IInv, [Next]_vars PROVE IInv'
  OBVIOUS
<1>1. CASE UNCHANGED vars
  BY <1>1 DEF vars, IInv, TypeOK, SameSizeInv, Followed, Passed
<1> QED
  BY <1>1, BeginKeeps, IterateKeeps, StageEndsKeeps, ConsumeKeeps DEF Next

LEMMA Invariant == ExamplesSpec => []IInv
<1>1. ExamplesInit => IInv
  BY Initially DEF ExamplesInit
<1>2. IInv /\ [ExamplesNext]_ExamplesVars => IInv'
  BY StepKeeps DEF ExamplesNext, ExamplesVars
<1> QED
  BY <1>1, <1>2, PTL DEF ExamplesSpec

\* Types are as declared, in every state of every instance.
THEOREM TypeCorrect == ExamplesSpec => []TypeOK
<1>1. IInv => TypeOK
  BY DEF IInv
<1> QED
  BY <1>1, Invariant, PTL

\* No loop of dot_product, process_in_stages, apply_weighted_mask or job_results indexes a
\* span outside of it, though it asks the first span, or the pair, for the size of all.
THEOREM IndicesAreInBounds == ExamplesSpec => []IndexInBounds
<1>1. IInv => IndexInBounds
  <2> SUFFICES ASSUME IInv, result = "running", index < bound
               PROVE  /\ index < Len(call.first)
                      /\ \A s \in others(Head(stages)) : index < Len(call[s])
    BY DEF IndexInBounds
  <2>1. /\ index < Len(call.first) /\ Len(call.second) = Len(call.first)
        /\ Head(stages) = "apply_weighted_mask" => Len(call.mask) = Len(call.first)
    BY Running
  <2>2. \A s \in others(Head(stages)) :
          s = "second" \/ (s = "mask" /\ Head(stages) = "apply_weighted_mask")
    BY DEF others
  <2> QED
    BY <2>1, <2>2
<1> QED
  BY <1>1, Invariant, PTL

\* An operation succeeds exactly for spans of one size, job_results for corresponding ones
\* only, and then every element has been through every stage, in the order of the program.
THEOREM VerdictsAreRight == ExamplesSpec => []VerdictRight
<1>1. IInv => VerdictRight
  <2> SUFFICES ASSUME IInv PROVE VerdictRight
    OBVIOUS
  <2>1. call \in Calls
    BY DEF IInv, TypeOK
  <2> DEFINE sized == /\ Len(call.first) = Len(call.second)
                      /\ call.operation = "apply_weighted_mask" => Len(call.mask) = Len(call.first)
             matched == call.operation = "job_results" => call.first = call.second
             seen(i) == CASE call.operation = "process_in_stages" ->
                               <<"normalize", "transform", "emit">>
                          [] call.operation = "apply_weighted_mask" /\ ~call.mask[i] -> << >>
                          [] OTHER -> <<call.operation>>
  <2>2. valid(call) <=> sized
    BY <2>1, ValidIs
  <2>3. result = "failed" => ~(sized /\ matched)
    BY <2>2 DEF IInv, SameSizeInv
  <2>4. result = "succeeded" => sized /\ matched
    BY <2>2 DEF IInv, SameSizeInv
  <2>5. ASSUME result = "succeeded", NEW i \in 1 .. Len(call.first)
        PROVE  done[i] = seen(i)
    <3>1. /\ Len(program(call)) \in {1, 3} /\ program(call) \in Seq(Stages)
          /\ stages = << >> /\ index = 0 /\ Followed
      BY <2>1, <2>5, ProgramIs DEF IInv, SameSizeInv
    <3>2. Passed = Len(program(call))
      BY <3>1 DEF Passed
    <3>3. done[i] = Seen(call, i, Len(program(call)))
      BY <3>1, <3>2 DEF Followed
    <3>4. SubSeq(program(call), 1, Len(program(call))) = program(call)
      BY <3>1
    <3>5. program(call) = IF call.operation = "process_in_stages"
                            THEN <<"normalize", "transform", "emit">> ELSE <<call.operation>>
      BY DEF program
    <3> QED
      BY <3>3, <3>4, <3>5 DEF Seen
  <2> HIDE DEF sized, matched, seen
  <2>6. VerdictRight <=> /\ result = "succeeded" => /\ sized /\ matched
                                                    /\ \A i \in 1 .. Len(call.first) : done[i] = seen(i)
                         /\ result = "failed" => ~(sized /\ matched)
    BY DEF VerdictRight, sized, matched, seen
  <2> QED
    BY <2>3, <2>4, <2>5, <2>6
<1> QED
  BY <1>1, Invariant, PTL

-----------------------------------------------------------------------------
(* BlockIterator.  A position stays on the range it was obtained from, and *)
(* the loop has summed up the elements of the blocks before its position.  *)

\* The first k elements of a view.
FirstElements(v, k) == [i \in 1 .. k |-> v.data + i - 1]

OnRange(p, v) == p.base = v.data /\ p.index \in 0 .. count(v)
CursorsOnRange == \A c \in Cursors : OnRange(it[c], range[c])
LoopOnRange ==
  /\ OnRange(loop.at, loop.range)
  /\ loop.last = end(loop.range)
  /\ loop.summed = FirstElements(loop.range, loop.at.index * N)

IteratorInv == IteratorTypeOK /\ CursorsOnRange /\ LoopOnRange

LEMMA ViewIs ==
  ASSUME NEW v \in View
  PROVE  /\ v.data \in Bases \cup {0} /\ v.data \in Nat /\ v.size \in Nat
         /\ count(v) \in 0 .. MaxCount /\ v.size = count(v) * N
<1>0. N \in Nat \ {0} /\ MaxCount \in Nat /\ Bases \subseteq Nat
  BY IteratorAssumption
<1>1. PICK n \in 0 .. MaxCount : v.size = n * N
  <2>1. CASE v = NullView
    <3>1. v.size = 0 * N /\ 0 \in 0 .. MaxCount
      BY <1>0, <2>1 DEF NullView
    <3> QED
      BY <3>1
  <2>2. CASE v # NullView
    BY <2>2 DEF View
  <2> QED
    BY <2>1, <2>2
<1>2. n \in Nat /\ n * N \in Nat
  BY <1>0
<1>3. (n * N) \div N = n
  BY <1>0, <1>2
<1>4. v.data \in Bases \cup {0} /\ v.data \in Nat
  <2>1. Bases \cup {0} \subseteq Nat
    BY <1>0
  <2>2. v.data \in Bases \cup {0}
    BY DEF View, NullView
  <2> QED
    BY <2>1, <2>2
<1>5. count(v) = n
  BY <1>1, <1>3 DEF count
<1> QED
  BY <1>1, <1>2, <1>4, <1>5

\* The elements of the first blocks, and those of the next one.
LEMMA FirstIs ==
  ASSUME NEW v \in View, NEW a \in Nat
  PROVE  /\ FirstElements(v, a) \in Seq(Nat) /\ Len(FirstElements(v, a)) = a
         /\ \A i \in 1 .. a : FirstElements(v, a)[i] = v.data + i - 1
<1>1. v.data \in Nat
  BY ViewIs
<1> QED
  BY <1>1 DEF FirstElements

LEMMA FirstGrows ==
  ASSUME NEW v \in View, NEW a \in Nat, NEW n \in Nat
  PROVE  FirstElements(v, a) \o [i \in 1 .. n |-> v.data + a + i - 1] = FirstElements(v, a + n)
<1> DEFINE F == FirstElements(v, a)
           B == [i \in 1 .. n |-> v.data + a + i - 1]
           G == FirstElements(v, a + n)
<1>1. v.data \in Nat /\ a + n \in Nat
  BY ViewIs
<1>2. F \in Seq(Nat) /\ Len(F) = a /\ \A i \in 1 .. a : F[i] = v.data + i - 1
  BY FirstIs
<1>3. G \in Seq(Nat) /\ Len(G) = a + n /\ \A i \in 1 .. a + n : G[i] = v.data + i - 1
  BY <1>1, FirstIs
<1>4. B \in Seq(Nat) /\ Len(B) = n /\ \A i \in 1 .. n : B[i] = v.data + a + i - 1
  BY <1>1
<1> HIDE DEF F, B, G
<1>5. F \o B \in Seq(Nat) /\ Len(F \o B) = a + n
  BY <1>2, <1>4, ConcatProperties
<1>6. ASSUME NEW i \in 1 .. a + n PROVE (F \o B)[i] = G[i]
  <2>1. CASE i <= a
    <3>1. (F \o B)[i] = F[i]
      BY <1>2, <1>4, <2>1
    <3> QED
      BY <1>2, <1>3, <2>1, <3>1
  <2>2. CASE ~(i <= a)
    <3>1. (F \o B)[i] = B[i - a]
      BY <1>2, <1>4, <2>2
    <3>2. i - a \in 1 .. n /\ v.data + a + (i - a) - 1 = v.data + i - 1
      BY <1>1, <2>2
    <3> QED
      BY <1>3, <1>4, <3>1, <3>2
  <2> QED
    BY <2>1, <2>2
<1>7. F \o B = G
  BY <1>3, <1>5, <1>6, SeqEqual
<1> QED
  BY <1>7 DEF F, B, G

\* Blocks of a view lie inside it, in the order of their indices and apart.
LEMMA BlockBounds ==
  ASSUME NEW m \in Nat, NEW i \in 0 .. m - 1
  PROVE  i * N \in Nat /\ m * N \in Nat /\ i * N + N <= m * N
<1>0. N \in Nat \ {0}
  BY IteratorAssumption
<1>1. m - (i + 1) \in Nat /\ i \in Nat
  OBVIOUS
<1>2. (m - (i + 1)) * N \in Nat /\ i * N \in Nat /\ m * N \in Nat
  BY <1>0, <1>1
<1>3. (m - (i + 1)) * N = m * N - (i * N + N)
  BY <1>0, <1>1
<1> QED
  BY <1>0, <1>2, <1>3

LEMMA BeginEnd ==
  ASSUME NEW v \in View
  PROVE  /\ OnRange(begin(v), v) /\ OnRange(end(v), v)
         /\ begin(v) \in [base : Bases \cup {0}, index : 0 .. MaxCount]
         /\ end(v) \in [base : Bases \cup {0}, index : 0 .. MaxCount]
         /\ begin(v).index = 0 /\ end(v).index = count(v)
<1>1. v.data \in Bases \cup {0} /\ count(v) \in 0 .. MaxCount /\ MaxCount \in Nat
  BY ViewIs, IteratorAssumption
<1> HIDE DEF count
<1> QED
  BY <1>1 DEF begin, end, position, OnRange

LEMMA IteratorInitially == IteratorInit => IteratorInv
<1> SUFFICES ASSUME IteratorInit PROVE IteratorInv
  OBVIOUS
<1>1. NullView \in View
  BY DEF View
<1>2. /\ OnRange(begin(NullView), NullView)
      /\ begin(NullView) \in [base : Bases \cup {0}, index : 0 .. MaxCount]
      /\ end(NullView) \in [base : Bases \cup {0}, index : 0 .. MaxCount]
      /\ begin(NullView).index = 0
  BY <1>1, BeginEnd
<1>3. position(0, 0) = begin(NullView)
  BY DEF begin, NullView
<1>4. IteratorTypeOK
  BY <1>1, <1>2, <1>3 DEF IteratorInit, IteratorTypeOK, Idle
<1>5. CursorsOnRange
  BY <1>2, <1>3 DEF IteratorInit, CursorsOnRange
<1>6. LoopOnRange
  <2>1. FirstElements(NullView, 0 * N) = << >>
    <3>1. 0 * N = 0
      BY IteratorAssumption
    <3> QED
      BY <3>1 DEF FirstElements
  <2> QED
    BY <1>2, <2>1 DEF IteratorInit, Idle, LoopOnRange
<1> QED
  BY <1>4, <1>5, <1>6 DEF IteratorInv

\* Putting a position of some view into a cursor, with that view.
LEMMA PlaceKeeps ==
  ASSUME IteratorInv, NEW c \in Cursors, NEW v \in View, NEW p, OnRange(p, v),
         p \in [base : Bases \cup {0}, index : 0 .. MaxCount], Place(c, p, v)
  PROVE  IteratorInv'
<1>1. CursorsOnRange'
  <2> SUFFICES ASSUME NEW d \in Cursors PROVE OnRange(it'[d], range'[d])
    BY DEF CursorsOnRange, OnRange, count
  <2>1. it'[d] = IF d = c THEN p ELSE it[d]
    BY DEF Place, IteratorInv, IteratorTypeOK
  <2>2. range'[d] = IF d = c THEN v ELSE range[d]
    BY DEF Place, IteratorInv, IteratorTypeOK
  <2> QED
    BY <2>1, <2>2 DEF IteratorInv, CursorsOnRange
<1> QED
  BY <1>1 DEF IteratorInv, IteratorTypeOK, LoopOnRange, Place

\* A position that stays on its range is one of it.
LEMMA MovedOnRange ==
  ASSUME IteratorInv, NEW c \in Cursors, NEW offset \in Int, Valid(c, offset)
  PROVE  /\ range[c] \in View
         /\ OnRange(plus(it[c], offset), range[c])
         /\ plus(it[c], offset) \in [base : Bases \cup {0}, index : 0 .. MaxCount]
<1>1. /\ range[c] \in View
      /\ it[c] \in [base : Bases \cup {0}, index : 0 .. MaxCount]
      /\ OnRange(it[c], range[c])
  BY DEF IteratorInv, IteratorTypeOK, CursorsOnRange
<1>2. count(range[c]) \in 0 .. MaxCount /\ MaxCount \in Nat
  BY <1>1, ViewIs, IteratorAssumption
<1> QED
  BY <1>1, <1>2 DEF Valid, plus, position, OnRange

LEMMA PlusKeeps ==
  ASSUME IteratorInv, NEW c \in Cursors, NEW offset \in Int, PlusAssign(c, offset)
  PROVE  IteratorInv'
BY MovedOnRange, PlaceKeeps DEF PlusAssign

LEMMA MinusKeeps ==
  ASSUME IteratorInv, NEW c \in Cursors, NEW offset \in Int, MinusAssign(c, offset)
  PROVE  IteratorInv'
<1>1. minus(it[c], offset) = plus(it[c], -offset)
  <2>1. it[c].index \in Int
    BY IteratorAssumption DEF IteratorInv, IteratorTypeOK
  <2> QED
    BY <2>1 DEF minus, plus
<1>2. Valid(c, -offset) /\ Place(c, plus(it[c], -offset), range[c])
  BY <1>1 DEF MinusAssign
<1>3. -offset \in Int
  OBVIOUS
<1> QED
  BY <1>2, <1>3, MovedOnRange, PlaceKeeps

LEMMA PostMoveKeeps ==
  ASSUME IteratorInv, NEW c \in Cursors, NEW d \in Cursors, NEW offset \in Int,
         PostMove(c, d, offset)
  PROVE  IteratorInv'
<1>1. /\ OnRange(plus(it[c], offset), range[c])
      /\ plus(it[c], offset) \in [base : Bases \cup {0}, index : 0 .. MaxCount]
  BY MovedOnRange DEF PostMove
<1>2. /\ it' = [it EXCEPT ![c] = plus(it[c], offset), ![d] = it[c]]
      /\ range' = [range EXCEPT ![d] = range[c]] /\ c # d
      /\ blocks' = blocks /\ loop' = loop
  BY DEF PostMove
<1>3. IteratorTypeOK /\ CursorsOnRange /\ LoopOnRange
  BY DEF IteratorInv
<1> HIDE DEF plus
<1>4. IteratorTypeOK'
  BY <1>1, <1>2, <1>3 DEF IteratorTypeOK
<1>5. CursorsOnRange'
  <2> SUFFICES ASSUME NEW e \in Cursors PROVE OnRange(it'[e], range'[e])
    BY DEF CursorsOnRange, OnRange, count
  <2>1. it'[e] = IF e = d THEN it[c] ELSE IF e = c THEN plus(it[c], offset) ELSE it[e]
    BY <1>2, <1>3 DEF IteratorTypeOK
  <2>2. range'[e] = IF e = d THEN range[c] ELSE range[e]
    BY <1>2, <1>3 DEF IteratorTypeOK
  <2> QED
    BY <1>1, <1>2, <1>3, <2>1, <2>2 DEF CursorsOnRange
<1> QED
  BY <1>2, <1>3, <1>4, <1>5 DEF IteratorInv, LoopOnRange

LEMMA EnterKeeps == ASSUME IteratorInv, Enter PROVE IteratorInv'
<1>1. blocks \in View
  BY DEF IteratorInv, IteratorTypeOK
<1>2. /\ OnRange(begin(blocks), blocks)
      /\ begin(blocks) \in [base : Bases \cup {0}, index : 0 .. MaxCount]
      /\ end(blocks) \in [base : Bases \cup {0}, index : 0 .. MaxCount]
      /\ begin(blocks).index = 0
  BY <1>1, BeginEnd
<1>3. loop' = [range |-> blocks, at |-> begin(blocks), last |-> end(blocks), summed |-> << >>]
      /\ UNCHANGED <<blocks, it, range>>
  BY DEF Enter
<1>4. FirstElements(blocks, 0 * N) = << >>
  <2>1. 0 * N = 0
    BY IteratorAssumption
  <2> QED
    BY <2>1 DEF FirstElements
<1>5. LoopOnRange'
  <2>1. /\ loop'.range = blocks /\ loop'.at = begin(blocks) /\ loop'.last = end(blocks)
        /\ loop'.summed = << >>
    BY <1>3
  <2> QED
    BY <1>2, <1>4, <2>1 DEF LoopOnRange, OnRange, FirstElements, count, end
<1>6. IteratorTypeOK'
  <2>1. << >> \in Seq(Nat)
    OBVIOUS
  <2> QED
    BY <1>1, <1>2, <1>3, <2>1 DEF IteratorInv, IteratorTypeOK
<1> QED
  BY <1>3, <1>5, <1>6 DEF IteratorInv, CursorsOnRange

LEMMA SumBlockKeeps == ASSUME IteratorInv, SumBlock PROVE IteratorInv'
<1> DEFINE v == loop.range
           k == loop.at.index
           Block == [i \in 1 .. N |-> v.data + k * N + i - 1]
<1>1. /\ v \in View /\ loop.at.base = v.data /\ k \in 0 .. count(v) /\ loop.last = end(v)
      /\ loop.at \in [base : Bases \cup {0}, index : 0 .. MaxCount]
      /\ loop.summed = FirstElements(v, k * N)
      /\ loop \in [range : View, at : [base : Bases \cup {0}, index : 0 .. MaxCount],
                   last : [base : Bases \cup {0}, index : 0 .. MaxCount], summed : Seq(Nat)]
  BY DEF IteratorInv, IteratorTypeOK, LoopOnRange, OnRange
<1>2. /\ count(v) \in 0 .. MaxCount /\ MaxCount \in Nat /\ N \in Nat \ {0} /\ v.data \in Nat
      /\ k \in Nat
  BY <1>1, ViewIs, IteratorAssumption
<1>3. k # count(v)
  <2>1. loop.at # end(v)
    BY <1>1 DEF SumBlock
  <2> QED
    BY <1>1, <2>1 DEF end, position
<1>4. k + 1 \in 0 .. count(v)
  BY <1>1, <1>2, <1>3
<1>5. plus(loop.at, 1) = [base |-> v.data, index |-> k + 1]
  BY <1>1 DEF plus, position
<1>6. /\ loop' = [loop EXCEPT !.at = plus(loop.at, 1), !.summed = loop.summed \o Block]
      /\ UNCHANGED <<blocks, it, range>>
  BY <1>1 DEF SumBlock, dereference
<1>7. k * N \in Nat /\ (k + 1) * N = k * N + N
  BY <1>2
<1>8. FirstElements(v, k * N) \o Block = FirstElements(v, (k + 1) * N)
  <2>1. FirstElements(v, k * N) \o [i \in 1 .. N |-> v.data + k * N + i - 1]
          = FirstElements(v, k * N + N)
    <3> HIDE DEF v, k
    <3> QED
      BY <1>1, <1>2, <1>7, FirstGrows
  <2> QED
    BY <1>7, <2>1
<1> HIDE DEF Block
<1>9. loop' = [range |-> v, at |-> [base |-> v.data, index |-> k + 1], last |-> end(v),
               summed |-> FirstElements(v, (k + 1) * N)]
  BY <1>1, <1>5, <1>6, <1>8
<1>10. FirstElements(v, (k + 1) * N) \in Seq(Nat)
  <2>1. (k + 1) * N \in Nat
    BY <1>2
  <2> QED
    BY <1>1, <2>1, FirstIs
<1>11. LoopOnRange'
  <2>1. /\ loop'.range = v /\ loop'.at.base = v.data /\ loop'.at.index = k + 1
        /\ loop'.last = end(v) /\ loop'.summed = FirstElements(v, (k + 1) * N)
    BY <1>9
  <2> HIDE DEF v, k
  <2> QED
    BY <1>4, <2>1 DEF LoopOnRange, OnRange, FirstElements, count, end
<1>12. IteratorTypeOK'
  <2>1. k + 1 \in 0 .. MaxCount /\ v.data \in Bases \cup {0}
    BY <1>1, <1>2, <1>4
  <2>2. end(v) \in [base : Bases \cup {0}, index : 0 .. MaxCount]
    BY <1>1
  <2>3. loop' \in [range : View, at : [base : Bases \cup {0}, index : 0 .. MaxCount],
                   last : [base : Bases \cup {0}, index : 0 .. MaxCount], summed : Seq(Nat)]
    <3> HIDE DEF v, k
    <3> QED
      BY <1>1, <1>9, <1>10, <2>1, <2>2
  <2> QED
    BY <1>6, <2>3 DEF IteratorInv, IteratorTypeOK
<1> QED
  BY <1>6, <1>11, <1>12 DEF IteratorInv, CursorsOnRange

LEMMA IteratorStepKeeps == IteratorInv /\ [IteratorNext]_IteratorVars => IteratorInv'
<1> SUFFICES ASSUME IteratorInv, [IteratorNext]_IteratorVars PROVE IteratorInv'
  OBVIOUS
<1>0. IteratorTypeOK /\ CursorsOnRange /\ LoopOnRange
  BY DEF IteratorInv
<1>1. ASSUME NEW v \in View, Assign(v) PROVE IteratorInv'
  BY <1>0, <1>1 DEF Assign, IteratorInv, IteratorTypeOK, CursorsOnRange, LoopOnRange
<1>2. ASSUME NEW c \in Cursors, TakeBegin(c) \/ TakeEnd(c) PROVE IteratorInv'
  BY <1>0, <1>2, BeginEnd, PlaceKeeps DEF TakeBegin, TakeEnd, IteratorTypeOK
<1>3. ASSUME NEW c \in Cursors, Move(c) PROVE IteratorInv'
  <2>1. 1 \in Int /\ \A offset \in -MaxCount .. MaxCount : offset \in Int
    BY IteratorAssumption
  <2> QED
    BY <1>2, <1>3, <2>1, PlusKeeps, MinusKeeps DEF Move, Increment, Decrement
<1>4. ASSUME NEW c \in Cursors, NEW d \in Cursors, Copy(c, d) PROVE IteratorInv'
  <2>1. /\ range[d] \in View /\ OnRange(it[d], range[d])
        /\ it[d] \in [base : Bases \cup {0}, index : 0 .. MaxCount]
    BY <1>0 DEF IteratorTypeOK, CursorsOnRange
  <2> QED
    BY <1>4, <2>1, PlaceKeeps DEF Copy
<1>5. ASSUME NEW c \in Cursors, NEW d \in Cursors, PostIncrement(c, d) \/ PostDecrement(c, d)
      PROVE  IteratorInv'
  <2>1. 1 \in Int /\ -1 \in Int
    OBVIOUS
  <2> QED
    BY <1>5, <2>1, PostMoveKeeps DEF PostIncrement, PostDecrement
<1>6. CASE UNCHANGED IteratorVars
  BY <1>0, <1>6 DEF IteratorVars, IteratorInv, IteratorTypeOK, CursorsOnRange, LoopOnRange
<1> QED
  BY <1>1, <1>3, <1>4, <1>5, <1>6, EnterKeeps, SumBlockKeeps DEF IteratorNext

LEMMA IteratorInvariant == ExamplesSpec => []IteratorInv
<1>1. ExamplesInit => IteratorInv
  BY IteratorInitially DEF ExamplesInit
<1>2. IteratorInv /\ [ExamplesNext]_ExamplesVars => IteratorInv'
  BY IteratorStepKeeps DEF ExamplesNext, ExamplesVars
<1> QED
  BY <1>1, <1>2, PTL DEF ExamplesSpec

\* Iterators keep to the base and the block indices of their ranges, and the
\* loop over the blocks to its own.
THEOREM IteratorTypeCorrect == ExamplesSpec => []IteratorTypeOK
<1>1. IteratorInv => IteratorTypeOK
  BY DEF IteratorInv
<1> QED BY <1>1, IteratorInvariant, PTL

\* The blocks of every size and number: wherever an iterator is moved on its
\* range, it reaches the block that operator[] of its block_span returned, and
\* iterators of one base compare, and differ, as the addresses do.
THEOREM PositionsAreConsistent == ExamplesSpec => []PositionsConsistent
<1>1. ASSUME IteratorInv PROVE PositionsConsistent
  <2>0. /\ N \in Nat \ {0} /\ MaxCount \in Nat
        /\ \A c \in Cursors : /\ range[c] \in View /\ OnRange(it[c], range[c])
                              /\ it[c] \in [base : Bases \cup {0}, index : 0 .. MaxCount]
    BY <1>1, IteratorAssumption DEF IteratorInv, IteratorTypeOK, CursorsOnRange
  <2>1. PositionsDenoteBlocks
    <3> SUFFICES ASSUME NEW c \in Cursors, NEW n \in 0 .. count(range[c]) - 1
                 PROVE  /\ subscript(it[c], n - it[c].index) = block(range[c], n)
                        /\ Elements(block(range[c], n)) \subseteq Elements(range[c])
      BY Zenon DEF PositionsDenoteBlocks
    <3>1. /\ count(range[c]) \in Nat /\ range[c].data \in Nat
          /\ range[c].size = count(range[c]) * N
          /\ it[c].index \in Nat /\ it[c].base = range[c].data /\ n \in Nat
      BY <2>0, ViewIs DEF OnRange
    <3>2. it[c].index + (n - it[c].index) = n
      BY <3>1
    <3>3. subscript(it[c], n - it[c].index) = block(range[c], n)
      BY <3>1, <3>2 DEF subscript, dereference, plus, position, block
    <3>4. n * N \in Nat /\ n * N + N <= range[c].size
      BY <3>1, BlockBounds
    <3>5. /\ block(range[c], n).data = range[c].data + n * N
          /\ block(range[c], n).size = N
      BY DEF block
    <3>6. Elements(block(range[c], n)) \subseteq Elements(range[c])
      <4> DEFINE a == n * N
                 z == range[c].size
                 s == range[c].data
      <4>1. a \in Nat /\ a + N <= z /\ s \in Nat /\ z \in Int
        BY <2>0, <3>1, <3>4, ViewIs
      <4>2. Elements(block(range[c], n)) = s + a .. s + a + N - 1
        BY <3>5 DEF Elements
      <4>3. Elements(range[c]) = s .. s + z - 1
        BY DEF Elements
      <4> HIDE DEF a, z, s
      <4> QED
        BY <2>0, <4>1, <4>2, <4>3
    <3> QED
      BY <3>3, <3>6
  <2>2. PositionsAgree
    <3> SUFFICES ASSUME NEW c \in Cursors, NEW d \in Cursors, it[c].base = it[d].base
                 PROVE  /\ it[c] = it[d] <=> distance(it[c], it[d]) = 0
                        /\ less(it[c], it[d]) <=>
                             dereference(it[c]).data < dereference(it[d]).data
                        /\ plus(it[c], distance(it[d], it[c])) = it[d]
                        /\ minus(it[d], distance(it[d], it[c])) = it[c]
      BY DEF PositionsAgree
    <3> DEFINE s == it[c].base
               i == it[c].index
               j == it[d].index
    <3>0. /\ it[c] \in [base : Bases \cup {0}, index : 0 .. MaxCount]
          /\ it[d] \in [base : Bases \cup {0}, index : 0 .. MaxCount]
          /\ Bases \cup {0} \subseteq Nat /\ 0 .. MaxCount \subseteq Nat
      BY <2>0, IteratorAssumption
    <3>1. /\ it[c] = [base |-> s, index |-> i] /\ it[d] = [base |-> s, index |-> j]
          /\ s \in Nat /\ i \in Nat /\ j \in Nat
      BY <3>0
    <3> HIDE DEF s, i, j
    <3>2. it[c] = it[d] <=> distance(it[c], it[d]) = 0
      BY <3>1 DEF distance
    <3>3. plus(it[c], distance(it[d], it[c])) = it[d]
          /\ minus(it[d], distance(it[d], it[c])) = it[c]
      BY <3>1 DEF distance, plus, minus, position
    <3>4. less(it[c], it[d]) <=> i < j
      BY <3>1 DEF less
    <3>5. dereference(it[c]).data = s + i * N /\ dereference(it[d]).data = s + j * N
      BY <3>1 DEF dereference
    <3>6. i < j <=> s + i * N < s + j * N
      <4>1. i * N \in Nat /\ j * N \in Nat
        BY <2>0, <3>1
      <4>2. i < j => i * N + N <= j * N
        <5>1. i < j => i \in 0 .. j - 1
          BY <3>1
        <5> QED
          BY <3>1, <5>1, BlockBounds
      <4>3. j < i => j * N + N <= i * N
        <5>1. j < i => j \in 0 .. i - 1
          BY <3>1
        <5> QED
          BY <3>1, <5>1, BlockBounds
      <4>4. i = j => i * N = j * N
        OBVIOUS
      <4> DEFINE a == i * N
                 b == j * N
      <4>5. a \in Nat /\ b \in Nat /\ (i < j => a + N <= b) /\ (j < i => b + N <= a)
            /\ (i = j => a = b)
        BY <4>1, <4>2, <4>3, <4>4
      <4> HIDE DEF a, b
      <4>6. i < j <=> s + a < s + b
        BY <2>0, <3>1, <4>5
      <4> QED
        BY <4>6 DEF a, b
    <3> QED
      BY <3>2, <3>3, <3>4, <3>5, <3>6
  <2> QED
    BY <2>1, <2>2 DEF PositionsConsistent
<1> QED BY <1>1, IteratorInvariant, PTL

\* The range-for loop of checksum_blocks() sums up each element of its blocks
\* once and in order, for blocks of every size.
THEOREM EachElementIsSummedOnce == ExamplesSpec => []EachElementOnce
<1>1. ASSUME IteratorInv PROVE EachElementOnce
  <2> SUFFICES ASSUME loop.at = loop.last
               PROVE  loop.summed = FirstElements(loop.range, loop.range.size)
    BY DEF EachElementOnce, FirstElements
  <2>1. /\ loop.range \in View /\ loop.last = end(loop.range)
        /\ loop.summed = FirstElements(loop.range, loop.at.index * N)
    BY <1>1 DEF IteratorInv, IteratorTypeOK, LoopOnRange
  <2>2. loop.at.index = count(loop.range)
    BY <2>1 DEF end, position
  <2>3. loop.range.size = count(loop.range) * N
    BY <2>1, ViewIs
  <2> QED
    BY <2>1, <2>2, <2>3
<1> QED BY <1>1, IteratorInvariant, PTL

-----------------------------------------------------------------------------
(* Loops.  Consumers' functions take a loop's state through its iterations.*)

LEMMA Reaches ==
  ASSUME NEW m \in Nat, NEW S, 0 \in S, \A n \in 1 .. m : n - 1 \in S => n \in S
  PROVE  0 .. m \subseteq S
<1> DEFINE Less == OpToRel(<, Nat)
           Missed == (0 .. m) \ S
<1> SUFFICES ASSUME Missed # {} PROVE FALSE
  OBVIOUS
<1>1. IsWellFoundedOn(Less, Nat)
  BY NatLessThanWellFounded
<1>2. \A x, y \in Nat : x < y => <<x, y>> \in Less
  BY DEF OpToRel
<1>3. Missed \subseteq Nat
  OBVIOUS
<1> HIDE DEF Less, Missed
<1>4. PICK n \in Missed : \A x \in Missed : <<x, n>> \notin Less
  BY <1>1, <1>3, WFMin
<1>5. n \in 0 .. m /\ n \notin S /\ n # 0
  BY DEF Missed
<1>6. n \in 1 .. m /\ n - 1 \in Nat /\ n - 1 < n /\ n - 1 \in 0 .. m /\ n \in Nat
  BY <1>5
<1>7. n - 1 \notin Missed
  BY <1>2, <1>4, <1>6
<1> QED
  BY <1>5, <1>6, <1>7 DEF Missed

\* A loop of m iterations over a state in S: iteration n takes x to step[n][x].
Iterations(m, S, step) == \A n \in 1 .. m : \A x \in S : step[n][x] \in S
LoopOf(m, S, first, step, f) ==
  f \in [0 .. m -> S] /\ f[0] = first /\ \A n \in 1 .. m : f[n] = step[n][f[n - 1]]

LEMMA LoopExists ==
  ASSUME NEW m \in Nat, NEW S, NEW first \in S, NEW step, Iterations(m, S, step)
  PROVE  \E f : LoopOf(m, S, first, step, f)
<1> DEFINE Runs(k, f) == f[0] = first /\ \A n \in 1 .. k : f[n] = step[n][f[n - 1]]
           Reached == {k \in 0 .. m : \E f \in [0 .. k -> S] : Runs(k, f)}
<1>1. 0 \in Reached
  <2> DEFINE f == [n \in 0 .. 0 |-> first]
  <2>1. f \in [0 .. 0 -> S] /\ Runs(0, f)
    OBVIOUS
  <2> HIDE DEF f, Runs
  <2> QED
    BY <2>1
<1>2. ASSUME NEW k \in 1 .. m, k - 1 \in Reached PROVE k \in Reached
  <2>1. PICK f \in [0 .. k - 1 -> S] : Runs(k - 1, f)
    BY <1>2
  <2> DEFINE last == step[k][f[k - 1]]
             g == [n \in 0 .. k |-> IF n = k THEN last ELSE f[n]]
  <2>2. last \in S
    <3>1. k - 1 \in 0 .. k - 1 /\ f[k - 1] \in S
      OBVIOUS
    <3> QED
      BY <3>1 DEF Iterations
  <2>3. g \in [0 .. k -> S]
    <3> HIDE DEF last
    <3> QED
      BY <2>2
  <2>4. g[0] = first
    BY <2>1
  <2>5. ASSUME NEW n \in 1 .. k PROVE g[n] = step[n][g[n - 1]]
    <3>1. n - 1 \in 0 .. k /\ n - 1 # k /\ g[n - 1] = f[n - 1]
      OBVIOUS
    <3>2. CASE n = k
      BY <3>1, <3>2
    <3>3. CASE n # k
      BY <2>1, <3>1, <3>3
    <3> QED
      BY <3>2, <3>3
  <2> HIDE DEF g
  <2> QED
    BY <2>3, <2>4, <2>5
<1> HIDE DEF Reached
<1>3. 0 .. m \subseteq Reached
  BY <1>1, <1>2, Reaches
<1>4. m \in 0 .. m
  OBVIOUS
<1> QED
  BY <1>3, <1>4 DEF Reached, LoopOf

LEMMA LoopIs ==
  ASSUME NEW m \in Nat, NEW S, NEW first \in S, NEW step, Iterations(m, S, step), NEW r,
         r = [n \in 0 .. m |-> r[n]], r[0] = first,
         \A n \in 1 .. m : r[n - 1] \in S => r[n] = step[n][r[n - 1]]
  PROVE  LoopOf(m, S, first, step, r)
<1> DEFINE Known == {n \in 0 .. m : r[n] \in S}
<1>1. 0 \in Known
  OBVIOUS
<1>2. ASSUME NEW n \in 1 .. m, n - 1 \in Known PROVE n \in Known
  BY <1>2 DEF Iterations
<1> HIDE DEF Known
<1>3. 0 .. m \subseteq Known
  BY <1>1, <1>2, Reaches
<1>4. \A n \in 0 .. m : r[n] \in S
  BY <1>3 DEF Known
<1>5. r \in [0 .. m -> S]
  BY <1>4
<1>6. \A n \in 1 .. m : n - 1 \in 0 .. m
  OBVIOUS
<1> QED
  BY <1>4, <1>5, <1>6 DEF LoopOf

\* What the recursive functions compute, iteration by iteration.
LEMMA RunningIs ==
  ASSUME NEW s \in Seq(Int)
  PROVE  /\ running(s) \in [0 .. Len(s) -> Int]
         /\ running(s)[0] = 0
         /\ \A n \in 1 .. Len(s) : running(s)[n] = running(s)[n - 1] + s[n]
<1> DEFINE m == Len(s)
           r == running(s)
           R(f) == [n \in 0 .. m |-> IF n = 0 THEN 0 ELSE f[n - 1] + s[n]]
           step == [n \in 1 .. m |-> [x \in Int |-> x + s[n]]]
<1>1. m \in Nat /\ 0 \in 0 .. m /\ \A n \in 1 .. m : n - 1 \in 0 .. m /\ n \in 0 .. m /\ n # 0
  OBVIOUS
<1>2. \A n \in 1 .. m : s[n] \in Int
  OBVIOUS
<1>3. r = CHOOSE g : g = R(g)
  BY DEF running
<1>4. \A n \in 1 .. m, x \in Int : step[n][x] = x + s[n]
  OBVIOUS
<1> HIDE DEF m, r, step
<1>5. Iterations(m, Int, step)
  <2>1. ASSUME NEW n \in 1 .. m, NEW x \in Int PROVE step[n][x] \in Int
    BY <1>2, <1>4
  <2> QED
    BY <2>1 DEF Iterations
<1>6. PICK f : LoopOf(m, Int, 0, step, f)
  <2>1. m \in Nat /\ 0 \in Int
    BY <1>1
  <2> QED
    BY <1>5, <2>1, LoopExists
<1>7. f = R(f)
  <2>1. f \in [0 .. m -> Int] /\ f[0] = 0 /\ \A n \in 1 .. m : f[n] = f[n - 1] + s[n]
    BY <1>1, <1>4, <1>6 DEF LoopOf
  <2> QED
    BY <2>1
<1> HIDE DEF R
<1>8. r = R(r)
  BY <1>3, <1>7
<1>9. r = [n \in 0 .. m |-> r[n]] /\ r[0] = 0 /\ \A n \in 1 .. m : r[n] = r[n - 1] + s[n]
  BY <1>1, <1>8 DEF R
<1>10. LoopOf(m, Int, 0, step, r)
  <2>1. \A n \in 1 .. m : r[n - 1] \in Int => r[n] = step[n][r[n - 1]]
    BY <1>4, <1>9
  <2> QED
    BY <1>1, <1>5, <1>9, <2>1, LoopIs
<1> QED
  BY <1>9, <1>10 DEF LoopOf, m, r

Pair == [lowest : Int, highest : Int]
Widened(x, e) == [lowest |-> IF e < x.lowest THEN e ELSE x.lowest,
                  highest |-> IF e > x.highest THEN e ELSE x.highest]

LEMMA ComparedIs ==
  ASSUME NEW s \in Seq(Int), s # << >>
  PROVE  /\ compared(s) \in [0 .. Len(s) -> Pair]
         /\ compared(s)[0] = [lowest |-> s[1], highest |-> s[1]]
         /\ \A n \in 1 .. Len(s) : compared(s)[n] = Widened(compared(s)[n - 1], s[n])
<1> DEFINE m == Len(s)
           r == compared(s)
           first == [lowest |-> Head(s), highest |-> Head(s)]
           R(f) == [n \in 0 .. m |-> IF n = 0 THEN first ELSE Widened(f[n - 1], s[n])]
           step == [n \in 1 .. m |-> [x \in Pair |-> Widened(x, s[n])]]
<1>1. m \in Nat /\ 0 \in 0 .. m /\ \A n \in 1 .. m : n - 1 \in 0 .. m /\ n \in 0 .. m /\ n # 0
  OBVIOUS
<1>2. Head(s) = s[1] /\ s[1] \in Int /\ \A n \in 1 .. m : s[n] \in Int
  OBVIOUS
<1>3. first \in Pair /\ \A x \in Pair, e \in Int : Widened(x, e) \in Pair
  BY <1>2 DEF Pair, Widened
<1>4. r = CHOOSE g : g = R(g)
  BY DEF compared, Widened
<1>5. \A n \in 1 .. m, x \in Pair : step[n][x] = Widened(x, s[n])
  OBVIOUS
<1> HIDE DEF m, r, step, first
<1>6. Iterations(m, Pair, step)
  BY <1>2, <1>3, <1>5 DEF Iterations
<1>7. PICK f : LoopOf(m, Pair, first, step, f)
  BY <1>1, <1>3, <1>6, LoopExists
<1>8. f = R(f)
  <2>1. /\ f \in [0 .. m -> Pair] /\ f[0] = first
        /\ \A n \in 1 .. m : f[n] = Widened(f[n - 1], s[n])
    BY <1>1, <1>5, <1>7 DEF LoopOf
  <2> QED
    BY <2>1
<1> HIDE DEF R
<1>9. r = R(r)
  BY <1>4, <1>8
<1>10. /\ r = [n \in 0 .. m |-> r[n]] /\ r[0] = first
       /\ \A n \in 1 .. m : r[n] = Widened(r[n - 1], s[n])
  BY <1>1, <1>9 DEF R
<1>11. LoopOf(m, Pair, first, step, r)
  <2>1. \A n \in 1 .. m : r[n - 1] \in Pair => r[n] = step[n][r[n - 1]]
    BY <1>5, <1>10
  <2> QED
    BY <1>1, <1>3, <1>6, <1>10, <2>1, LoopIs
<1> QED
  BY <1>2, <1>10, <1>11 DEF LoopOf, m, r, first

Bytes(n) == [b \in 1 .. fields[n].width |-> n]

LEMMA FieldIs ==
  /\ Len(fields) \in Nat
  /\ \A n \in 1 .. Len(fields) : fields[n].width \in Nat \ {0}
<1> DEFINE Field == [name : STRING, width : Nat \ {0}]
<1>1. fields \in Seq(Field)
  BY ConsumersAssumption
<1>2. \A f \in Field : f.width \in Nat \ {0}
  OBVIOUS
<1> HIDE DEF Field
<1>3. Len(fields) \in Nat /\ \A n \in 1 .. Len(fields) : fields[n] \in Field
  BY <1>1, ElementOfSeq
<1> QED
  BY <1>2, <1>3

LEMMA LaidOutIs ==
  /\ laid_out \in [0 .. Len(fields) -> Seq(Nat)]
  /\ laid_out[0] = << >>
  /\ \A n \in 1 .. Len(fields) : laid_out[n] = laid_out[n - 1] \o Bytes(n)
<1> DEFINE m == Len(fields)
           r == laid_out
           R(f) == [n \in 0 .. m |-> IF n = 0 THEN << >> ELSE f[n - 1] \o Bytes(n)]
           step == [n \in 1 .. m |-> [x \in Seq(Nat) |-> x \o Bytes(n)]]
<1>1. m \in Nat /\ 0 \in 0 .. m /\ \A n \in 1 .. m : n - 1 \in 0 .. m /\ n \in 0 .. m /\ n # 0
  BY ConsumersAssumption
<1>2. << >> \in Seq(Nat) /\ \A n \in 1 .. m : Bytes(n) \in Seq(Nat)
  <2>1. ASSUME NEW n \in 1 .. m PROVE fields[n].width \in Nat /\ n \in Nat
    BY FieldIs
  <2> QED
    BY <2>1 DEF Bytes
<1>3. \A x, y \in Seq(Nat) : x \o y \in Seq(Nat)
  BY ConcatProperties
<1>4. r = CHOOSE g : g = R(g)
  BY DEF laid_out, Bytes
<1>5. \A n \in 1 .. m, x \in Seq(Nat) : step[n][x] = x \o Bytes(n)
  OBVIOUS
<1> HIDE DEF m, r, step
<1>6. Iterations(m, Seq(Nat), step)
  BY <1>2, <1>3, <1>5 DEF Iterations
<1>7. PICK f : LoopOf(m, Seq(Nat), << >>, step, f)
  BY <1>1, <1>2, <1>6, LoopExists
<1>8. f = R(f)
  <2>1. /\ f \in [0 .. m -> Seq(Nat)] /\ f[0] = << >>
        /\ \A n \in 1 .. m : f[n] = f[n - 1] \o Bytes(n)
    BY <1>1, <1>5, <1>7 DEF LoopOf
  <2> QED
    BY <2>1
<1> HIDE DEF R
<1>9. r = R(r)
  BY <1>4, <1>8
<1>10. /\ r = [n \in 0 .. m |-> r[n]] /\ r[0] = << >>
       /\ \A n \in 1 .. m : r[n] = r[n - 1] \o Bytes(n)
  BY <1>1, <1>9 DEF R
<1>11. LoopOf(m, Seq(Nat), << >>, step, r)
  <2>1. \A n \in 1 .. m : r[n - 1] \in Seq(Nat) => r[n] = step[n][r[n - 1]]
    BY <1>5, <1>10
  <2> QED
    BY <1>1, <1>2, <1>6, <1>10, <2>1, LoopIs
<1> QED
  BY <1>10, <1>11 DEF LoopOf, m, r

-----------------------------------------------------------------------------
(* What the consumers compute.                                             *)

\* A part of a sequence adds up to the difference of two prefixes.
LEMMA PartAddsUp ==
  ASSUME NEW s \in Seq(Int), NEW a \in Nat, NEW b \in Nat, a + b <= Len(s)
  PROVE  checksum(SubSeq(s, a + 1, a + b)) = running(s)[a + b] - running(s)[a]
<1> DEFINE t == SubSeq(s, a + 1, a + b)
           Same == {n \in 0 .. b : running(t)[n] = running(s)[a + n] - running(s)[a]}
<1>1. t \in Seq(Int) /\ Len(t) = b /\ \A n \in 1 .. b : t[n] = s[a + n]
  <2>1. \A i \in a + 1 .. a + b : s[i] \in Int
    OBVIOUS
  <2> QED
    BY <2>1, SubSeqProperties
<1> HIDE DEF t
<1>2. /\ running(t)[0] = 0
      /\ \A n \in 1 .. b : running(t)[n] = running(t)[n - 1] + t[n]
      /\ running(t) \in [0 .. b -> Int]
  BY <1>1, RunningIs
<1>3. /\ \A n \in 1 .. Len(s) : running(s)[n] = running(s)[n - 1] + s[n]
      /\ running(s) \in [0 .. Len(s) -> Int]
      /\ \A n \in 1 .. Len(s) : s[n] \in Int
  BY RunningIs
<1>4. 0 \in Same
  <2>1. a + 0 = a /\ a \in 0 .. Len(s) /\ 0 \in 0 .. b
    OBVIOUS
  <2>2. running(s)[a] \in Int
    BY <1>3, <2>1
  <2> QED
    BY <1>2, <2>1, <2>2
<1>5. ASSUME NEW n \in 1 .. b, n - 1 \in Same PROVE n \in Same
  <2> DEFINE j == a + n
             i == n - 1
  <2>1. j \in 1 .. Len(s) /\ j - 1 \in 0 .. Len(s) /\ a \in 0 .. Len(s) /\ a + i = j - 1
    OBVIOUS
  <2>2. i \in 0 .. b /\ n \in 0 .. b /\ running(t)[i] = running(s)[a + i] - running(s)[a]
    BY <1>5
  <2>3. running(t)[n] = running(t)[i] + t[n] /\ t[n] = s[j]
    BY <1>1, <1>2
  <2> HIDE DEF i, j
  <2>4. running(s)[j] = running(s)[j - 1] + s[j]
    BY <1>3, <2>1
  <2>5. running(s)[j - 1] \in Int /\ running(s)[a] \in Int /\ s[j] \in Int
    BY <1>3, <2>1
  <2>6. running(t)[n] = running(s)[j] - running(s)[a]
    <3>1. running(t)[n] = (running(s)[j - 1] - running(s)[a]) + s[j]
      BY <2>1, <2>2, <2>3
    <3> QED
      BY <2>4, <2>5, <3>1
  <2> QED
    BY <2>2, <2>6 DEF j
<1> HIDE DEF Same
<1>6. 0 .. b \subseteq Same /\ b \in 0 .. b
  <2>1. 0 .. b \subseteq Same
    BY <1>4, <1>5, Reaches
  <2>2. b \in 0 .. b
    OBVIOUS
  <2> QED
    BY <2>1, <2>2
<1> QED
  BY <1>1, <1>6 DEF Same, t, checksum

\* The blocks' checksums add up to that of the bytes.
LEMMA ChecksumsAddUp ==
  ASSUME NEW s \in Seq(Int), Len(s) % block_size = 0
  PROVE  /\ Len(checksum_blocks(s)) * block_size = Len(s)
         /\ checksum(checksum_blocks(s)) = checksum(s)
<1> DEFINE B == block_size
           q == Len(s) \div B
           c == checksum_blocks(s)
           Same == {k \in 0 .. q : running(c)[k] = running(s)[k * B]}
<1>1. B \in Nat \ {0} /\ Len(s) \in Nat
  BY ConsumersAssumption
<1>2. q \in Nat /\ q * B = Len(s)
  BY <1>1
<1>3. ASSUME NEW k \in 1 .. q
      PROVE  /\ (k - 1) * B \in Nat /\ (k - 1) * B + B = k * B /\ k * B <= Len(s)
             /\ k * B \in 0 .. Len(s) /\ (k - 1) * B \in 0 .. Len(s)
  <2>1. /\ k - 1 \in Nat /\ q - k \in Nat
    BY <1>2
  <2>2. (k - 1) * B \in Nat /\ (q - k) * B \in Nat
    BY <1>1, <2>1
  <2>3. (k - 1) * B + B = k * B /\ k * B + (q - k) * B = q * B
    BY <1>1, <1>2
  <2> DEFINE x == (k - 1) * B
             y == k * B
             z == (q - k) * B
  <2>4. x \in Nat /\ z \in Nat /\ x + B = y /\ y + z = Len(s)
    BY <1>2, <2>2, <2>3
  <2> HIDE DEF x, y, z
  <2>5. x \in Nat /\ x + B = y /\ y <= Len(s) /\ y \in 0 .. Len(s) /\ x \in 0 .. Len(s)
    BY <1>1, <2>4
  <2> QED
    BY <2>5 DEF x, y
<1>4. running(s) \in [0 .. Len(s) -> Int] /\ running(s)[0] = 0
  BY RunningIs
<1>5. c = [k \in 1 .. q |-> checksum(SubSeq(s, (k - 1) * B + 1, k * B))]
  BY DEF checksum_blocks
<1> HIDE DEF B, q, c
<1>6. ASSUME NEW k \in 1 .. q
      PROVE  c[k] = running(s)[k * B] - running(s)[(k - 1) * B] /\ c[k] \in Int
  <2>1. checksum(SubSeq(s, (k - 1) * B + 1, (k - 1) * B + B)) =
          running(s)[(k - 1) * B + B] - running(s)[(k - 1) * B]
    <3> DEFINE x == (k - 1) * B
    <3>1. x \in Nat /\ B \in Nat /\ x + B <= Len(s)
      BY <1>1, <1>3
    <3> HIDE DEF x
    <3>2. checksum(SubSeq(s, x + 1, x + B)) = running(s)[x + B] - running(s)[x]
      BY <3>1, PartAddsUp
    <3> QED
      BY <3>2 DEF x
  <2>2. running(s)[k * B] \in Int /\ running(s)[(k - 1) * B] \in Int
    BY <1>3, <1>4
  <2> QED
    BY <1>3, <1>5, <2>1, <2>2
<1>7. c \in Seq(Int) /\ Len(c) = q
  BY <1>2, <1>5, <1>6
<1>8. /\ running(c) \in [0 .. q -> Int] /\ running(c)[0] = 0
      /\ \A n \in 1 .. q : running(c)[n] = running(c)[n - 1] + c[n]
  BY <1>7, RunningIs
<1>9. 0 \in Same
  <2>1. 0 * B = 0 /\ 0 \in 0 .. q
    BY <1>1, <1>2
  <2> QED
    BY <1>4, <1>8, <2>1
<1>10. ASSUME NEW k \in 1 .. q, k - 1 \in Same PROVE k \in Same
  <2>1. k \in 0 .. q /\ running(c)[k - 1] = running(s)[(k - 1) * B]
    BY <1>2, <1>10
  <2>2. running(s)[k * B] \in Int /\ running(s)[(k - 1) * B] \in Int
    BY <1>3, <1>4
  <2>3. running(c)[k] = running(s)[(k - 1) * B] + (running(s)[k * B] - running(s)[(k - 1) * B])
    BY <1>6, <1>8, <2>1
  <2>4. running(c)[k] = running(s)[k * B]
    BY <2>2, <2>3
  <2> QED
    BY <2>1, <2>4
<1> HIDE DEF Same
<1>11. 0 .. q \subseteq Same /\ q \in 0 .. q
  <2>1. 0 .. q \subseteq Same
    BY <1>2, <1>9, <1>10, Reaches
  <2>2. q \in 0 .. q
    BY <1>2
  <2> QED
    BY <2>1, <2>2
<1>12. running(c)[q] = running(s)[q * B]
  BY <1>11 DEF Same
<1> QED
  BY <1>2, <1>7, <1>12 DEF checksum, c, B

\* The comparison reaches every reading, and yields two of them.
LEMMA SummaryIs ==
  ASSUME NEW s \in Seq(Int), s # << >>
  PROVE  /\ {summarize(s).lowest, summarize(s).highest} \subseteq ToSet(s)
         /\ \A reading \in ToSet(s) : reading \in summarize(s).lowest .. summarize(s).highest
<1> DEFINE m == Len(s)
           c == compared(s)
           Right1(n) == /\ c[n].lowest \in ToSet(s) /\ c[n].highest \in ToSet(s)
                        /\ \A i \in 1 .. n : c[n].lowest <= s[i] /\ s[i] <= c[n].highest
           Known == {n \in 0 .. m : Right1(n)}
<1>1. m \in Nat /\ m # 0 /\ 1 \in 1 .. m /\ \A i \in 1 .. m : s[i] \in Int
  OBVIOUS
<1>2. ToSet(s) = {s[i] : i \in 1 .. m}
  BY DEF ToSet
<1>3. /\ c \in [0 .. m -> Pair] /\ c[0] = [lowest |-> s[1], highest |-> s[1]]
      /\ \A n \in 1 .. m : c[n] = Widened(c[n - 1], s[n])
  BY ComparedIs
<1> HIDE DEF m, c
<1>4. 0 \in Known
  BY <1>1, <1>2, <1>3
<1>5. ASSUME NEW n \in 1 .. m, n - 1 \in Known PROVE n \in Known
  <2> DEFINE x == c[n - 1]
             y == c[n]
             e == s[n]
  <2>1. n - 1 \in 0 .. m /\ n \in 0 .. m /\ n \in Nat
    BY <1>1
  <2>2. /\ x \in Pair /\ y = Widened(x, e) /\ e \in Int /\ e \in ToSet(s)
        /\ x.lowest \in ToSet(s) /\ x.highest \in ToSet(s)
        /\ \A i \in 1 .. n - 1 : x.lowest <= s[i] /\ s[i] <= x.highest
    BY <1>1, <1>2, <1>3, <1>5, <2>1
  <2>3. x.lowest \in Int /\ x.highest \in Int
    BY <2>2 DEF Pair
  <2> HIDE DEF x, y, e
  <2>4. /\ y.lowest = IF e < x.lowest THEN e ELSE x.lowest
        /\ y.highest = IF e > x.highest THEN e ELSE x.highest
    BY <2>2 DEF Widened
  <2>5. /\ y.lowest \in ToSet(s) /\ y.highest \in ToSet(s)
        /\ y.lowest \in Int /\ y.highest \in Int
        /\ y.lowest <= e /\ e <= y.highest /\ y.lowest <= x.lowest /\ x.highest <= y.highest
    BY <2>2, <2>3, <2>4
  <2>6. ASSUME NEW i \in 1 .. n PROVE y.lowest <= s[i] /\ s[i] <= y.highest
    <3>1. CASE i = n
      BY <2>5, <3>1 DEF e
    <3>2. CASE i # n
      <4>1. i \in 1 .. n - 1 /\ i \in 1 .. m
        BY <1>1, <2>1, <3>2
      <4>2. s[i] \in Int /\ x.lowest <= s[i] /\ s[i] <= x.highest
        BY <1>1, <2>2, <4>1
      <4> QED
        BY <2>3, <2>5, <4>2
    <3> QED
      BY <3>1, <3>2
  <2> QED
    BY <2>1, <2>5, <2>6 DEF y
<1> HIDE DEF Known
<1>6. 0 .. m \subseteq Known /\ m \in 0 .. m
  <2>1. 0 .. m \subseteq Known
    BY <1>1, <1>4, <1>5, Reaches
  <2>2. m \in 0 .. m
    BY <1>1
  <2> QED
    BY <2>1, <2>2
<1>7. Right1(m)
  BY <1>6 DEF Known
<1>8. summarize(s) = c[m] /\ c[m].lowest \in Int /\ c[m].highest \in Int
  BY <1>3, <1>6 DEF summarize, Pair, c, m
<1> QED
  BY <1>1, <1>2, <1>7, <1>8

\* Numbers in base Base.
LEMMA Powers ==
  /\ Base \in Nat /\ Base > 1
  /\ power(0) = 1 /\ power(1) = Base /\ power(2) = Base * Base
  /\ power(3) = power(2) * Base /\ power(4) = power(3) * Base
  /\ \A n \in 0 .. 4 : power(n) \in Nat \ {0}
<1>1. Base \in Nat /\ Base > 1
  BY ConsumersAssumption
<1>2. /\ power(0) = 1 /\ power(1) = Base /\ power(2) = Base * Base
      /\ power(3) = power(2) * Base /\ power(4) = power(3) * Base
  BY DEF power
<1>3. \A x \in Nat \ {0} : x * Base \in Nat \ {0}
  BY <1>1
<1>4. /\ power(0) \in Nat \ {0} /\ power(1) \in Nat \ {0} /\ power(2) \in Nat \ {0}
      /\ power(3) \in Nat \ {0} /\ power(4) \in Nat \ {0}
  BY <1>1, <1>2, <1>3
<1>5. \A n \in 0 .. 4 : n = 0 \/ n = 1 \/ n = 2 \/ n = 3 \/ n = 4
  OBVIOUS
<1> QED
  BY <1>1, <1>2, <1>4, <1>5

LEMMA Quotient ==
  ASSUME NEW d \in Nat \ {0}, NEW p \in Nat, NEW r \in 0 .. d - 1, NEW v, v = p * d + r
  PROVE  v \div d = p
<1> DEFINE q == v \div d
           e == v % d
<1>1. v \in Nat
  <2>1. p * d \in Nat
    OBVIOUS
  <2> QED
    BY <2>1
<1>0. q \in Nat /\ e \in 0 .. d - 1 /\ p * d + r = q * d + e
  BY <1>1
<1> HIDE DEF q, e
<1>2. ASSUME q < p PROVE FALSE
  <2> DEFINE k == p - q - 1
  <2>1. k \in Nat /\ p = q + 1 + k
    BY <1>0, <1>2
  <2> HIDE DEF k
  <2>2. p * d = q * d + d + k * d /\ k * d \in Nat
    BY <1>0, <2>1
  <2> QED
    BY <1>0, <2>2
<1>3. ASSUME p < q PROVE FALSE
  <2> DEFINE k == q - p - 1
  <2>1. k \in Nat /\ q = p + 1 + k
    BY <1>0, <1>3
  <2> HIDE DEF k
  <2>2. q * d = p * d + d + k * d /\ k * d \in Nat /\ p * d \in Nat
    BY <1>0, <2>1
  <2> QED
    BY <1>0, <2>2
<1> QED
  BY <1>0, <1>2, <1>3 DEF q

\* Shifting on by one more byte.
LEMMA ShiftOnce ==
  ASSUME NEW v \in Nat, NEW d \in Nat \ {0}
  PROVE  /\ v \div d \in Nat
         /\ v \div d = (v \div (d * Base)) * Base + ((v \div d) % Base)
<1> DEFINE q == v \div d
           r == v % d
           p == q \div Base
           s == q % Base
<1>1. q \in Nat /\ r \in 0 .. d - 1 /\ v = q * d + r
  OBVIOUS
<1>2. Base \in Nat \ {0} /\ Base > 1
  BY Powers
<1> HIDE DEF q, r
<1>3. p \in Nat /\ s \in 0 .. Base - 1 /\ q = p * Base + s
  BY <1>1, <1>2
<1> HIDE DEF p, s
<1>4. v = p * (d * Base) + (s * d + r)
  BY <1>1, <1>2, <1>3
<1>5. s * d + r \in 0 .. d * Base - 1
  <2>1. PICK k \in Nat : s = Base - 1 - k
    BY <1>2, <1>3
  <2>2. s * d + k * d + d = d * Base /\ k * d \in Nat /\ s * d \in Nat
    BY <1>2, <1>3, <2>1
  <2> QED
    BY <1>1, <1>2, <2>2
<1>6. d * Base \in Nat \ {0}
  BY <1>2
<1>7. v \div (d * Base) = p
  <2> DEFINE D == d * Base
             t == s * d + r
  <2>1. D \in Nat \ {0} /\ t \in 0 .. D - 1 /\ v = p * D + t
    BY <1>4, <1>5, <1>6
  <2> HIDE DEF D, t
  <2>2. v \div D = p
    BY <1>3, <2>1, Quotient
  <2> QED
    BY <2>2 DEF D
<1> QED
  BY <1>1, <1>3, <1>7 DEF q, s

LEMMA BytesAre ==
  ASSUME NEW v \in Nat, NEW n \in 0 .. 3
  PROVE  /\ v \div power(n) \in Nat /\ byte(v, n) \in 0 .. Base - 1
         /\ v \div power(n) = (v \div power(n + 1)) * Base + byte(v, n)
<1>1. power(n) \in Nat \ {0} /\ power(n + 1) = power(n) * Base /\ Base \in Nat \ {0}
  <2>1. n = 0 \/ n = 1 \/ n = 2 \/ n = 3
    OBVIOUS
  <2> QED
    BY <2>1, Powers
<1>2. /\ v \div power(n) \in Nat
      /\ v \div power(n) = (v \div (power(n) * Base)) * Base + ((v \div power(n)) % Base)
  BY <1>1, ShiftOnce
<1>3. (v \div power(n)) % Base \in 0 .. Base - 1
  BY <1>1, <1>2
<1> QED
  BY <1>1, <1>2, <1>3 DEF byte

LEMMA Vanishes ==
  ASSUME NEW d \in Nat \ {0}, NEW v \in 0 .. d - 1
  PROVE  v \div d = 0
<1>1. v = 0 * d + v
  OBVIOUS
<1> QED
  BY <1>1, Quotient

LEMMA TwoBytes ==
  ASSUME NEW v \in 0 .. power(2) - 1
  PROVE  byte(v, 1) * Base + byte(v, 0) = v
<1>1. v \in Nat /\ Base \in Nat
  BY Powers
<1>2. v \div power(2) = 0
  BY Powers, Vanishes
<1>3. v \div power(1) = (v \div power(2)) * Base + byte(v, 1) /\ byte(v, 1) \in Int
  BY <1>1, BytesAre
<1>4. v \div power(0) = (v \div power(1)) * Base + byte(v, 0) /\ byte(v, 0) \in Int
  BY <1>1, BytesAre
<1>5. v \div power(0) = v
  BY <1>1, Powers
<1> QED
  BY <1>1, <1>2, <1>3, <1>4, <1>5

LEMMA FourBytes ==
  ASSUME NEW v \in 0 .. power(4) - 1
  PROVE  byte(v, 3) * power(3) + byte(v, 2) * power(2) + byte(v, 1) * Base + byte(v, 0) = v
<1> DEFINE q(n) == v \div power(n)
           b(n) == byte(v, n)
<1>1. v \in Nat /\ Base \in Nat
  BY Powers
<1>2. q(4) = 0 /\ q(0) = v
  BY <1>1, Powers, Vanishes
<1>3. ASSUME NEW n \in 0 .. 3
      PROVE  q(n) \in Nat /\ b(n) \in Int /\ q(n) = q(n + 1) * Base + b(n)
  <2>1. /\ v \div power(n) \in Nat /\ byte(v, n) \in 0 .. Base - 1
        /\ v \div power(n) = (v \div power(n + 1)) * Base + byte(v, n)
    BY <1>1, BytesAre
  <2>2. byte(v, n) \in Int
    BY <1>1, <2>1
  <2> QED
    BY <2>1, <2>2
<1> HIDE DEF q, b
<1>4. q(3) = q(4) * Base + b(3) /\ b(3) \in Int
  BY <1>3
<1>5. q(2) = q(3) * Base + b(2) /\ b(2) \in Int
  BY <1>3
<1>6. q(1) = q(2) * Base + b(1) /\ b(1) \in Int
  BY <1>3
<1>7. q(0) = q(1) * Base + b(0) /\ b(0) \in Int
  BY <1>3
<1>8. q(3) = b(3)
  BY <1>1, <1>2, <1>4
<1>9. q(1) = b(3) * (Base * Base) + b(2) * Base + b(1)
  BY <1>1, <1>4, <1>5, <1>6, <1>8
<1>10. v = b(3) * (Base * Base * Base) + b(2) * (Base * Base) + b(1) * Base + b(0)
  BY <1>1, <1>2, <1>4, <1>5, <1>6, <1>7, <1>9
<1>11. power(3) = Base * Base * Base /\ power(2) = Base * Base
  BY DEF power
<1> QED
  BY <1>10, <1>11 DEF b

LEMMA SpelledTwo ==
  ASSUME NEW t \in Seq(Int), Len(t) = 2
  PROVE  spelled(t) = t[1] * Base + t[2]
<1> DEFINE w == [i \in 1 .. Len(t) |-> t[i] * power(Len(t) - i)]
<1>1. t[1] \in Int /\ t[2] \in Int
  OBVIOUS
<1>2. w[1] = t[1] * Base /\ w[2] = t[2] /\ Base \in Nat
  BY <1>1, Powers
<1>3. w = [i \in 1 .. 2 |-> w[i]] /\ w[1] \in Int /\ w[2] \in Int
  BY <1>1, <1>2
<1>4. spelled(t) = checksum(w)
  BY DEF spelled
<1> HIDE DEF w
<1>5. w \in Seq(Int) /\ Len(w) = 2
  BY <1>3
<1>6. /\ running(w)[0] = 0 /\ running(w)[1] = running(w)[0] + w[1]
      /\ running(w)[2] = running(w)[1] + w[2]
  <2>1. running(w)[0] = 0 /\ \A n \in 1 .. 2 : running(w)[n] = running(w)[n - 1] + w[n]
    BY <1>5, RunningIs
  <2>2. running(w)[1] = running(w)[1 - 1] + w[1] /\ running(w)[2] = running(w)[2 - 1] + w[2]
    BY <2>1
  <2> QED
    BY <2>1, <2>2
<1> QED
  BY <1>2, <1>3, <1>4, <1>5, <1>6 DEF checksum

LEMMA SpelledFour ==
  ASSUME NEW t \in Seq(Int), Len(t) = 4
  PROVE  spelled(t) = t[1] * power(3) + t[2] * power(2) + t[3] * Base + t[4]
<1> DEFINE w == [i \in 1 .. Len(t) |-> t[i] * power(Len(t) - i)]
<1>1. t[1] \in Int /\ t[2] \in Int /\ t[3] \in Int /\ t[4] \in Int
  <2>1. \A i \in 1 .. 4 : t[i] \in Int
    BY ElementOfSeq
  <2> HIDE DEF w
  <2> QED
    BY <2>1
<1>2. /\ w[1] = t[1] * power(3) /\ w[2] = t[2] * power(2) /\ w[3] = t[3] * Base /\ w[4] = t[4]
      /\ Base \in Nat /\ power(2) \in Nat /\ power(3) \in Nat
  BY <1>1, Powers
<1>3. /\ w = [i \in 1 .. 4 |-> w[i]]
      /\ w[1] \in Int /\ w[2] \in Int /\ w[3] \in Int /\ w[4] \in Int
  BY <1>1, <1>2
<1>4. spelled(t) = checksum(w)
  BY DEF spelled
<1> HIDE DEF w
<1>5. w \in Seq(Int) /\ Len(w) = 4
  BY <1>3
<1>6. /\ running(w)[0] = 0 /\ running(w)[1] = running(w)[0] + w[1]
      /\ running(w)[2] = running(w)[1] + w[2]
      /\ running(w)[3] = running(w)[2] + w[3]
      /\ running(w)[4] = running(w)[3] + w[4]
  BY <1>5, RunningIs
<1> QED
  BY <1>2, <1>3, <1>4, <1>5, <1>6 DEF checksum

\* A field adds its bytes to what is laid out already.
LEMMA LaidOutStep ==
  ASSUME NEW k \in 1 .. Len(fields)
  PROVE  /\ fields[k].width \in Nat \ {0}
         /\ Len(laid_out[k - 1]) \in Nat
         /\ Len(laid_out[k]) = Len(laid_out[k - 1]) + fields[k].width
         /\ \A b \in 1 .. Len(laid_out[k - 1]) : laid_out[k][b] = laid_out[k - 1][b]
         /\ \A b \in 1 .. fields[k].width : laid_out[k][Len(laid_out[k - 1]) + b] = k
<1> DEFINE s == laid_out[k - 1]
           t == Bytes(k)
           w == fields[k].width
<1>1. w \in Nat \ {0} /\ k \in Nat /\ k - 1 \in 0 .. Len(fields)
  BY FieldIs
<1>2. s \in Seq(Nat) /\ laid_out[k] = s \o t
  BY <1>1, LaidOutIs
<1>3. t = [b \in 1 .. w |-> k]
  BY DEF Bytes
<1> HIDE DEF s, t, w
<1>4. t \in Seq(Nat) /\ Len(t) = w /\ \A b \in 1 .. w : t[b] = k
  BY <1>1, <1>3
<1>5. Len(s) \in Nat
  BY <1>2
<1>6. /\ Len(s \o t) = Len(s) + Len(t)
      /\ \A i \in 1 .. Len(s) + Len(t) :
           (s \o t)[i] = IF i <= Len(s) THEN s[i] ELSE t[i - Len(s)]
  BY <1>2, <1>4, ConcatProperties
<1>7. ASSUME NEW b \in 1 .. Len(s) PROVE (s \o t)[b] = s[b]
  <2>1. b \in 1 .. Len(s) + Len(t) /\ b <= Len(s)
    BY <1>1, <1>4, <1>5
  <2> QED
    BY <1>6, <2>1
<1>8. ASSUME NEW b \in 1 .. w PROVE (s \o t)[Len(s) + b] = k
  <2> DEFINE i == Len(s) + b
  <2>1. i \in 1 .. Len(s) + Len(t) /\ ~(i <= Len(s)) /\ i - Len(s) = b
    BY <1>1, <1>4, <1>5
  <2> HIDE DEF i
  <2>2. (s \o t)[i] = t[i - Len(s)]
    BY <1>6, <2>1
  <2> QED
    BY <1>4, <2>1, <2>2 DEF i
<1> QED
  BY <1>1, <1>2, <1>4, <1>5, <1>6, <1>7, <1>8 DEF s, w

LEMMA LaidOutLength ==
  ASSUME NEW n \in 0 .. Len(fields)
  PROVE  Len(laid_out[n]) \in Nat
<1>1. laid_out[n] \in Seq(Nat)
  BY LaidOutIs
<1> QED
  BY <1>1

\* The sum of the widths before a field is the place of its first byte in the record.
LEMMA OffsetIs ==
  ASSUME NEW n \in 0 .. Len(fields)
  PROVE  field_offset(fields, n) = Len(laid_out[n])
<1> DEFINE w == [i \in DOMAIN fields |-> fields[i].width]
           m == Len(fields)
           Same == {k \in 0 .. m : running(w)[k] = Len(laid_out[k])}
<1>1. m \in Nat /\ DOMAIN fields = 1 .. m /\ \A k \in 1 .. m : fields[k].width \in Nat \ {0}
  BY FieldIs, ConsumersAssumption
<1>2. w \in Seq(Int) /\ Len(w) = m /\ \A k \in 1 .. m : w[k] = fields[k].width
  BY <1>1
<1>3. field_offset(fields, n) = running(w)[n]
  BY DEF field_offset
<1> HIDE DEF w
<1>4. running(w)[0] = 0 /\ \A k \in 1 .. m : running(w)[k] = running(w)[k - 1] + w[k]
  BY <1>2, RunningIs
<1>5. 0 \in Same
  BY <1>1, <1>4, LaidOutIs
<1>6. ASSUME NEW k \in 1 .. m, k - 1 \in Same PROVE k \in Same
  <2>1. Len(laid_out[k]) = Len(laid_out[k - 1]) + fields[k].width
    BY LaidOutStep
  <2>2. running(w)[k] = running(w)[k - 1] + w[k] /\ running(w)[k - 1] = Len(laid_out[k - 1])
    BY <1>4, <1>6
  <2>3. k \in 0 .. m
    BY <1>1
  <2> QED
    BY <1>2, <2>1, <2>2, <2>3
<1> HIDE DEF Same
<1>7. 0 .. m \subseteq Same
  BY <1>1, <1>5, <1>6, Reaches
<1>8. n \in Same
  BY <1>7
<1> QED
  BY <1>3, <1>8 DEF Same

\* What is laid out stays where it is.
LEMMA StaysLaidOut ==
  ASSUME NEW i \in 0 .. Len(fields), NEW b \in 1 .. Len(laid_out[i])
  PROVE  record_bytes[b] = laid_out[i][b]
<1> DEFINE m == Len(fields)
           Stays(n) == Len(laid_out[i]) <= Len(laid_out[n]) /\ laid_out[n][b] = laid_out[i][b]
           Same == {n \in 0 .. m : i <= n => Stays(n)}
<1>1. m \in Nat
  BY FieldIs
<1>2. Len(laid_out[i]) \in Nat
  BY LaidOutLength
<1>3. i \in Nat /\ i <= m /\ b \in Nat /\ b <= Len(laid_out[i]) /\ b >= 1
  BY <1>1, <1>2
<1>4. Stays(i)
  BY <1>2
<1> HIDE DEF Stays
<1>5. 0 \in Same
  <2>1. i <= 0 => i = 0
    BY <1>3
  <2> QED
    BY <1>1, <1>4, <2>1
<1>6. ASSUME NEW k \in 1 .. m, k - 1 \in Same PROVE k \in Same
  <2>1. k - 1 \in 0 .. m /\ k \in 0 .. m /\ k \in Nat
    BY <1>1
  <2>2. CASE i = k
    BY <1>4, <2>1, <2>2
  <2>3. CASE k < i
    BY <1>3, <2>1, <2>3
  <2>4. CASE i <= k - 1
    <3> DEFINE l == Len(laid_out[k - 1])
    <3>1. /\ l \in Nat /\ fields[k].width \in Nat /\ Len(laid_out[k]) = l + fields[k].width
          /\ \A j \in 1 .. l : laid_out[k][j] = laid_out[k - 1][j]
      BY LaidOutStep
    <3>2. Len(laid_out[i]) <= l /\ laid_out[k - 1][b] = laid_out[i][b]
      BY <1>6, <2>4 DEF Stays
    <3> HIDE DEF l
    <3>3. b \in 1 .. l
      BY <1>2, <1>3, <3>1, <3>2
    <3>4. Stays(k)
      BY <1>2, <3>1, <3>2, <3>3 DEF Stays
    <3> QED
      BY <2>1, <3>4
  <2>5. i = k \/ k < i \/ i <= k - 1
    BY <1>3, <2>1
  <2> QED
    BY <2>2, <2>3, <2>4, <2>5
<1> HIDE DEF Same
<1>7. 0 .. m \subseteq Same
  BY <1>1, <1>5, <1>6, Reaches
<1>8. m \in Same
  BY <1>1, <1>7
<1> QED
  BY <1>3, <1>8 DEF Same, Stays, record_bytes

LEMMA FieldStarts ==
  ASSUME NEW g \in Nat, g < Len(fields)
  PROVE  LET offset == field_offset(fields, g)
         IN  record_bytes[offset + 1] = g + 1 /\ (offset > 0 => record_bytes[offset] = g)
<1> DEFINE o == field_offset(fields, g)
           i == g + 1
<1>1. /\ g \in 0 .. Len(fields) /\ i \in 1 .. Len(fields) /\ i \in 0 .. Len(fields)
      /\ i - 1 = g
  BY FieldIs
<1>2. o = Len(laid_out[g]) /\ o \in Nat
  BY <1>1, OffsetIs, LaidOutLength
<1> HIDE DEF o, i
<1>3. record_bytes[o + 1] = i
  <2> DEFINE w == fields[i].width
  <2>1. /\ w \in Nat \ {0} /\ Len(laid_out[i]) = o + w
        /\ \A b \in 1 .. w : laid_out[i][o + b] = i
    BY <1>1, <1>2, LaidOutStep
  <2> HIDE DEF w
  <2>2. laid_out[i][o + 1] = i /\ o + 1 \in 1 .. Len(laid_out[i])
    BY <1>2, <2>1
  <2> QED
    BY <1>1, <2>2, StaysLaidOut
<1>4. ASSUME o > 0 PROVE record_bytes[o] = g
  <2>1. g \in 1 .. Len(fields)
    <3>1. g # 0
      BY <1>2, <1>4, LaidOutIs
    <3> QED
      BY <1>1, <3>1
  <2> DEFINE w == fields[g].width
             l == Len(laid_out[g - 1])
  <2>2. /\ l \in Nat /\ w \in Nat \ {0} /\ o = l + w
        /\ \A b \in 1 .. w : laid_out[g][l + b] = g
    BY <1>2, <2>1, LaidOutStep
  <2> HIDE DEF l, w
  <2>3. laid_out[g][o] = g
    BY <2>2
  <2>4. o \in 1 .. Len(laid_out[g])
    BY <1>2, <1>4
  <2> QED
    BY <1>1, <2>3, <2>4, StaysLaidOut
<1> QED
  BY <1>3, <1>4 DEF i, o

-----------------------------------------------------------------------------
(* The boundaries and the invariant.                                       *)

Boundaries == {"packet", "long packet", "header", "readings", "index", "record", "opcode",
               "blocks", "configuration", "decimation"}

\* What each boundary returns.
Returned(what, given, validated) ==
  /\ what \in Boundaries
  /\ what = "packet" =>
       given \in Datagrams /\ validated = at_least(header_size, given)
  /\ what = "long packet" =>
       given \in Datagrams /\ validated = at_least(packet_minimum, given)
  /\ what = "header" =>
       /\ given \in Datagrams
       /\ validated = IF Len(given) # header_size THEN None ELSE given
  /\ what = "blocks" =>
       /\ given \in Datagrams
       /\ validated = IF Len(given) % block_size # 0 THEN None ELSE given
  /\ what = "readings" => given \in Readings /\ validated = at_least(1, given)
  /\ what = "index" =>
       /\ given \in RawIndices
       /\ validated = IF given < Len(fields) THEN given ELSE None
  /\ what = "opcode" =>
       /\ given \in RawIndices
       /\ validated = IF given >= Len(opcode_names) THEN None ELSE opcode_names[given + 1]
  /\ what = "decimation" => given \in RawIndices /\ validated = parse_config(given)
  /\ what = "record" =>
       \E length \in Payloads, sequence \in SequenceNumbers :
         given = <<length, sequence>> /\ validated = make_header(length, sequence)
  /\ what = "configuration" =>
       \E first, second \in SequenceNumbers :
         /\ given = <<first, second>>
         /\ validated = try_emplace(try_emplace(None, first), second)

Validated ==
  /\ raw.what = "nothing" => raw = Nothing /\ answer = NoAnswer
  /\ raw.what # "nothing" => Returned(raw.what, raw.given, carrier)

ConsumersInv ==
  /\ Validated
  /\ answer # NoAnswer => Right(answer.by, raw.given, answer.is)

LEMMA AcceptedIs ==
  ASSUME NEW g
  PROVE  /\ Accepted("packet", g) <=> Len(g) >= header_size
         /\ Accepted("long packet", g) <=> Len(g) >= packet_minimum
         /\ Accepted("header", g) <=> Len(g) = header_size
         /\ Accepted("readings", g) <=> g # << >>
         /\ Accepted("index", g) <=> g < Len(fields)
         /\ Accepted("record", g) <=>
              g[1] \in 0 .. power(2) - 1 /\ g[2] \in 0 .. power(4) - 1
         /\ Accepted("opcode", g) <=> g < Len(opcode_names)
         /\ Accepted("blocks", g) <=> Len(g) % block_size = 0
         /\ Accepted("configuration", g)
         /\ Accepted("decimation", g) <=> g # 0
<1>1. Accepted("packet", g) <=> Len(g) >= header_size
  BY Zenon DEF Accepted
<1>2. Accepted("long packet", g) <=> Len(g) >= packet_minimum
  BY Zenon DEF Accepted
<1>3. Accepted("header", g) <=> Len(g) = header_size
  BY Zenon DEF Accepted
<1>4. Accepted("readings", g) <=> g # << >>
  BY Zenon DEF Accepted
<1>5. Accepted("index", g) <=> g < Len(fields)
  BY Zenon DEF Accepted
<1>6. Accepted("record", g) <=>
        g[1] \in 0 .. power(2) - 1 /\ g[2] \in 0 .. power(4) - 1
  BY Zenon DEF Accepted
<1>7. Accepted("opcode", g) <=> g < Len(opcode_names)
  BY Zenon DEF Accepted
<1>8. Accepted("blocks", g) <=> Len(g) % block_size = 0
  BY Zenon DEF Accepted
<1>9. Accepted("configuration", g)
  BY Zenon DEF Accepted
<1>10. Accepted("decimation", g) <=> g # 0
  BY Zenon DEF Accepted
<1> QED
  BY <1>1, <1>2, <1>3, <1>4, <1>5, <1>6, <1>7, <1>8, <1>9, <1>10, Zenon

LEMMA DatagramIs ==
  ASSUME NEW d \in Datagrams
  PROVE  /\ d \in Seq(Nat) /\ d \in Seq(Int) /\ Len(d) \in Nat /\ d # None
         /\ header_size \in Nat /\ header_size >= 2 /\ packet_minimum \in Nat
         /\ packet_minimum >= header_size
         /\ body_offset \in Nat /\ body_offset >= 1 /\ body_offset < packet_minimum
<1>1. /\ header_size \in Nat /\ header_size >= 2 /\ packet_minimum \in Nat
      /\ packet_minimum >= header_size
      /\ body_offset \in Nat /\ body_offset >= 1 /\ body_offset < packet_minimum
  BY ConsumersAssumption
<1>2. d \in Seq(0 .. Base - 1) /\ d # None /\ Base \in Nat
  BY ConsumersAssumption
<1>3. d \in Seq(Nat) /\ d \in Seq(Int)
  <2>1. 0 .. Base - 1 \subseteq Nat /\ 0 .. Base - 1 \subseteq Int
    BY <1>2
  <2> QED
    BY <1>2, <2>1, SeqMonotonic
<1> QED
  BY <1>1, <1>2, <1>3

\* A boundary lets pass exactly what meets its condition.
LEMMA BoundariesDecide ==
  ASSUME Validated, raw # Nothing
  PROVE  carrier # None <=> Accepted(raw.what, raw.given)
<1> DEFINE g == raw.given
<1>1. raw.what \in Boundaries
  BY DEF Validated, Returned
<1>2. CASE raw.what \in {"packet", "long packet", "header", "blocks"}
  <2>1. g \in Datagrams
    BY <1>2 DEF Validated, Returned
  <2>2. /\ raw.what = "packet" => carrier = at_least(header_size, g)
        /\ raw.what = "long packet" => carrier = at_least(packet_minimum, g)
        /\ raw.what = "header" => carrier = IF Len(g) # header_size THEN None ELSE g
        /\ raw.what = "blocks" => carrier = IF Len(g) % block_size # 0 THEN None ELSE g
    BY DEF Validated, Returned
  <2> HIDE DEF g
  <2>3. /\ Len(g) \in Nat /\ g # None /\ header_size \in Nat /\ packet_minimum \in Nat
        /\ Len(g) < header_size <=> ~(Len(g) >= header_size)
        /\ Len(g) < packet_minimum <=> ~(Len(g) >= packet_minimum)
    BY <2>1, DatagramIs
  <2>4. /\ raw.what = "packet" => (carrier # None <=> Accepted("packet", g))
        /\ raw.what = "long packet" => (carrier # None <=> Accepted("long packet", g))
        /\ raw.what = "header" => (carrier # None <=> Accepted("header", g))
        /\ raw.what = "blocks" => (carrier # None <=> Accepted("blocks", g))
    BY <2>2, <2>3, AcceptedIs DEF at_least
  <2> QED
    BY <1>2, <2>4 DEF g
<1>3. CASE raw.what = "readings"
  <2>1. g \in Readings /\ carrier = at_least(1, g)
    BY <1>3 DEF Validated, Returned
  <2> HIDE DEF g
  <2>2. g \in Seq(Int) /\ g # None
    BY <2>1, ConsumersAssumption
  <2>3. Len(g) < 1 <=> g = << >>
    BY <2>2
  <2>4. carrier # None <=> Accepted("readings", g)
    BY <2>1, <2>2, <2>3, AcceptedIs DEF at_least
  <2> QED
    BY <1>3, <2>4 DEF g
<1>4. CASE raw.what \in {"index", "opcode", "decimation"}
  <2>1. g \in RawIndices
    BY <1>4 DEF Validated, Returned
  <2>2. /\ raw.what = "index" => carrier = IF g < Len(fields) THEN g ELSE None
        /\ raw.what = "opcode" =>
             carrier = IF g >= Len(opcode_names) THEN None ELSE opcode_names[g + 1]
        /\ raw.what = "decimation" => carrier = IF g = 0 THEN None ELSE g
    BY DEF Validated, Returned, parse_config
  <2> HIDE DEF g
  <2>3. /\ g \in Nat /\ g # None /\ Len(opcode_names) \in Nat
        /\ g >= Len(opcode_names) <=> ~(g < Len(opcode_names))
    BY <2>1, ConsumersAssumption
  <2>4. g < Len(opcode_names) => opcode_names[g + 1] # None
    <3>1. g < Len(opcode_names) => g + 1 \in 1 .. Len(opcode_names)
      BY <2>3
    <3>2. \A i \in 1 .. Len(opcode_names) : opcode_names[i] \in STRING
      BY ConsumersAssumption
    <3> QED
      BY <3>1, <3>2, ConsumersAssumption
  <2>5. /\ raw.what = "index" => (carrier # None <=> Accepted("index", g))
        /\ raw.what = "opcode" => (carrier # None <=> Accepted("opcode", g))
        /\ raw.what = "decimation" => (carrier # None <=> Accepted("decimation", g))
    BY <2>2, <2>3, <2>4, AcceptedIs
  <2> QED
    BY <1>4, <2>5 DEF g
<1>5. CASE raw.what = "record"
  <2>1. PICK length \in Payloads, sequence \in SequenceNumbers :
          g = <<length, sequence>> /\ carrier = make_header(length, sequence)
    BY <1>5 DEF Validated, Returned
  <2> HIDE DEF g
  <2>2. fits(length, 2) /\ fits(sequence, 4) <=> Accepted("record", g)
    <3>1. g[1] = length /\ g[2] = sequence
      BY <2>1
    <3>2. Accepted("record", g) <=> g[1] \in 0 .. power(2) - 1 /\ g[2] \in 0 .. power(4) - 1
      BY AcceptedIs
    <3> QED
      BY <3>1, <3>2 DEF fits
  <2>3. ASSUME fits(length, 2), fits(sequence, 4)
        PROVE  [payload_length |-> length, sequence_number |-> sequence] # None
    <3>1. length \in Nat /\ sequence \in Nat
      BY <2>3, Powers DEF fits
    <3> QED
      BY <3>1, ConsumersAssumption
  <2>4. carrier # None <=> Accepted("record", g)
    BY <2>1, <2>2, <2>3 DEF make_header
  <2> QED
    BY <1>5, <2>4 DEF g
<1>6. CASE raw.what = "configuration"
  <2>1. PICK first \in SequenceNumbers, second \in SequenceNumbers :
          carrier = try_emplace(try_emplace(None, first), second)
    BY <1>6 DEF Validated, Returned
  <2>2. first # None
    BY ConsumersAssumption
  <2>3. carrier # None
    BY <2>1, <2>2 DEF try_emplace
  <2> QED
    BY <1>6, <2>3, AcceptedIs
<1> QED
  BY <1>1, <1>2, <1>3, <1>4, <1>5, <1>6 DEF Boundaries

-----------------------------------------------------------------------------
(* The consumers' answers.                                                 *)

LEMMA TypeIsSpelled ==
  ASSUME NEW d \in Seq(Int), Len(d) >= 2
  PROVE  spelled(SubSeq(d, 1, 2)) = d[1] * Base + d[2]
<1>1. \A i \in 1 .. 2 : d[i] \in Int
  BY ElementOfSeq
<1>2. /\ SubSeq(d, 1, 2) \in Seq(Int) /\ Len(SubSeq(d, 1, 2)) = 2
      /\ SubSeq(d, 1, 2)[1] = d[1] /\ SubSeq(d, 1, 2)[2] = d[2]
  BY <1>1
<1> QED
  BY <1>2, SpelledTwo

LEMMA ReadHeaderRight == ASSUME Validated, ReadHeader PROVE Right(answer'.by, raw.given, answer'.is)
<1> DEFINE d == raw.given
<1>1. /\ raw.what = "header" /\ carrier # None
      /\ answer' = [by |-> "read_message_type", is |-> read_message_type(carrier)]
  BY DEF ReadHeader, Answer
<1>2. d \in Datagrams /\ carrier = d /\ Len(d) = header_size
  BY <1>1 DEF Validated, Returned
<1> HIDE DEF d
<1>3. spelled(SubSeq(d, 1, 2)) = d[1] * Base + d[2]
  BY <1>2, DatagramIs, TypeIsSpelled
<1>4. Right("read_message_type", d, read_message_type(d))
  <2>1. read_message_type(d) = spelled(SubSeq(d, 1, 2))
    BY <1>3 DEF read_message_type
  <2> QED
    BY <2>1, Zenon DEF Right
<1> QED
  BY <1>1, <1>2, <1>4 DEF d

\* What a datagram keeps when it is at_least().
LEMMA AtLeastIs ==
  ASSUME NEW d \in Datagrams
  PROVE  /\ at_least(header_size, d) # None =>
              at_least(header_size, d) = d /\ Len(d) >= header_size
         /\ at_least(packet_minimum, d) # None =>
              /\ at_least(packet_minimum, d) = d
              /\ Len(d) >= packet_minimum /\ Len(d) >= header_size
<1>1. /\ Len(d) < header_size <=> ~(Len(d) >= header_size)
      /\ Len(d) < packet_minimum <=> ~(Len(d) >= packet_minimum)
      /\ Len(d) >= packet_minimum => Len(d) >= header_size
  BY DatagramIs
<1> QED
  BY <1>1 DEF at_least

LEMMA PacketIs ==
  ASSUME Validated, raw.what \in {"packet", "long packet"}, carrier # None
  PROVE  /\ raw.given \in Datagrams /\ carrier = raw.given
         /\ Len(raw.given) >= header_size
         /\ raw.what = "long packet" => Len(raw.given) >= packet_minimum
<1> DEFINE d == raw.given
<1>1. /\ d \in Datagrams
      /\ raw.what = "packet" => carrier = at_least(header_size, d)
      /\ raw.what = "long packet" => carrier = at_least(packet_minimum, d)
  BY DEF Validated, Returned
<1> HIDE DEF d
<1>2. /\ at_least(header_size, d) # None => at_least(header_size, d) = d /\ Len(d) >= header_size
      /\ at_least(packet_minimum, d) # None =>
           /\ at_least(packet_minimum, d) = d
           /\ Len(d) >= packet_minimum /\ Len(d) >= header_size
  BY <1>1, AtLeastIs
<1>3. CASE raw.what = "packet"
  BY <1>1, <1>2, <1>3, Zenon DEF d
<1>4. CASE raw.what = "long packet"
  BY <1>1, <1>2, <1>4, Zenon DEF d
<1> QED
  BY <1>3, <1>4

LEMMA ParsePacketRight ==
  ASSUME Validated, ParsePacket PROVE Right(answer'.by, raw.given, answer'.is)
<1> DEFINE d == raw.given
           h == header_size
           r == [type |-> read_message_type(SubSeq(carrier, 1, h)),
                 payload |-> SubSeq(carrier, h + 1, Len(carrier))]
<1>1. /\ raw.what \in {"packet", "long packet"} /\ carrier # None
      /\ answer' = [by |-> "parse_packet", is |-> r]
  BY DEF ParsePacket, Answer
<1>2. d \in Datagrams /\ carrier = d /\ Len(d) >= h
  BY <1>1, PacketIs
<1>3. d \in Seq(Int) /\ Len(d) \in Nat /\ h \in Nat /\ h >= 2
  BY <1>2, DatagramIs
<1>4. r.type = read_message_type(SubSeq(d, 1, h)) /\ r.payload = SubSeq(d, h + 1, Len(d))
  BY <1>2
<1> HIDE DEF d, h, r
<1>5. spelled(SubSeq(d, 1, 2)) = d[1] * Base + d[2]
  BY <1>2, <1>3, TypeIsSpelled
<1>6. r.type = spelled(SubSeq(d, 1, 2))
  <2>1. SubSeq(d, 1, h)[1] = d[1] /\ SubSeq(d, 1, h)[2] = d[2]
    BY <1>2, <1>3
  <2> QED
    BY <1>4, <1>5, <2>1 DEF read_message_type
<1>7. SubSeq(d, 1, h) \o r.payload = d
  <2>1. 1 \in 1 .. Len(d) + 1 /\ h \in 1 - 1 .. Len(d) /\ Len(d) \in h .. Len(d)
    BY <1>2, <1>3
  <2>2. SubSeq(d, 1, h) \o SubSeq(d, h + 1, Len(d)) = SubSeq(d, 1, Len(d))
    BY <1>3, <2>1, ConcatAdjacentSubSeq
  <2> QED
    BY <1>3, <1>4, <2>2, SubSeqFull
<1>8. Right("parse_packet", d, r)
  BY <1>6, <1>7, Zenon DEF Right, h
<1> QED
  BY <1>1, <1>8 DEF d

LEMMA ProcessPacketRight ==
  ASSUME Validated, ProcessPacket PROVE Right(answer'.by, raw.given, answer'.is)
<1> DEFINE d == raw.given
           r == [minimum |-> packet_minimum - body_offset, size |-> Len(carrier) - body_offset]
<1>1. /\ raw.what = "long packet" /\ carrier # None
      /\ answer' = [by |-> "process_packet", is |-> r]
  BY DEF ProcessPacket, Answer
<1>2. d \in Datagrams /\ carrier = d /\ Len(d) >= packet_minimum
  BY <1>1, PacketIs
<1>3. r.minimum = packet_minimum - body_offset /\ r.size = Len(d) - body_offset
  BY <1>2
<1> HIDE DEF d, r
<1>4. r.size >= r.minimum /\ r.size + body_offset = Len(d)
  BY <1>2, <1>3, DatagramIs
<1>5. Right("process_packet", d, r)
  BY <1>4, Zenon DEF Right
<1> QED
  BY <1>1, <1>5 DEF d

LEMMA ChecksumBlocksRight ==
  ASSUME Validated, ChecksumBlocks PROVE Right(answer'.by, raw.given, answer'.is)
<1> DEFINE d == raw.given
           r == checksum_blocks(carrier)
<1>1. /\ raw.what = "blocks" /\ carrier # None
      /\ answer' = [by |-> "checksum_blocks", is |-> r]
  BY DEF ChecksumBlocks, Answer
<1>2. d \in Datagrams /\ carrier = d /\ Len(d) % block_size = 0
  BY <1>1 DEF Validated, Returned
<1> HIDE DEF d
<1>3. Len(r) * block_size = Len(d) /\ checksum(r) = checksum(d)
  BY <1>2, DatagramIs, ChecksumsAddUp
<1>4. Right("checksum_blocks", d, r)
  BY <1>3, Zenon DEF Right
<1> QED
  BY <1>1, <1>4 DEF d

LEMMA ReportReadingsRight ==
  ASSUME Validated, ReportReadings PROVE Right(answer'.by, raw.given, answer'.is)
<1> DEFINE d == raw.given
           r == [range |-> summarize(carrier), latest |-> Last(carrier)]
<1>1. /\ raw.what = "readings" /\ carrier # None
      /\ answer' = [by |-> "report", is |-> r]
  BY DEF ReportReadings, Answer
<1>2. d \in Readings /\ carrier = at_least(1, d)
  BY <1>1 DEF Validated, Returned
<1>3. d \in Seq(Int)
  BY <1>2, ConsumersAssumption
<1>4. carrier = d /\ d # << >>
  <2> HIDE DEF d
  <2>1. d = << >> => Len(d) < 1
    OBVIOUS
  <2> QED
    BY <1>1, <1>2, <2>1 DEF at_least
<1>5. r.range = summarize(d) /\ r.latest = d[Len(d)]
  BY <1>4 DEF Last
<1> HIDE DEF d, r
<1>6. /\ {r.range.lowest, r.range.highest} \subseteq ToSet(d)
      /\ \A reading \in ToSet(d) : reading \in r.range.lowest .. r.range.highest
  BY <1>3, <1>4, <1>5, SummaryIs
<1>7. Right("report", d, r)
  BY <1>5, <1>6, Zenon DEF Right
<1> QED
  BY <1>1, <1>7 DEF d

LEMMA DecodeFieldRight ==
  ASSUME Validated, DecodeField PROVE Right(answer'.by, raw.given, answer'.is)
<1> DEFINE g == raw.given
           r == [name |-> field_name(fields, carrier), offset |-> field_offset(fields, carrier)]
<1>1. /\ raw.what = "index" /\ carrier # None
      /\ answer' = [by |-> "decode_field", is |-> r]
  BY DEF DecodeField, Answer
<1>2. g \in RawIndices /\ carrier = g /\ g < Len(fields)
  BY <1>1 DEF Validated, Returned
<1>3. g \in Nat
  BY <1>2, ConsumersAssumption
<1>4. r.name = fields[g + 1].name /\ r.offset = field_offset(fields, g)
  BY <1>2 DEF field_name
<1> HIDE DEF g, r
<1>5. record_bytes[r.offset + 1] = g + 1 /\ (r.offset > 0 => record_bytes[r.offset] = g)
  BY <1>2, <1>3, <1>4, FieldStarts
<1>6. Right("decode_field", g, r)
  BY <1>4, <1>5, Zenon DEF Right
<1> QED
  BY <1>1, <1>6 DEF g

LEMMA EncodeRight == ASSUME Validated, Encode PROVE Right(answer'.by, raw.given, answer'.is)
<1> DEFINE r == encode(carrier)
<1>1. /\ raw.what = "record" /\ carrier # None
      /\ answer' = [by |-> "encode", is |-> r]
  BY DEF Encode, Answer
<1>2. PICK length \in Payloads, sequence \in SequenceNumbers :
        raw.given = <<length, sequence>> /\ carrier = make_header(length, sequence)
  BY <1>1 DEF Validated, Returned
<1>3. /\ length \in 0 .. power(2) - 1 /\ sequence \in 0 .. power(4) - 1
      /\ carrier = [payload_length |-> length, sequence_number |-> sequence]
  BY <1>1, <1>2 DEF make_header, fits
<1>4. r = <<byte(length, 1), byte(length, 0),
            byte(sequence, 3), byte(sequence, 2), byte(sequence, 1), byte(sequence, 0)>>
  BY <1>3 DEF encode
<1>5. /\ byte(length, 1) \in Int /\ byte(length, 0) \in Int
      /\ byte(sequence, 3) \in Int /\ byte(sequence, 2) \in Int
      /\ byte(sequence, 1) \in Int /\ byte(sequence, 0) \in Int
  <2>1. \A v \in Nat : \A n \in 0 .. 3 : byte(v, n) \in Int
    <3>1. \A v \in Nat : \A n \in 0 .. 3 : byte(v, n) \in 0 .. Base - 1
      BY BytesAre
    <3> QED
      BY <3>1, Powers
  <2>2. length \in Nat /\ sequence \in Nat
    BY <1>3, Powers
  <2> QED
    BY <2>1, <2>2
<1>6. /\ byte(length, 1) * Base + byte(length, 0) = length
      /\ byte(sequence, 3) * power(3) + byte(sequence, 2) * power(2)
           + byte(sequence, 1) * Base + byte(sequence, 0) = sequence
  BY <1>3, TwoBytes, FourBytes
<1> HIDE DEF r
<1>7. /\ \A i \in 1 .. 6 : r[i] \in Int
      /\ r[1] = byte(length, 1) /\ r[2] = byte(length, 0)
      /\ r[3] = byte(sequence, 3) /\ r[4] = byte(sequence, 2)
      /\ r[5] = byte(sequence, 1) /\ r[6] = byte(sequence, 0)
  BY <1>4, <1>5
<1>8. spelled(SubSeq(r, 1, 2)) = length
  <2> DEFINE t == SubSeq(r, 1, 2)
  <2>1. /\ t \in Seq(Int) /\ Len(t) = 2
        /\ \A i \in 1 .. 2 : t[i] = r[1 + i - 1]
    <3>1. \A i \in 1 .. 2 : r[i] \in Int
      BY <1>7
    <3> QED
      BY <3>1, SubSeqProperties
  <2>2. t[1] = byte(length, 1) /\ t[2] = byte(length, 0)
    BY <1>7, <2>1
  <2> HIDE DEF t
  <2>3. spelled(t) = length
    BY <1>6, <2>1, <2>2, SpelledTwo
  <2> QED
    BY <2>3 DEF t
<1>9. spelled(SubSeq(r, 3, 6)) = sequence
  <2> DEFINE t == SubSeq(r, 3, 6)
  <2>1. /\ t \in Seq(Int) /\ Len(t) = 4
        /\ \A i \in 1 .. 4 : t[i] = r[3 + i - 1]
    <3>1. \A i \in 3 .. 6 : r[i] \in Int
      BY <1>7
    <3> QED
      BY <3>1, SubSeqProperties
  <2>2. /\ t[1] = byte(sequence, 3) /\ t[2] = byte(sequence, 2)
        /\ t[3] = byte(sequence, 1) /\ t[4] = byte(sequence, 0)
    BY <1>7, <2>1
  <2> HIDE DEF t
  <2>3. spelled(t) = sequence
    BY <1>6, <2>1, <2>2, SpelledFour
  <2> QED
    BY <2>3 DEF t
<1>10. <<spelled(SubSeq(r, 1, 2)), spelled(SubSeq(r, 3, 6))>> = raw.given
  BY <1>2, <1>8, <1>9
<1>11. Right("encode", raw.given, r)
  BY <1>10, Zenon DEF Right
<1> QED
  BY <1>1, <1>11

LEMMA ConfiguredWorkersRight ==
  ASSUME Validated, ConfiguredWorkers PROVE Right(answer'.by, raw.given, answer'.is)
<1>1. /\ raw.what = "configuration" /\ carrier # None
      /\ answer' = [by |-> "configured_workers", is |-> carrier]
  BY DEF ConfiguredWorkers, Answer
<1>2. PICK first \in SequenceNumbers, second \in SequenceNumbers :
        /\ raw.given = <<first, second>>
        /\ carrier = try_emplace(try_emplace(None, first), second)
  BY <1>1 DEF Validated, Returned
<1>3. first # None
  BY ConsumersAssumption
<1>4. carrier = raw.given[1]
  BY <1>2, <1>3 DEF try_emplace
<1>5. Right("configured_workers", raw.given, carrier)
  BY <1>4, Zenon DEF Right
<1> QED
  BY <1>1, <1>5

LEMMA PlanRight == ASSUME Validated, Plan PROVE Right(answer'.by, raw.given, answer'.is)
<1> DEFINE g == raw.given
<1>1. PICK n \in Payloads :
        /\ raw.what = "decimation" /\ carrier # None
        /\ answer' = [by |-> "decimated_length",
                      is |-> [input |-> n, output |-> decimated_length(n, carrier)]]
  BY DEF Plan, Answer
<1>2. g \in RawIndices /\ carrier = g /\ g # 0
  BY <1>1 DEF Validated, Returned, parse_config
<1>3. g \in Nat \ {0} /\ n \in Nat
  BY <1>2, ConsumersAssumption
<1> DEFINE r == [input |-> n, output |-> n \div g]
<1>4. answer' = [by |-> "decimated_length", is |-> r]
  BY <1>1, <1>2 DEF decimated_length
<1>5. r.input = n /\ r.output = n \div g
  OBVIOUS
<1> HIDE DEF g, r
<1>6. r.input \in r.output * g .. (r.output + 1) * g - 1
  <2> DEFINE q == n \div g
             e == n % g
             x == q * g
             y == (q + 1) * g
  <2>1. q \in Nat /\ e \in 0 .. g - 1 /\ n = q * g + e
    BY <1>3
  <2> HIDE DEF q, e
  <2>2. x \in Nat /\ y = x + g
    BY <1>3, <2>1
  <2>3. n = x + e
    BY <2>1
  <2> HIDE DEF x, y
  <2>4. n \in x .. x + g - 1
    BY <1>3, <2>1, <2>2, <2>3
  <2>5. n \in x .. y - 1
    BY <1>3, <2>2, <2>4
  <2> QED
    BY <1>5, <2>5 DEF q, x, y
<1>7. Right("decimated_length", g, r)
  BY <1>6, Zenon DEF Right
<1> QED
  BY <1>4, <1>7 DEF g

-----------------------------------------------------------------------------
LEMMA ConsumersInitially == ConsumersInit => ConsumersInv
  BY DEF ConsumersInit, ConsumersInv, Validated, Nothing

LEMMA ConsumersStepKeeps ==
  ConsumersInv /\ [ConsumersNext]_consumer_vars => ConsumersInv'
<1> SUFFICES ASSUME ConsumersInv, [ConsumersNext]_consumer_vars PROVE ConsumersInv'
  OBVIOUS
<1> USE DEF ConsumersInv
<1>1. CASE UNCHANGED consumer_vars
  BY <1>1 DEF consumer_vars, Validated
<1>2. ASSUME NEW what, NEW given, NEW validated, Boundary(what, given, validated),
             what # "nothing", Returned(what, given, validated)
      PROVE  ConsumersInv'
  <2>1. raw'.what = what /\ raw'.given = given /\ carrier' = validated /\ answer' = NoAnswer
    BY <1>2 DEF Boundary
  <2> QED
    BY <1>2, <2>1 DEF Validated
<1>3. CASE ReceivePacket \/ ReceiveHeader \/ Decrypt
  <2>1. ASSUME NEW d \in Datagrams
        PROVE  /\ Returned("packet", d, at_least(header_size, d))
               /\ Returned("long packet", d, at_least(packet_minimum, d))
               /\ Returned("header", d, IF Len(d) # header_size THEN None ELSE d)
               /\ Returned("blocks", d, IF Len(d) % block_size # 0 THEN None ELSE d)
    BY DEF Returned, Boundaries
  <2> QED
    BY <1>2, <1>3, <2>1 DEF ReceivePacket, ReceiveHeader, Decrypt
<1>4. CASE Measure
  <2>1. \A d \in Readings : Returned("readings", d, at_least(1, d))
    BY DEF Returned, Boundaries
  <2> QED
    BY <1>2, <1>4, <2>1 DEF Measure
<1>5. CASE Index \/ LookupOpcode \/ ParseConfig
  <2>1. ASSUME NEW i \in RawIndices
        PROVE  /\ Returned("index", i, IF i < Len(fields) THEN i ELSE None)
               /\ Returned("opcode", i, IF i >= Len(opcode_names) THEN None
                                        ELSE opcode_names[i + 1])
               /\ Returned("decimation", i, parse_config(i))
    BY DEF Returned, Boundaries
  <2> QED
    BY <1>2, <1>5, <2>1 DEF Index, LookupOpcode, ParseConfig
<1>6. CASE MakeHeader
  <2>1. \A length \in Payloads, sequence \in SequenceNumbers :
          Returned("record", <<length, sequence>>, make_header(length, sequence))
    BY DEF Returned, Boundaries
  <2> QED
    BY <1>2, <1>6, <2>1 DEF MakeHeader
<1>7. CASE Configure
  <2>1. \A first, second \in SequenceNumbers :
          Returned("configuration", <<first, second>>,
                   try_emplace(try_emplace(None, first), second))
    BY DEF Returned, Boundaries
  <2> QED
    BY <1>2, <1>7, <2>1 DEF Configure
<1>8. ASSUME NEW what, NEW by, NEW outcome, Answer(what, by, outcome), "nothing" \notin what,
              Right(answer'.by, raw.given, answer'.is)
       PROVE  ConsumersInv'
  BY <1>8 DEF Answer, Validated
<1>9. CASE ReadHeader
  BY <1>8, <1>9, ReadHeaderRight DEF ReadHeader
<1>10. CASE ParsePacket
  BY <1>8, <1>10, ParsePacketRight DEF ParsePacket
<1>11. CASE ProcessPacket
  BY <1>8, <1>11, ProcessPacketRight DEF ProcessPacket
<1>12. CASE ReportReadings
  BY <1>8, <1>12, ReportReadingsRight DEF ReportReadings
<1>13. CASE DecodeField
  BY <1>8, <1>13, DecodeFieldRight DEF DecodeField
<1>14. CASE Encode
  BY <1>8, <1>14, EncodeRight DEF Encode
<1>15. CASE ConfiguredWorkers
  BY <1>8, <1>15, ConfiguredWorkersRight DEF ConfiguredWorkers
<1>16. CASE Plan
  BY <1>8, <1>16, PlanRight DEF Plan
<1>17. CASE ChecksumBlocks
  BY <1>8, <1>17, ChecksumBlocksRight DEF ChecksumBlocks
<1> QED
  BY <1>1, <1>3, <1>4, <1>5, <1>6, <1>7, <1>9, <1>10, <1>11, <1>12, <1>13, <1>14, <1>15,
     <1>16, <1>17 DEF ConsumersNext

\* For every table of fields, whatever the programs are given: a boundary lets
\* pass exactly what meets its condition, and what its consumers say without a
\* check of their own is true of what came in.
THEOREM ResultsAreRight == ExamplesSpec => []ResultsRight
<1>1. ExamplesInit => ConsumersInv
  BY ConsumersInitially DEF ExamplesInit
<1>2. ConsumersInv /\ [ExamplesNext]_ExamplesVars => ConsumersInv'
  <2>1. [ExamplesNext]_ExamplesVars => [ConsumersNext]_consumer_vars
    BY DEF ExamplesNext, ExamplesVars
  <2> QED
    BY <2>1, ConsumersStepKeeps
<1>3. ConsumersInv => ResultsRight
  BY BoundariesDecide DEF ConsumersInv, ResultsRight
<1> QED
  BY <1>1, <1>2, <1>3, PTL DEF ExamplesSpec

=============================================================================
