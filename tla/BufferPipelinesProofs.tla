------------------------ MODULE BufferPipelinesProofs ------------------------
(***************************************************************************)
(* Proofs about BufferPipelines, for a memory of any size and buffers      *)
(* anywhere in it.  Effect is a loop as one assignment to all of its       *)
(* bytes, each computed from the memory before the loop.  A loop that runs *)
(* element by element has that effect when what it reads and what it       *)
(* writes are apart, or the same (IterateIsEffect); the effects of an      *)
(* operation's loops, one after the other, make up atomically().           *)
(***************************************************************************)
EXTENDS BufferPipelines, SequenceTheorems, TLAPS

\* a is one of the first n elements of v.
Within(v, n, a) == a \in v.data .. v.data + n - 1

\* What a loop puts into a, reading the memory m.
stored(loop, m, a) ==
  LET from == m[Corresponding(loop.to, loop.from, a)]
  IN  CASE loop.write = "copy" -> from
        [] loop.write = "flip" -> xor(m[a], {One})
        [] loop.write = "mix"  -> xor(m[a], from)
        [] loop.write = "fill" -> {}

\* The first n iterations of a loop, as one assignment.
Effect(loop, n, m) ==
  [a \in Addresses |-> IF Within(loop.to, n, a) THEN stored(loop, m, a) ELSE m[a]]
Whole(loop, m) == Effect(loop, loop.count, m)

\* The memory when k loops of the program p have run.
Reached(p, k) ==
  CASE k = 0 -> Fresh
    [] k = 1 -> Whole(p[1], Fresh)
    [] k = 2 -> Whole(p[2], Whole(p[1], Fresh))
    [] k = 3 -> Whole(p[3], Whole(p[2], Whole(p[1], Fresh)))

Loops == [write : {"copy", "flip", "mix", "fill"}, to : View, from : View, count : 0 .. MaxSize]

\* A loop stays inside its spans, and what it reads of another span is apart
\* from all that it writes.
Separate(loop) ==
  /\ loop \in Loops
  /\ loop.count <= loop.to.size
  /\ loop.write \in {"copy", "mix"} => /\ loop.count <= loop.from.size
                                       /\ ~overlap(loop.to, loop.from)

Passed == Len(program(buffers)) - Len(loops)

Progress ==
  /\ result = "idle" => buffers = NoBuffers
  /\ result # "idle" => buffers \in Calls
  /\ result \in {"idle", "false"} => memory = Fresh
  /\ result \in {"running", "true"} => accepted(buffers)
  /\ result = "false" => ~accepted(buffers)
  /\ result = "running" => /\ loops \in Seq(Loops)
                           /\ Passed \in 0 .. Len(program(buffers)) - 1
                           /\ \A i \in 1 .. Len(loops) : loops[i] = program(buffers)[Passed + i]
                           /\ index <= loops[1].count
                           /\ memory = Effect(loops[1], index, Reached(program(buffers), Passed))
  /\ result # "running" => loops = << >> /\ index = 0
  /\ result = "true" => memory = Reached(program(buffers), Len(program(buffers)))

IInv == TypeOK /\ Progress

LEMMA LesserIs ==
  ASSUME NEW m \in Nat, NEW n \in Nat
  PROVE  lesser(m, n) = IF m <= n THEN m ELSE n
BY DEF lesser, Min

LEMMA ViewType ==
  ASSUME NEW v \in View
  PROVE  /\ v.data \in Nat /\ v.data >= 1 /\ v.size \in 0 .. MaxSize /\ v.size \in Nat
         /\ v.data + v.size <= Top + 1 /\ Top \in Nat /\ MaxSize \in Nat
BY ConstantsAssumption DEF View, Addresses

\* The test that every operation makes decides the relation: two ranges with
\* bytes share one exactly when one of them starts inside the other.
LEMMA TestDecides ==
  ASSUME NEW v \in View, NEW w \in View
  PROVE  storage_ranges_overlap(v, w) <=> overlap(v, w)
<1>1. /\ v.data \in Nat /\ v.size \in Nat
      /\ w.data \in Nat /\ w.size \in Nat
  BY ViewType
<1>2. ASSUME NEW e \in Elements(v), e \in Elements(w)
      PROVE  storage_ranges_overlap(v, w)
  BY <1>1, <1>2 DEF Elements, storage_ranges_overlap, contains_element_address
<1>3. ASSUME storage_ranges_overlap(v, w) PROVE overlap(v, w)
  <2>1. v.data \in Elements(v) /\ w.data \in Elements(w)
    BY <1>1, <1>3 DEF Elements, storage_ranges_overlap
  <2> QED
    BY <1>3, <2>1 DEF storage_ranges_overlap, contains_element_address, overlap
<1> QED
  BY <1>2, <1>3 DEF overlap

LEMMA OverlapIsSymmetric ==
  ASSUME NEW v, NEW w
  PROVE  overlap(v, w) <=> overlap(w, v)
BY DEF overlap

-----------------------------------------------------------------------------
(* One loop.                                                               *)

\* An address written by a loop is an address, and so is the one it reads.
LEMMA Inside ==
  ASSUME NEW loop, Separate(loop), NEW a \in Int, Within(loop.to, loop.count, a)
  PROVE  /\ a \in Addresses /\ a \in Elements(loop.to)
         /\ loop.write \in {"copy", "mix"} =>
              /\ Corresponding(loop.to, loop.from, a) \in Addresses
              /\ Corresponding(loop.to, loop.from, a) \in Elements(loop.from)
              /\ Corresponding(loop.to, loop.from, a) \notin Elements(loop.to)
<1>1. loop.to \in View /\ loop.from \in View /\ loop.count \in Nat
  BY ConstantsAssumption DEF Separate, Loops
<1>2. a \in Addresses /\ a \in Elements(loop.to)
  BY <1>1, ViewType DEF Within, Elements, Addresses, Separate
<1>3. ASSUME loop.write \in {"copy", "mix"}
      PROVE  /\ Corresponding(loop.to, loop.from, a) \in Addresses
             /\ Corresponding(loop.to, loop.from, a) \in Elements(loop.from)
             /\ Corresponding(loop.to, loop.from, a) \notin Elements(loop.to)
  <2>1. Corresponding(loop.to, loop.from, a) \in Elements(loop.from)
    BY <1>1, <1>3, ViewType DEF Within, Elements, Corresponding, Separate
  <2>2. Corresponding(loop.to, loop.from, a) \in Addresses
    BY <1>1, <1>3, ViewType DEF Within, Addresses, Corresponding, Separate
  <2> QED
    BY <1>3, <2>1, <2>2 DEF Separate, overlap
<1> QED
  BY <1>2, <1>3

LEMMA CountIsNat == ASSUME NEW loop, Separate(loop) PROVE loop.count \in Nat /\ 0 <= loop.count
BY ConstantsAssumption DEF Separate, Loops

LEMMA EffectType ==
  ASSUME NEW loop, Separate(loop), NEW n \in 0 .. loop.count, NEW m \in [Addresses -> Byte]
  PROVE  Effect(loop, n, m) \in [Addresses -> Byte]
<1>1. loop.count \in Nat /\ loop.to.data \in Nat
  BY ViewType, ConstantsAssumption DEF Separate, Loops
<1>2. ASSUME NEW a \in Addresses, Within(loop.to, n, a)
      PROVE  stored(loop, m, a) \in Byte
  <2>1. a \in Int /\ Within(loop.to, loop.count, a)
    BY <1>1, <1>2, ConstantsAssumption DEF Within, Addresses
  <2>2. loop.write \in {"copy", "flip", "mix", "fill"}
    BY DEF Separate, Loops
  <2>3. m[a] \in Byte
    OBVIOUS
  <2>4. loop.write \in {"copy", "mix"} => m[Corresponding(loop.to, loop.from, a)] \in Byte
    BY <2>1, Inside
  <2> QED
    BY <2>2, <2>3, <2>4 DEF stored, Byte, xor
<1> QED
  BY <1>2 DEF Effect

LEMMA EffectOfNone ==
  ASSUME NEW loop, Separate(loop), NEW m \in [Addresses -> Byte]
  PROVE  Effect(loop, 0, m) = m
<1>1. loop.to.data \in Nat
  BY ViewType DEF Separate, Loops
<1>2. ASSUME NEW a \in Addresses PROVE ~Within(loop.to, 0, a)
  BY <1>1, ConstantsAssumption DEF Within, Addresses
<1> QED
  BY <1>2 DEF Effect

\* One more iteration is one more element of the assignment: what it reads is
\* what was there before the loop.
LEMMA IterateIsEffect ==
  ASSUME Iterate, Separate(Head(loops)), NEW m \in [Addresses -> Byte],
         index \in Nat, memory = Effect(Head(loops), index, m)
  PROVE  memory' = Effect(Head(loops), index + 1, m)
<1> DEFINE loop == Head(loops)
           i == index
           at == At(loop.to, i)
<1>0. /\ i < loop.count /\ memory' = [memory EXCEPT ![at] = value(loop, i)]
      /\ Separate(loop) /\ memory = Effect(loop, i, m)
  BY DEF Iterate
<1> HIDE DEF loop
<1>1. /\ loop.count \in Nat /\ loop.to.data \in Nat /\ loop.from.data \in Nat
      /\ i < loop.count /\ loop.to.size \in Nat /\ loop.count <= loop.to.size
  BY <1>0, ViewType, ConstantsAssumption DEF Separate, Loops
<1>2. at \in Int /\ Within(loop.to, loop.count, at) /\ ~Within(loop.to, i, at)
  BY <1>1 DEF At, Within
<1>3. at \in Addresses
  BY <1>0, <1>2, Inside
<1>4. memory[at] = m[at]
  BY <1>0, <1>2, <1>3 DEF Effect
<1>5. Corresponding(loop.to, loop.from, at) = At(loop.from, i)
  BY <1>1 DEF Corresponding, At
<1>6. ASSUME loop.write \in {"copy", "mix"}
      PROVE  memory[At(loop.from, i)] = m[At(loop.from, i)]
  <2>1. At(loop.from, i) \in Addresses /\ At(loop.from, i) \notin Elements(loop.to)
    BY <1>0, <1>2, <1>5, <1>6, Inside
  <2>2. ~Within(loop.to, i, At(loop.from, i))
    <3>1. Within(loop.to, i, At(loop.from, i)) => At(loop.from, i) \in Elements(loop.to)
      BY <1>1 DEF Within, At, Elements
    <3> QED
      BY <2>1, <3>1
  <2> QED
    BY <1>0, <2>1, <2>2 DEF Effect
<1>7. value(loop, i) = stored(loop, m, at)
  BY <1>0, <1>4, <1>5, <1>6 DEF value, stored, Separate, Loops
<1>8. memory \in [Addresses -> Byte]
  BY <1>0, <1>1, EffectType
<1>9. ASSUME NEW a \in Addresses
      PROVE  [memory EXCEPT ![at] = value(loop, i)][a] = Effect(loop, i + 1, m)[a]
  <2>1. CASE a = at
    <3>1. Within(loop.to, i + 1, a)
      BY <1>1, <2>1 DEF At, Within
    <3> QED
      BY <1>3, <1>7, <1>8, <2>1, <3>1 DEF Effect
  <2>2. CASE a # at
    <3>1. Within(loop.to, i + 1, a) <=> Within(loop.to, i, a)
      BY <1>1, <2>2, ConstantsAssumption DEF At, Within, Addresses
    <3> QED
      BY <1>0, <1>8, <2>2, <3>1 DEF Effect
  <2> QED
    BY <2>1, <2>2
<1> QED
  BY <1>0, <1>8, <1>9 DEF Effect, loop

-----------------------------------------------------------------------------
(* One operation.                                                          *)

LEMMA CallType ==
  ASSUME NEW b \in Calls
  PROVE  /\ b.operation \in Operations
         /\ b.input \in View /\ b.output \in View /\ b.scratch \in View
BY DEF Calls

LEMMA AcceptedMeans ==
  ASSUME NEW b \in Calls
  PROVE  accepted(b) <=>
           /\ ~overlap(b.output, b.input)
           /\ b.operation = "copy_chunk" => b.output.size = b.input.size
           /\ b.operation = "processing_buffers" => /\ ~overlap(b.scratch, b.input)
                                                    /\ ~overlap(b.output, b.scratch)
<1>1. CASE b.operation = "copy_chunk"
  BY <1>1, CallType, TestDecides, OverlapIsSymmetric DEF accepted, checked_non_overlapping
<1>2. CASE b.operation = "process_in_stages"
  BY <1>2, CallType, TestDecides, OverlapIsSymmetric DEF accepted, checked_non_overlapping
<1>3. CASE b.operation = "processing_buffers"
  BY <1>3, CallType, TestDecides, OverlapIsSymmetric DEF accepted, checked_non_overlapping
<1> QED
  BY <1>1, <1>2, <1>3, CallType DEF Operations

LEMMA LesserType ==
  ASSUME NEW v \in View, NEW w \in View
  PROVE  /\ lesser(v.size, w.size) \in 0 .. MaxSize
         /\ lesser(v.size, w.size) <= v.size
         /\ lesser(v.size, w.size) <= w.size
<1>1. v.size \in 0 .. MaxSize /\ w.size \in 0 .. MaxSize /\ v.size \in Nat /\ w.size \in Nat
  BY ViewType
<1> QED
  BY <1>1, LesserIs

LEMMA ProgramIs ==
  ASSUME NEW b \in Calls
  PROVE  /\ b.operation = "copy_chunk" =>
              program(b) = << Loop("copy", b.output, b.input, b.input.size) >>
         /\ b.operation = "process_in_stages" => program(b) = stages(b.output, b.input)
         /\ b.operation = "processing_buffers" => program(b) = phases(b)
BY DEF program

\* The loops of an accepted operation read nothing that they write.
LEMMA ProgramSeparate ==
  ASSUME NEW b \in Calls, accepted(b)
  PROVE  /\ program(b) \in Seq(Loops)
         /\ Len(program(b)) \in {1, 3}
         /\ \A i \in 1 .. Len(program(b)) : Separate(program(b)[i])
<1>1. /\ b.input \in View /\ b.output \in View /\ b.scratch \in View
      /\ b.input.size \in Nat /\ b.output.size \in Nat /\ b.scratch.size \in Nat
      /\ b.input.size \in 0 .. MaxSize /\ b.output.size \in 0 .. MaxSize
      /\ b.scratch.size \in 0 .. MaxSize
  BY CallType, ViewType
<1>2. CASE b.operation = "copy_chunk"
  <2> DEFINE copy == Loop("copy", b.output, b.input, b.input.size)
  <2>1. Separate(copy)
    BY <1>1, <1>2, AcceptedMeans DEF Separate, Loops, Loop
  <2>2. program(b) = << copy >>
    BY <1>2, ProgramIs
  <2> HIDE DEF copy
  <2> QED
    BY <2>1, <2>2 DEF Separate
<1>3. CASE b.operation = "process_in_stages"
  <2> DEFINE count == lesser(b.output.size, b.input.size)
  <2>1. count \in 0 .. MaxSize /\ count <= b.output.size /\ count <= b.input.size
    BY <1>1, LesserType
  <2>2. /\ Separate(Loop("copy", b.output, b.input, count))
        /\ Separate(Loop("mix", b.output, b.input, count))
    BY <1>1, <1>3, <2>1, AcceptedMeans DEF Separate, Loops, Loop
  <2>3. Separate(Loop("flip", b.output, b.output, b.output.size))
    BY <1>1 DEF Separate, Loops, Loop
  <2>4. program(b) = << Loop("copy", b.output, b.input, count),
                        Loop("flip", b.output, b.output, b.output.size),
                        Loop("mix", b.output, b.input, count) >>
    BY <1>3, ProgramIs DEF stages
  <2> HIDE DEF count
  <2> QED
    BY <2>2, <2>3, <2>4 DEF Separate
<1>4. CASE b.operation = "processing_buffers"
  <2> DEFINE c == lesser(b.input.size, b.scratch.size)
             d == lesser(b.output.size, b.scratch.size)
  <2>1. /\ c \in 0 .. MaxSize /\ c <= b.input.size /\ c <= b.scratch.size
        /\ d \in 0 .. MaxSize /\ d <= b.output.size /\ d <= b.scratch.size
    BY <1>1, LesserType
  <2>2. Separate(Loop("copy", b.scratch, b.input, c))
    BY <1>1, <1>4, <2>1, AcceptedMeans DEF Separate, Loops, Loop
  <2>3. Separate(Loop("copy", b.output, b.scratch, d))
    BY <1>1, <1>4, <2>1, AcceptedMeans DEF Separate, Loops, Loop
  <2>4. Separate(Loop("fill", b.scratch, b.scratch, b.scratch.size))
    BY <1>1 DEF Separate, Loops, Loop
  <2>5. program(b) = << Loop("copy", b.scratch, b.input, c),
                        Loop("copy", b.output, b.scratch, d),
                        Loop("fill", b.scratch, b.scratch, b.scratch.size) >>
    BY <1>4, ProgramIs DEF phases
  <2> HIDE DEF c, d
  <2> QED
    BY <2>2, <2>3, <2>4, <2>5 DEF Separate
<1> QED
  BY <1>2, <1>3, <1>4, CallType DEF Operations

LEMMA ReachedIs ==
  ASSUME NEW p
  PROVE  /\ Reached(p, 0) = Fresh
         /\ Reached(p, 1) = Whole(p[1], Reached(p, 0))
         /\ Reached(p, 2) = Whole(p[2], Reached(p, 1))
         /\ Reached(p, 3) = Whole(p[3], Reached(p, 2))
BY DEF Reached

LEMMA FreshType == Fresh \in [Addresses -> Byte]
BY DEF Fresh, Byte

LEMMA WholeType ==
  ASSUME NEW loop, Separate(loop), NEW m \in [Addresses -> Byte]
  PROVE  Whole(loop, m) \in [Addresses -> Byte]
<1>1. loop.count \in 0 .. loop.count
  BY ConstantsAssumption DEF Separate, Loops
<1> QED
  BY <1>1, EffectType DEF Whole

LEMMA ReachedType ==
  ASSUME NEW b \in Calls, accepted(b), NEW k \in 0 .. Len(program(b))
  PROVE  Reached(program(b), k) \in [Addresses -> Byte]
<1>1. /\ Len(program(b)) \in {1, 3}
      /\ \A i \in 1 .. Len(program(b)) : Separate(program(b)[i])
  BY ProgramSeparate
<1>2. k \in {0, 1} \/ (Len(program(b)) = 3 /\ k \in {2, 3})
  BY <1>1
<1>3. Reached(program(b), 0) \in [Addresses -> Byte]
  BY ReachedIs, FreshType
<1>4. Reached(program(b), 1) \in [Addresses -> Byte]
  BY <1>1, <1>3, ReachedIs, WholeType
<1>5. ASSUME Len(program(b)) = 3
      PROVE  /\ Reached(program(b), 2) \in [Addresses -> Byte]
             /\ Reached(program(b), 3) \in [Addresses -> Byte]
  <2>1. Separate(program(b)[2]) /\ Separate(program(b)[3])
    BY <1>1, <1>5
  <2> QED
    BY <1>4, <2>1, ReachedIs, WholeType
<1> QED
  BY <1>2, <1>3, <1>4, <1>5

\* What each kind of loop leaves at an address.
LEMMA CopyIs ==
  ASSUME NEW v, NEW w, NEW n, NEW m, NEW a \in Addresses
  PROVE  Whole(Loop("copy", v, w, n), m)[a] =
           IF Within(v, n, a) THEN m[Corresponding(v, w, a)] ELSE m[a]
BY DEF Whole, Effect, stored, Loop

LEMMA FlipIs ==
  ASSUME NEW v, NEW w, NEW n, NEW m, NEW a \in Addresses
  PROVE  Whole(Loop("flip", v, w, n), m)[a] =
           IF Within(v, n, a) THEN xor(m[a], {One}) ELSE m[a]
BY DEF Whole, Effect, stored, Loop

LEMMA MixIs ==
  ASSUME NEW v, NEW w, NEW n, NEW m, NEW a \in Addresses
  PROVE  Whole(Loop("mix", v, w, n), m)[a] =
           IF Within(v, n, a) THEN xor(m[a], m[Corresponding(v, w, a)]) ELSE m[a]
BY DEF Whole, Effect, stored, Loop

LEMMA FillIs ==
  ASSUME NEW v, NEW w, NEW n, NEW m, NEW a \in Addresses
  PROVE  Whole(Loop("fill", v, w, n), m)[a] = IF Within(v, n, a) THEN {} ELSE m[a]
BY DEF Whole, Effect, stored, Loop

\* Two buffers correspond up to the size of the smaller one.
LEMMA CorrespondingIs ==
  ASSUME NEW v \in View, NEW w \in View, NEW a \in Addresses
  PROVE  /\ IsElement(v, a) <=> Within(v, v.size, a)
         /\ HasCorresponding(v, w, a) <=> Within(v, lesser(v.size, w.size), a)
         /\ HasCorresponding(v, w, a) => Corresponding(v, w, a) \in Addresses
<1>1. /\ v.data \in Nat /\ v.size \in Nat /\ w.data \in Nat /\ w.size \in Nat
      /\ w.data >= 1 /\ w.data + w.size <= Top + 1 /\ Top \in Nat /\ a \in Int
  BY ViewType DEF Addresses
<1>2. lesser(v.size, w.size) = IF v.size <= w.size THEN v.size ELSE w.size
  BY <1>1, LesserIs
<1> QED
  BY <1>1, <1>2 DEF IsElement, HasCorresponding, Corresponding, Elements, Within, Addresses

LEMMA FreshIs == \A a \in Addresses : Fresh[a] = {a} /\ a # One
BY ConstantsAssumption DEF Fresh, One, Addresses

\* A copy that is an operation's first loop brings in the bytes of its source.
LEMMA FirstCopy ==
  ASSUME NEW v \in View, NEW w \in View, NEW a \in Addresses
  PROVE  Whole(Loop("copy", v, w, lesser(v.size, w.size)), Fresh)[a] =
           IF HasCorresponding(v, w, a) THEN {Corresponding(v, w, a)} ELSE {a}
<1>1. /\ HasCorresponding(v, w, a) <=> Within(v, lesser(v.size, w.size), a)
      /\ HasCorresponding(v, w, a) => Corresponding(v, w, a) \in Addresses
  BY CorrespondingIs
<1>2. Whole(Loop("copy", v, w, lesser(v.size, w.size)), Fresh)[a] =
        IF Within(v, lesser(v.size, w.size), a) THEN Fresh[Corresponding(v, w, a)] ELSE Fresh[a]
  BY CopyIs
<1> QED
  BY <1>1, <1>2, FreshIs

LEMMA CopyChunkIsAtomic ==
  ASSUME NEW b \in Calls, accepted(b), b.operation = "copy_chunk"
  PROVE  Reached(program(b), 1) = atomically(b)
<1> DEFINE out == b.output
           in == b.input
           all == Reached(program(b), 1)
<1>1. out \in View /\ in \in View /\ out.size = in.size /\ in.size \in Nat
  BY CallType, AcceptedMeans, ViewType
<1>2. all = Whole(Loop("copy", out, in, in.size), Fresh)
  BY ProgramIs DEF Reached
<1>3. all \in [Addresses -> Byte]
  BY ReachedType, ProgramIs
<1>4. ASSUME NEW a \in Addresses
      PROVE  all[a] = IF IsElement(out, a) THEN {Corresponding(out, in, a)} ELSE {a}
  <2>1. lesser(out.size, in.size) = in.size
    BY <1>1, LesserIs
  <2>2. /\ IsElement(out, a) <=> Within(out, in.size, a)
        /\ IsElement(out, a) => Corresponding(out, in, a) \in Addresses
    BY <1>1, <2>1, CorrespondingIs
  <2>3. all[a] = IF Within(out, in.size, a) THEN Fresh[Corresponding(out, in, a)] ELSE Fresh[a]
    BY <1>2, CopyIs
  <2> HIDE DEF all, out, in
  <2> QED
    BY <2>2, <2>3, FreshIs
<1>5. atomically(b) = [a \in Addresses |->
                         IF IsElement(out, a) THEN {Corresponding(out, in, a)} ELSE {a}]
  BY DEF atomically
<1> QED
  BY <1>3, <1>4, <1>5

LEMMA StagesAreAtomic ==
  ASSUME NEW b \in Calls, accepted(b), b.operation = "process_in_stages"
  PROVE  Reached(program(b), 3) = atomically(b)
<1> DEFINE out == b.output
           in == b.input
           c == lesser(out.size, in.size)
           m(k) == Reached(program(b), k)
<1>1. out \in View /\ in \in View /\ ~overlap(out, in)
  BY CallType, AcceptedMeans
<1>2. program(b) = << Loop("copy", out, in, c), Loop("flip", out, out, out.size),
                      Loop("mix", out, in, c) >>
  BY ProgramIs DEF stages
<1>3. m(3) \in [Addresses -> Byte]
  <2> HIDE DEF out, in, c
  <2>1. Len(program(b)) = 3
    BY <1>2
  <2> QED
    BY <2>1, ReachedType
<1>4. ASSUME NEW a \in Addresses
      PROVE  /\ m(1)[a] = IF HasCorresponding(out, in, a) THEN {Corresponding(out, in, a)} ELSE {a}
             /\ m(2)[a] = IF IsElement(out, a) THEN xor(m(1)[a], {One}) ELSE m(1)[a]
             /\ m(3)[a] = IF HasCorresponding(out, in, a)
                            THEN xor(m(2)[a], m(2)[Corresponding(out, in, a)])
                            ELSE m(2)[a]
  <2> HIDE DEF out, in, c
  <2>1. /\ m(1) = Whole(Loop("copy", out, in, c), Fresh)
        /\ m(2) = Whole(Loop("flip", out, out, out.size), m(1))
        /\ m(3) = Whole(Loop("mix", out, in, c), m(2))
    BY <1>2 DEF Reached
  <2>2. /\ IsElement(out, a) <=> Within(out, out.size, a)
        /\ HasCorresponding(out, in, a) <=> Within(out, c, a)
    BY <1>1, CorrespondingIs DEF c
  <2>3. m(1)[a] = IF HasCorresponding(out, in, a) THEN {Corresponding(out, in, a)} ELSE {a}
    BY <1>1, <2>1, FirstCopy DEF c
  <2> HIDE DEF m
  <2>4. m(2)[a] = IF IsElement(out, a) THEN xor(m(1)[a], {One}) ELSE m(1)[a]
    <3>1. Whole(Loop("flip", out, out, out.size), m(1))[a] =
            IF Within(out, out.size, a) THEN xor(m(1)[a], {One}) ELSE m(1)[a]
      BY FlipIs
    <3> QED
      BY <2>1, <2>2, <3>1
  <2>5. m(3)[a] = IF HasCorresponding(out, in, a)
                    THEN xor(m(2)[a], m(2)[Corresponding(out, in, a)]) ELSE m(2)[a]
    BY <2>1, <2>2, MixIs
  <2> QED
    BY <2>3, <2>4, <2>5
<1>5. ASSUME NEW a \in Addresses, HasCorresponding(out, in, a)
      PROVE  /\ IsElement(out, a)
             /\ Corresponding(out, in, a) \in Addresses
             /\ ~IsElement(out, Corresponding(out, in, a))
  BY <1>1, <1>5, CorrespondingIs DEF HasCorresponding, IsElement, overlap
<1> HIDE DEF m, out, in, c
<1>6. ASSUME NEW a \in Addresses
      PROVE  m(3)[a] = IF IsElement(out, a)
                         THEN IF HasCorresponding(out, in, a) THEN {One} ELSE {One, a}
                         ELSE {a}
  <2>1. CASE HasCorresponding(out, in, a)
    <3> DEFINE e == Corresponding(out, in, a)
    <3>1. IsElement(out, a) /\ e \in Addresses /\ ~IsElement(out, e)
      BY <1>5, <2>1
    <3>2. ~HasCorresponding(out, in, e)
      BY <3>1 DEF HasCorresponding
    <3>3. m(1)[a] = {e} /\ m(3)[a] = xor(m(2)[a], m(2)[e])
      BY <1>4, <2>1
    <3> HIDE DEF e
    <3>4. m(2)[a] = xor({e}, {One}) /\ m(2)[e] = {e}
      BY <1>4, <3>1, <3>2, <3>3
    <3>5. xor(xor({e}, {One}), {e}) = {One}
      <4>1. e # One
        BY <3>1, FreshIs
      <4> QED
        BY <4>1 DEF xor
    <3> QED
      BY <2>1, <3>1, <3>3, <3>4, <3>5
  <2>2. CASE ~HasCorresponding(out, in, a)
    <3>1. m(3)[a] = IF IsElement(out, a) THEN xor({a}, {One}) ELSE {a}
      BY <1>4, <2>2
    <3>2. xor({a}, {One}) = {One, a}
      BY FreshIs DEF xor
    <3> QED
      BY <2>2, <3>1, <3>2
  <2> QED
    BY <2>1, <2>2
<1>7. atomically(b) = [a \in Addresses |->
                         IF IsElement(out, a)
                           THEN IF HasCorresponding(out, in, a) THEN {One} ELSE {One, a}
                           ELSE {a}]
  BY DEF atomically, out, in
<1>8. m(3) = atomically(b)
  BY <1>3, <1>6, <1>7
<1> QED
  BY <1>8 DEF m

LEMMA PhasesAreAtomic ==
  ASSUME NEW b \in Calls, accepted(b), b.operation = "processing_buffers"
  PROVE  Reached(program(b), 3) = atomically(b)
<1> DEFINE out == b.output
           in == b.input
           scr == b.scratch
           c == lesser(in.size, scr.size)
           d == lesser(out.size, scr.size)
           m(k) == Reached(program(b), k)
<1>1. /\ out \in View /\ in \in View /\ scr \in View
      /\ ~overlap(out, in) /\ ~overlap(scr, in) /\ ~overlap(out, scr)
  BY CallType, AcceptedMeans
<1>2. program(b) = << Loop("copy", scr, in, c), Loop("copy", out, scr, d),
                      Loop("fill", scr, scr, scr.size) >>
  BY ProgramIs DEF phases
<1>3. m(3) \in [Addresses -> Byte]
  <2>1. Len(program(b)) = 3 /\ 3 \in 0 .. Len(program(b))
    BY <1>2
  <2> QED
    BY <2>1, ReachedType
<1>4. ASSUME NEW a \in Addresses
      PROVE  /\ m(1)[a] = IF HasCorresponding(scr, in, a) THEN {Corresponding(scr, in, a)} ELSE {a}
             /\ m(2)[a] = IF HasCorresponding(out, scr, a) THEN m(1)[Corresponding(out, scr, a)]
                                                           ELSE m(1)[a]
             /\ m(3)[a] = IF IsElement(scr, a) THEN {} ELSE m(2)[a]
  <2> HIDE DEF out, in, scr, c, d
  <2>1. /\ m(1) = Whole(Loop("copy", scr, in, c), Fresh)
        /\ m(2) = Whole(Loop("copy", out, scr, d), m(1))
        /\ m(3) = Whole(Loop("fill", scr, scr, scr.size), m(2))
    BY <1>2 DEF Reached
  <2>2. /\ IsElement(scr, a) <=> Within(scr, scr.size, a)
        /\ HasCorresponding(out, scr, a) <=> Within(out, d, a)
    BY <1>1, CorrespondingIs DEF d
  <2>3. c = lesser(scr.size, in.size)
    <3>1. in.size \in Nat /\ scr.size \in Nat
      BY <1>1, ViewType
    <3> QED
      BY <3>1, LesserIs DEF c
  <2>4. m(1)[a] = IF HasCorresponding(scr, in, a) THEN {Corresponding(scr, in, a)} ELSE {a}
    <3>1. m(1) = Whole(Loop("copy", scr, in, lesser(scr.size, in.size)), Fresh)
      BY <2>1, <2>3
    <3> HIDE DEF m
    <3> QED
      BY <1>1, <3>1, FirstCopy
  <2> HIDE DEF m
  <2>5. m(2)[a] = IF HasCorresponding(out, scr, a) THEN m(1)[Corresponding(out, scr, a)]
                                                   ELSE m(1)[a]
    BY <2>1, <2>2, CopyIs
  <2>6. m(3)[a] = IF IsElement(scr, a) THEN {} ELSE m(2)[a]
    BY <2>1, <2>2, FillIs
  <2> QED
    BY <2>4, <2>5, <2>6
<1>5. ASSUME NEW a \in Addresses, HasCorresponding(out, scr, a)
      PROVE  LET e == Corresponding(out, scr, a)
             IN  /\ e \in Addresses /\ ~IsElement(scr, a)
                 /\ Corresponding(scr, in, e) = Corresponding(out, in, a)
                 /\ HasCorresponding(scr, in, e) <=> HasCorresponding(out, in, a)
  <2> DEFINE e == Corresponding(out, scr, a)
  <2>1. IsElement(out, a) /\ IsElement(scr, e) /\ e \in Addresses /\ ~IsElement(scr, a)
    BY <1>1, <1>5, CorrespondingIs DEF HasCorresponding, IsElement, overlap
  <2>2. Corresponding(scr, in, e) = Corresponding(out, in, a)
    <3>1. out.data \in Nat /\ scr.data \in Nat /\ in.data \in Nat /\ a \in Int
      BY <1>1, ViewType DEF Addresses
    <3> QED
      BY <3>1 DEF Corresponding
  <2> QED
    BY <2>1, <2>2 DEF HasCorresponding
<1> HIDE DEF m, out, in, scr, c, d
<1>6. ASSUME NEW a \in Addresses
      PROVE  m(3)[a] = IF HasCorresponding(out, scr, a)
                         THEN IF HasCorresponding(out, in, a) THEN {Corresponding(out, in, a)}
                                                              ELSE {Corresponding(out, scr, a)}
                         ELSE IF IsElement(scr, a) THEN {} ELSE {a}
  <2>1. CASE HasCorresponding(out, scr, a)
    <3> DEFINE e == Corresponding(out, scr, a)
    <3>1. /\ e \in Addresses /\ ~IsElement(scr, a)
          /\ Corresponding(scr, in, e) = Corresponding(out, in, a)
          /\ HasCorresponding(scr, in, e) <=> HasCorresponding(out, in, a)
      BY <1>5, <2>1
    <3>2. m(3)[a] = m(1)[e]
      BY <1>4, <2>1, <3>1
    <3> HIDE DEF e
    <3>3. m(1)[e] = IF HasCorresponding(out, in, a) THEN {Corresponding(out, in, a)} ELSE {e}
      BY <1>4, <3>1
    <3> QED
      BY <2>1, <3>2, <3>3 DEF e
  <2>2. CASE ~HasCorresponding(out, scr, a)
    <3>1. HasCorresponding(scr, in, a) => IsElement(scr, a)
      BY DEF HasCorresponding
    <3> QED
      BY <1>4, <2>2, <3>1
  <2> QED
    BY <2>1, <2>2
<1>7. ASSUME NEW a \in Addresses
      PROVE  atomically(b)[a] =
               IF HasCorresponding(out, scr, a)
                 THEN IF HasCorresponding(out, in, a) THEN {Corresponding(out, in, a)}
                                                      ELSE {Corresponding(out, scr, a)}
                 ELSE IF IsElement(scr, a) THEN {} ELSE {a}
  <2>1. ~(HasCorresponding(out, scr, a) /\ IsElement(scr, a))
    BY <1>5
  <2> QED
    BY <2>1 DEF atomically, out, in, scr
<1>8. atomically(b) = [a \in Addresses |-> atomically(b)[a]]
  BY DEF atomically
<1>9. m(3) = atomically(b)
  BY <1>3, <1>6, <1>7, <1>8
<1> QED
  BY <1>9 DEF m

\* So an operation whose loops all have run has the effect it promises.
LEMMA LoopsAreAtomic ==
  ASSUME NEW b \in Calls, accepted(b)
  PROVE  Reached(program(b), Len(program(b))) = atomically(b)
<1>1. CASE b.operation = "copy_chunk"
  <2>1. Len(program(b)) = 1
    BY <1>1, ProgramIs
  <2> QED
    BY <1>1, <2>1, CopyChunkIsAtomic
<1>2. CASE b.operation = "process_in_stages"
  <2>1. Len(program(b)) = 3
    BY <1>2, ProgramIs DEF stages
  <2> QED
    BY <1>2, <2>1, StagesAreAtomic
<1>3. CASE b.operation = "processing_buffers"
  <2>1. Len(program(b)) = 3
    BY <1>3, ProgramIs DEF phases
  <2> QED
    BY <1>3, <2>1, PhasesAreAtomic
<1> QED
  BY <1>1, <1>2, <1>3, CallType DEF Operations

-----------------------------------------------------------------------------
(* The specification.                                                      *)

LEMMA NoCall == NoBuffers \notin Calls
BY DEF NoBuffers, Calls

LEMMA Initially == Init => IInv
<1> SUFFICES ASSUME Init PROVE IInv
  OBVIOUS
<1>1. TypeOK
  BY FreshType, ConstantsAssumption DEF Init, TypeOK
<1>2. Progress
  BY DEF Init, Progress
<1> QED
  BY <1>1, <1>2 DEF IInv

\* What the loop that is running may be taken to be.
LEMMA Running ==
  ASSUME IInv, result = "running"
  PROVE  /\ buffers \in Calls /\ accepted(buffers)
         /\ loops \in Seq(Loops) /\ loops # << >> /\ Len(loops) \in Nat \ {0}
         /\ Head(loops) = loops[1]
         /\ Len(program(buffers)) \in {1, 3}
         /\ Passed \in 0 .. Len(program(buffers)) - 1
         /\ Len(loops) = Len(program(buffers)) - Passed
         /\ loops[1] = program(buffers)[Passed + 1]
         /\ Separate(loops[1])
         /\ index \in Nat /\ index \in 0 .. loops[1].count /\ loops[1].count \in Nat
         /\ Reached(program(buffers), Passed) \in [Addresses -> Byte]
         /\ memory = Effect(loops[1], index, Reached(program(buffers), Passed))
         /\ Reached(program(buffers), Passed + 1) =
              Whole(loops[1], Reached(program(buffers), Passed))
<1>1. buffers \in Calls /\ accepted(buffers)
  BY DEF IInv, Progress
<1>2. /\ loops \in Seq(Loops) /\ loops # << >>
      /\ Passed \in 0 .. Len(program(buffers)) - 1
      /\ \A i \in 1 .. Len(loops) : loops[i] = program(buffers)[Passed + i]
      /\ index <= loops[1].count /\ index \in 0 .. MaxSize
      /\ memory = Effect(loops[1], index, Reached(program(buffers), Passed))
  BY DEF IInv, Progress, TypeOK
<1>3. /\ Len(program(buffers)) \in {1, 3}
      /\ \A i \in 1 .. Len(program(buffers)) : Separate(program(buffers)[i])
  BY <1>1, ProgramSeparate
<1>4. Len(loops) \in Nat \ {0} /\ Head(loops) = loops[1]
  BY <1>2
<1>5. Len(loops) = Len(program(buffers)) - Passed
  BY <1>3, <1>4 DEF Passed
<1>6. loops[1] = program(buffers)[Passed + 1] /\ Passed + 1 \in 1 .. Len(program(buffers))
  BY <1>2, <1>3, <1>4
<1>7. Separate(loops[1])
  BY <1>3, <1>6
<1>8. loops[1].count \in Nat /\ index \in Nat
  BY <1>2, <1>7, ConstantsAssumption DEF Separate, Loops
<1>9. Reached(program(buffers), Passed) \in [Addresses -> Byte]
  BY <1>1, <1>2, <1>3, ReachedType
<1>10. Reached(program(buffers), Passed + 1) = Whole(loops[1], Reached(program(buffers), Passed))
  <2>1. Passed \in {0, 1, 2}
    BY <1>2, <1>3
  <2> HIDE DEF Passed
  <2> QED
    BY <1>6, <2>1, ReachedIs
<1> QED
  BY <1>1, <1>2, <1>3, <1>4, <1>5, <1>6, <1>7, <1>8, <1>9, <1>10

LEMMA BeginKeeps == ASSUME IInv, NEW b \in Calls, Begin(b) PROVE IInv'
<1>1. /\ buffers' = b /\ memory' = Fresh /\ index' = 0 /\ b # NoBuffers
      /\ MaxSize \in Nat
  BY NoCall, ConstantsAssumption DEF IInv, Progress, Begin
<1>2. CASE accepted(b) /\ loops' = program(b) /\ result' = "running"
  <2>1. /\ program(b) \in Seq(Loops) /\ Len(program(b)) \in {1, 3}
        /\ \A i \in 1 .. Len(program(b)) : Separate(program(b)[i])
    BY <1>2, ProgramSeparate
  <2>2. program(b) # << >> /\ Separate(program(b)[1])
    BY <2>1
  <2>3. Fresh = Effect(program(b)[1], 0, Reached(program(b), 0))
    BY <2>2, ReachedIs, FreshType, EffectOfNone
  <2>4. 0 <= program(b)[1].count
    BY <2>2, ConstantsAssumption DEF Separate, Loops
  <2>5. Passed' = 0
    BY <1>1, <1>2, <2>1 DEF Passed
  <2>6. TypeOK'
    BY <1>1, <1>2, <2>1, <2>2, FreshType DEF TypeOK
  <2>7. Progress'
    <3>1. \A i \in 1 .. Len(program(b)) : program(b)[i] = program(b)[0 + i]
      OBVIOUS
    <3>2. 0 \in 0 .. Len(program(b)) - 1
      BY <2>1
    <3> QED
      BY <1>1, <1>2, <2>1, <2>3, <2>4, <2>5, <3>1, <3>2 DEF Progress
  <2> QED
    BY <2>6, <2>7 DEF IInv
<1>3. CASE ~accepted(b) /\ loops' = << >> /\ result' = "false"
  <2>1. TypeOK'
    BY <1>1, <1>3, FreshType DEF TypeOK
  <2>2. Progress'
    BY <1>1, <1>3 DEF Progress
  <2> QED
    BY <2>1, <2>2 DEF IInv
<1> QED
  BY <1>2, <1>3 DEF Begin

LEMMA IterateKeeps == ASSUME IInv, Iterate PROVE IInv'
<1>1. result = "running" /\ index \in 0 .. MaxSize
  BY DEF IInv, TypeOK, Iterate
<1> DEFINE loop == loops[1]
           before == Reached(program(buffers), Passed)
<1>2. /\ Separate(loop) /\ index \in Nat /\ loop.count \in Nat /\ Head(loops) = loop
      /\ before \in [Addresses -> Byte]
      /\ memory = Effect(loop, index, before)
  BY <1>1, Running
<1>3. /\ index < loop.count /\ index' = index + 1
      /\ UNCHANGED <<buffers, loops, result>>
      /\ memory' = [memory EXCEPT ![At(loop.to, index)] = value(loop, index)]
  BY <1>2 DEF Iterate
<1>4. index' \in 0 .. loop.count /\ index' \in 0 .. MaxSize
  BY <1>2, <1>3, ConstantsAssumption DEF Separate, Loops
<1> HIDE DEF before
<1>5. memory' = Effect(loop, index', before)
  <2>1. memory' = Effect(Head(loops), index + 1, before)
    <3> HIDE DEF loop
    <3> QED
      BY <1>2, IterateIsEffect
  <2> QED
    BY <1>2, <1>3, <2>1
<1> HIDE DEF loop
<1>6. memory' \in [Addresses -> Byte]
  BY <1>2, <1>4, <1>5, EffectType
<1>7. TypeOK'
  BY <1>3, <1>4, <1>6 DEF IInv, TypeOK
<1>8. Progress'
  <2>1. Passed' = Passed
    BY <1>3 DEF Passed
  <2>2. index' <= loop.count
    BY <1>4
  <2> QED
    BY <1>1, <1>3, <1>5, <2>1, <2>2 DEF IInv, Progress, loop, before
<1> QED
  BY <1>7, <1>8 DEF IInv

LEMMA LoopEndsKeeps == ASSUME IInv, LoopEnds PROVE IInv'
<1>1. result = "running"
  BY DEF IInv, TypeOK, LoopEnds
<1> DEFINE p == program(buffers)
<1>2. /\ buffers \in Calls /\ accepted(buffers)
      /\ loops \in Seq(Loops) /\ loops # << >> /\ Len(loops) \in Nat \ {0}
      /\ Len(p) \in {1, 3} /\ Passed \in 0 .. Len(p) - 1
      /\ Len(loops) = Len(p) - Passed
      /\ memory = Reached(p, Passed + 1)
  BY <1>1, Running DEF LoopEnds, Whole
<1>3. \A i \in 1 .. Len(loops) : loops[i] = p[Passed + i]
  BY <1>1 DEF IInv, Progress
<1>4. /\ loops' = Tail(loops) /\ index' = 0
      /\ memory' = memory /\ buffers' = buffers
      /\ result' = IF Tail(loops) = << >> THEN "true" ELSE "running"
  BY DEF LoopEnds, finished
<1>5. /\ Tail(loops) \in Seq(Loops) /\ Len(Tail(loops)) = Len(loops) - 1
      /\ \A i \in 1 .. Len(Tail(loops)) : Tail(loops)[i] = loops[i + 1]
  BY <1>2, HeadTailProperties
<1>6. memory \in [Addresses -> Byte] /\ buffers # NoBuffers /\ MaxSize \in Nat
  BY <1>2, NoCall, ConstantsAssumption DEF IInv, TypeOK
<1>7. TypeOK'
  <2>1. Len(Tail(loops)) <= 3
    BY <1>2, <1>5
  <2> QED
    BY <1>2, <1>4, <1>6, <2>1 DEF TypeOK
<1> HIDE DEF Passed
<1>8. CASE Tail(loops) = << >>
  <2>1. Passed + 1 = Len(p)
    BY <1>2, <1>5, <1>8
  <2> QED
    BY <1>2, <1>4, <1>7, <1>8, <2>1 DEF IInv, Progress
<1>9. CASE Tail(loops) # << >>
  <2>1. Len(Tail(loops)) >= 1
    BY <1>5, <1>9
  <2>2. Passed' = Passed + 1 /\ Passed + 1 \in 0 .. Len(p) - 1
    BY <1>2, <1>4, <1>5, <2>1 DEF Passed
  <2>3. \A i \in 1 .. Len(Tail(loops)) : Tail(loops)[i] = p[Passed + 1 + i]
    <3>1. ASSUME NEW i \in 1 .. Len(Tail(loops))
          PROVE  Tail(loops)[i] = p[Passed + 1 + i]
      <4>1. i + 1 \in 1 .. Len(loops) /\ Passed + (i + 1) = Passed + 1 + i
        BY <1>2, <1>5
      <4> QED
        BY <1>3, <1>5, <4>1
    <3> QED
      BY <3>1
  <2>4. Tail(loops)[1] = p[Passed + 1 + 1] /\ Passed + 1 + 1 \in 1 .. Len(p)
    <3>1. 1 \in 1 .. Len(Tail(loops))
      BY <1>2, <1>5, <2>1
    <3>2. Tail(loops)[1] = p[Passed + 1 + 1]
      BY <2>3, <3>1
    <3> QED
      BY <1>2, <2>2, <3>2
  <2>5. Separate(Tail(loops)[1])
    BY <1>2, <2>4, ProgramSeparate
  <2>6. Reached(p, Passed + 1) \in [Addresses -> Byte]
    BY <1>2, <2>2, ReachedType
  <2>7. memory = Effect(Tail(loops)[1], 0, Reached(p, Passed + 1))
    BY <1>2, <2>5, <2>6, EffectOfNone
  <2>8. 0 <= Tail(loops)[1].count
    BY <2>5, CountIsNat
  <2>9. Progress'
    BY <1>2, <1>4, <1>5, <1>9, <2>2, <2>3, <2>7, <2>8 DEF Progress
  <2> QED
    BY <1>7, <2>9 DEF IInv
<1> QED
  BY <1>8, <1>9

LEMMA ConsumeKeeps == ASSUME IInv, Consume PROVE IInv'
<1>1. loops' = << >> /\ index' = 0 /\ memory' = Fresh /\ buffers' = NoBuffers /\ result' = "idle"
  BY DEF IInv, Progress, Consume
<1> QED
  BY <1>1, FreshType, ConstantsAssumption DEF IInv, TypeOK, Progress

LEMMA StepKeeps == IInv /\ [Next]_vars => IInv'
<1> SUFFICES ASSUME IInv, [Next]_vars PROVE IInv'
  OBVIOUS
<1>1. CASE UNCHANGED vars
  BY <1>1 DEF vars, IInv, TypeOK, Progress, Passed
<1> QED
  BY <1>1, BeginKeeps, IterateKeeps, LoopEndsKeeps, ConsumeKeeps DEF Next

LEMMA Invariant == Spec => []IInv
BY Initially, StepKeeps, PTL DEF Spec

\* Types are as declared, in every state of every instance.
THEOREM TypeCorrect == Spec => []TypeOK
<1>1. IInv => TypeOK
  BY DEF IInv
<1> QED
  BY <1>1, Invariant, PTL

\* Whenever copy_chunk, process_in_stages or processing_buffers has returned true, the memory
\* is what it would be if all input had been read before anything was written.
THEOREM OperationsAreAtomic == Spec => []AsIfAtomic
<1>1. IInv => AsIfAtomic
  BY LoopsAreAtomic DEF IInv, Progress, AsIfAtomic
<1> QED
  BY <1>1, Invariant, PTL

\* An operation returns false exactly when two of its buffers share a byte, or
\* copy_chunk is given two sizes.
THEOREM RejectionsAreRight == Spec => []RejectedRightly
<1>1. IInv => RejectedRightly
  <2> SUFFICES ASSUME IInv, result # "idle"
               PROVE  result = "false" <=>
                        ~(/\ \A r, s \in Roles(buffers) :
                               r # s => ~overlap(buffers[r], buffers[s])
                          /\ buffers.operation = "copy_chunk" =>
                               buffers.input.size = buffers.output.size)
    BY DEF RejectedRightly
  <2>1. buffers \in Calls /\ result \in {"running", "true", "false"}
    BY DEF IInv, TypeOK, Progress
  <2>2. accepted(buffers) <=> result # "false"
    BY <2>1 DEF IInv, Progress
  <2>3. (\A r, s \in Roles(buffers) : r # s => ~overlap(buffers[r], buffers[s]))
          <=> /\ ~overlap(buffers.output, buffers.input)
              /\ buffers.operation = "processing_buffers" =>
                   /\ ~overlap(buffers.scratch, buffers.input)
                   /\ ~overlap(buffers.output, buffers.scratch)
    BY OverlapIsSymmetric DEF Roles
  <2> QED
    BY <2>1, <2>2, <2>3, AcceptedMeans
<1> QED
  BY <1>1, Invariant, PTL

=============================================================================
