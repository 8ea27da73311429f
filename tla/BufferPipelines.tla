--------------------------- MODULE BufferPipelines ---------------------------
(***************************************************************************)
(* The consumers of the non-overlap relation: copy_chunk (validated and    *)
(* consumed in one operation), process_in_stages (one carrier passed to    *)
(* three stages) and processing_buffers (three pairwise checks, then three *)
(* phases), each loop run element by element over one shared memory.       *)
(*                                                                         *)
(* A byte is a formal sum over GF(2) of the bytes the memory held when the *)
(* operation began and of One = std::byte{0x01}: the set of the summands.  *)
(* Copies, constants and ^= are linear, so one symbolic memory stands for  *)
(* every content, and two bytes are equal when their sums are.             *)
(*                                                                         *)
(* A definition Mutant_x is x with a fault, and is used by no other one.   *)
(***************************************************************************)
EXTENDS ByteRanges, Sequences, FiniteSetsExt

CONSTANTS
  Top,      \* bound: the memory is 1 .. Top
  MaxSize   \* bound: elements of a span

ASSUME ConstantsAssumption == Top \in Nat \ {0} /\ MaxSize \in Nat

VARIABLES
  memory,    \* the bytes
  buffers,   \* the spans the operation was called with
  loops,     \* the loops it still has to run
  index,     \* the iteration of the first of them
  result     \* "idle", "running", or what the operation returned

vars == <<memory, buffers, loops, index, result>>

Addresses == 1 .. Top
View == {v \in [data : Addresses, size : 0 .. MaxSize] : v.data + v.size <= Top + 1}
Operations == {"copy_chunk", "process_in_stages", "processing_buffers"}

One == 0
Byte == SUBSET ({One} \cup Addresses)
NoBuffers == [operation |-> "none"]
Fresh == [a \in Addresses |-> {a}]
xor(x, y) == (x \ y) \cup (y \ x)
At(v, i) == v.data + i
lesser(m, n) == Min({m, n})

-----------------------------------------------------------------------------
(* A loop writes the first "count" elements of "to", reading "from".       *)

Loop(write, to, from, count) ==
  [write |-> write, to |-> to, from |-> from, count |-> count]

\* stage_a, stage_b and stage_c, over one carrier.
stages(output, input) ==
  LET count == lesser(output.size, input.size)
  IN  << Loop("copy", output, input, count),
         Loop("flip", output, output, output.size),
         Loop("mix", output, input, count) >>

\* Clears the scratch buffer before its last use.
Mutant_phases(b) ==
  << Loop("copy", b.scratch, b.input, lesser(b.input.size, b.scratch.size)),
     Loop("fill", b.scratch, b.scratch, b.scratch.size),
     Loop("copy", b.output, b.scratch, lesser(b.output.size, b.scratch.size)) >>

phases(b) ==
  << Loop("copy", b.scratch, b.input, lesser(b.input.size, b.scratch.size)),
     Loop("copy", b.output, b.scratch, lesser(b.output.size, b.scratch.size)),
     Loop("fill", b.scratch, b.scratch, b.scratch.size) >>

program(b) ==
  CASE b.operation = "copy_chunk" ->
         << Loop("copy", b.output, b.input, b.input.size) >>
    [] b.operation = "process_in_stages" -> stages(b.output, b.input)
    [] b.operation = "processing_buffers" -> phases(b)

checked_non_overlapping(first, second) == ~storage_ranges_overlap(first, second)

\* Forgets one of the three pairs.
Mutant_accepted(b) ==
  /\ b.operation = "copy_chunk" => b.output.size = b.input.size
  /\ checked_non_overlapping(b.input, b.output)
  /\ checked_non_overlapping(b.output, b.scratch) \/ b.operation # "processing_buffers"

accepted(b) ==
  CASE b.operation = "copy_chunk" ->
         /\ b.output.size = b.input.size
         /\ checked_non_overlapping(b.output, b.input)
    [] b.operation = "process_in_stages" ->
         checked_non_overlapping(b.output, b.input)
    [] b.operation = "processing_buffers" ->
         /\ checked_non_overlapping(b.input, b.output)
         /\ checked_non_overlapping(b.input, b.scratch)
         /\ checked_non_overlapping(b.output, b.scratch)

\* What one iteration stores.
value(loop, i) ==
  LET to == memory[At(loop.to, i)]
      from == memory[At(loop.from, i)]
  IN  CASE loop.write = "copy" -> from
        [] loop.write = "flip" -> xor(to, {One})
        [] loop.write = "mix"  -> xor(to, from)
        [] loop.write = "fill" -> {}

-----------------------------------------------------------------------------
\* An operation begins: it validates, and returns false if that fails.
Begin(b) ==
  /\ result = "idle"
  /\ buffers' = b
  /\ UNCHANGED <<memory, index>>
  /\ \/ accepted(b) /\ loops' = program(b) /\ result' = "running"
     \/ ~accepted(b) /\ loops' = << >> /\ result' = "false"

Iterate ==
  /\ loops # << >>
  /\ index < Head(loops).count
  /\ memory' = [memory EXCEPT ![At(Head(loops).to, index)] = value(Head(loops), index)]
  /\ index' = index + 1
  /\ UNCHANGED <<buffers, loops, result>>

Mutant_finished(left) == Len(left) <= 1
finished(left) == left = << >>

\* A loop ends; with the last one the operation returns true.
LoopEnds ==
  /\ loops # << >>
  /\ index = Head(loops).count
  /\ loops' = Tail(loops)
  /\ index' = 0
  /\ result' = IF finished(loops') THEN "true" ELSE "running"
  /\ UNCHANGED <<memory, buffers>>

\* The client takes the result, and names the bytes anew for the next operation.
Consume ==
  /\ result \in {"true", "false"}
  /\ memory' = Fresh
  /\ buffers' = NoBuffers
  /\ result' = "idle"
  /\ UNCHANGED <<loops, index>>

\* Only processing_buffers has a scratch buffer: the others are given one that
\* they do not use.
Calls ==
  {b \in [operation : Operations, input : View, output : View, scratch : View] :
     b.operation # "processing_buffers" => b.scratch = b.input}

Init ==
  /\ memory = Fresh
  /\ buffers = NoBuffers
  /\ loops = << >>
  /\ index = 0
  /\ result = "idle"

Next == (\E b \in Calls : Begin(b)) \/ Iterate \/ LoopEnds \/ Consume
Spec == Init /\ [][Next]_vars

-----------------------------------------------------------------------------
(* Properties.                                                             *)

TypeOK ==
  /\ memory \in [Addresses -> Byte]
  /\ buffers \in Calls \cup {NoBuffers}
  /\ Len(loops) <= 3
  /\ index \in 0 .. MaxSize
  /\ result \in {"idle", "running", "true", "false"}
  /\ result = "running" <=> loops # << >>

\* The byte that a stored as element i of a span, were the operation atomic:
\* each output byte as a function of the bytes before the operation.
IsElement(v, a) == a \in Elements(v)
Corresponding(v, w, a) == w.data + (a - v.data)
HasCorresponding(v, w, a) == IsElement(v, a) /\ IsElement(w, Corresponding(v, w, a))
atomically(b) ==
  [a \in Addresses |->
     CASE b.operation = "copy_chunk" /\ IsElement(b.output, a) ->
            {Corresponding(b.output, b.input, a)}
       [] b.operation = "process_in_stages" /\ IsElement(b.output, a) ->
            IF HasCorresponding(b.output, b.input, a) THEN {One} ELSE {One, a}
       [] b.operation = "processing_buffers" /\ HasCorresponding(b.output, b.scratch, a) ->
            IF HasCorresponding(b.output, b.input, a)
              THEN {Corresponding(b.output, b.input, a)}
              ELSE {Corresponding(b.output, b.scratch, a)}
       [] b.operation = "processing_buffers" /\ IsElement(b.scratch, a) -> {}
       [] OTHER -> {a}]

\* An operation that was validated has the result that it would have if it
\* read all of its input first: no stage sees a byte that another one wrote.
AsIfAtomic == result = "true" => memory = atomically(buffers)

\* Validation fails exactly when two of the roles overlap, whichever they are
\* (and, for copy_chunk, when the sizes differ).
Roles(b) == IF b.operation = "processing_buffers" THEN {"input", "output", "scratch"}
                                                  ELSE {"input", "output"}
RejectedRightly ==
  LET apart == \A r, s \in Roles(buffers) : r # s => ~overlap(buffers[r], buffers[s])
      sized == buffers.operation = "copy_chunk" => buffers.input.size = buffers.output.size
  IN  result # "idle" => (result = "false" <=> ~(apart /\ sized))

=============================================================================
