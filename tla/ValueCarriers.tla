---------------------------- MODULE ValueCarriers ----------------------------
(***************************************************************************)
(* What precept does with single values: narrow_exact<T>, index_below<N>,  *)
(* nonzero<T> and aligned_ptr<T, N>, and the stride loop of decimate(),    *)
(* which relies on a factor that was validated elsewhere.                  *)
(*                                                                         *)
(* A client has a variable "raw", an integer of some type or a pointer,    *)
(* and keeps results in std::optional variables ("slots").  An argument is *)
(* converted to the parameter's type at the call, as C++ does: modulo the  *)
(* number of its values.                                                   *)
(*                                                                         *)
(* The fields "meant" and "from" are history: the mathematical value that  *)
(* a number had when it entered, and the type that it had at the call.  A  *)
(* disengaged optional keeps them, and the call that returned it.          *)
(*                                                                         *)
(* A definition Mutant_x is x with a fault, and is used by no other one.   *)
(***************************************************************************)
EXTENDS Integers, Sequences

CONSTANTS
  Slots,       \* the client's optional variables
  Types,       \* integer types: their least and greatest value
  Size,        \* std::size_t, which has as many values as there are addresses
  Factor,      \* the type of a decimation factor
  Alignments,  \* powers of two
  MaxN,        \* bound: largest template argument of index_below
  MaxElements  \* bound: elements of a span

Values(t) == t.min .. t.max
count(t) == t.max - t.min + 1

ASSUME ConstantsAssumption ==
  /\ \A t \in Types : /\ DOMAIN t = {"min", "max"} /\ t.max \in Nat
                      /\ t.min \in {0, -t.max - 1}
  /\ Size \in Types /\ Size.min = 0
  /\ Factor \in Types /\ Factor.min = 0 /\ Factor.max <= Size.max
  /\ Alignments \subseteq Nat \ {0}
  /\ \A m, n \in Alignments : n <= m => m % n = 0
  /\ \A n \in Alignments : count(Size) % n = 0
  /\ MaxN \in Nat
  \* no object has more bytes than half of the addresses
  /\ MaxElements \in Nat /\ 2 * MaxElements <= count(Size)

VARIABLES
  raw,      \* the client's integer or pointer
  carrier,  \* what each slot holds
  loop      \* decimate(): its parameters, locals, and the elements it has read

vars == <<raw, carrier, loop>>

convert(v, t) == t.min + ((v - t.min) % count(t))

\* A pointer is its address; null is 0.
Number(v, t) == [is |-> "number", type |-> t, value |-> v, meant |-> v]
Pointer(a)   == [is |-> "pointer", type |-> Size, value |-> a, meant |-> a]

Kinds == {"none", "index_below", "nonzero", "aligned_ptr"}
Result(kind, engaged, n, t, v) ==
  [kind |-> kind, engaged |-> engaged, n |-> n, type |-> t, value |-> v,
   meant |-> raw.meant, from |-> raw.type]

Idle == [state |-> "idle", input |-> 0, output |-> 0, step |-> 0, index |-> 0, read |-> << >>]
Waiting == loop.state = "idle"   \* no call of decimate() in progress
Running == loop.state = "running"

-----------------------------------------------------------------------------
(* The client.                                                             *)

Obtain(r) ==
  /\ Waiting
  /\ raw' = r
  /\ UNCHANGED <<carrier, loop>>

Store(s, c) ==
  /\ Waiting
  /\ carrier' = [carrier EXCEPT ![s] = c]
  /\ UNCHANGED <<raw, loop>>

Is(what) == raw.is = what

-----------------------------------------------------------------------------
(* narrow_exact<T>(raw): a result replaces the client's number.            *)

Mutant_in_range(v, t) == v <= t.max
in_range(v, t) == t.min <= v /\ v <= t.max

narrow_exact(t) ==
  /\ Is("number")
  /\ in_range(raw.value, t)
  /\ Obtain([raw EXCEPT !.type = t, !.value = convert(@, t)])

-----------------------------------------------------------------------------
(* index_below<N>::try_from(raw) and nonzero<T>::try_from(raw).            *)

IndexTryFrom(s, N) ==
  LET index == convert(raw.value, Size)
  IN  /\ Is("number")
      /\ Store(s, Result("index_below", index < N, N, Size, index))

NonzeroTryFrom(s, t) ==
  LET value == convert(raw.value, t)
  IN  /\ Is("number")
      /\ Store(s, Result("nonzero", value # 0, 0, t, value))

-----------------------------------------------------------------------------
(* aligned_ptr<T, N>.                                                      *)

\* std::align for an object that takes all of the space: there is no room to
\* move it up to the next multiple of N, and the result is null if it had to.
align(N, address) ==
  LET up == convert(address + N - 1, Size)
  IN  IF up - (up % N) = address THEN address ELSE 0

AlignedTryFrom(s, N) ==
  /\ Is("pointer")
  /\ Store(s, Result("aligned_ptr", raw.value = 0 \/ align(N, raw.value) = raw.value,
                     N, Size, raw.value))

Mutant_weakens(M, N) == N % M = 0
weakens(M, N) == M >= N

\* The converting constructor.
Weaken(s, t, N) ==
  /\ carrier[t].kind = "aligned_ptr" /\ carrier[t].engaged
  /\ weakens(carrier[t].n, N)
  /\ Store(s, [carrier[t] EXCEPT !.n = N])

\* get()
Get(t) ==
  /\ carrier[t].kind = "aligned_ptr" /\ carrier[t].engaged
  /\ Obtain(Pointer(carrier[t].value))

-----------------------------------------------------------------------------
(* decimate(input, output, decimation), with its factor from a slot.       *)

Enter(s, input, output) ==
  /\ Waiting
  /\ carrier[s].kind = "nonzero" /\ carrier[s].engaged /\ carrier[s].type = Factor
  /\ loop' = [state |-> "running", input |-> input, output |-> output,
              step |-> carrier[s].value, index |-> 0, read |-> << >>]
  /\ UNCHANGED <<raw, carrier>>

written == Len(loop.read)
Mutant_more == loop.index < loop.input /\ written <= loop.output
more == loop.index < loop.input /\ written < loop.output

Mutant_advance(index, step) == index + 1
advance(index, step) == convert(index + step, Size)

Iterate ==
  /\ Running /\ more
  /\ loop' = [loop EXCEPT !.index = advance(@, loop.step), !.read = Append(@, loop.index)]
  /\ UNCHANGED <<raw, carrier>>

Leave ==
  /\ Running /\ ~more
  /\ loop' = [loop EXCEPT !.state = "left"]
  /\ UNCHANGED <<raw, carrier>>

\* The client has used the output.
Consume ==
  /\ loop.state = "left"
  /\ loop' = Idle
  /\ UNCHANGED <<raw, carrier>>

\* How long its caller has planned the output to be.
decimated_length(input, step) == input \div step

-----------------------------------------------------------------------------
Raw == {Pointer(a) : a \in Values(Size)} \cup UNION {{Number(v, t) : v \in Values(t)} : t \in Types}
Nothing == [kind |-> "none", engaged |-> FALSE, n |-> 0, type |-> Size, value |-> 0,
            meant |-> 0, from |-> Size]

Init ==
  /\ raw = Pointer(0)
  /\ carrier = [s \in Slots |-> Nothing]
  /\ loop = Idle

Validate(s) ==
  \/ \E N \in 0 .. MaxN : IndexTryFrom(s, N)
  \/ \E t \in Types : NonzeroTryFrom(s, t)
  \/ \E N \in Alignments : AlignedTryFrom(s, N)

Next ==
  \/ \E r \in Raw : Obtain(r)
  \/ \E t \in Types : narrow_exact(t)
  \/ \E s \in Slots : Validate(s) \/ Get(s)
  \/ \E s, t \in Slots, N \in Alignments : Weaken(s, t, N)
  \/ \E s \in Slots, input, output \in 0 .. MaxElements : Enter(s, input, output)
  \/ Iterate \/ Leave \/ Consume

Spec == Init /\ [][Next]_vars

-----------------------------------------------------------------------------
(* Properties.                                                             *)

TypeOK ==
  /\ raw \in [is : {"number", "pointer"}, type : Types, value : Int, meant : Int]
  /\ raw.value \in Values(raw.type)
  /\ carrier \in [Slots -> [kind : Kinds, engaged : BOOLEAN, n : Nat, type : Types,
                            value : Int, meant : Int, from : Types]]
  /\ \A s \in Slots : carrier[s].value \in Values(carrier[s].type)
  /\ loop \in [state : {"idle", "running", "left"}, input : 0 .. MaxElements,
               output : 0 .. MaxElements, step : Values(Factor),
               index : Values(Size), read : Seq(Values(Size))]
  /\ written <= loop.output

\* Whatever was converted, weakened and passed on in between, the fact that a
\* carrier's type states is true of the value that it gives out.
FactHolds(c) ==
  /\ c.kind = "index_below" => c.value < c.n
  /\ c.kind = "nonzero" => c.value # 0
  /\ c.kind = "aligned_ptr" => c.value % c.n = 0
CarrierFacts == \A s \in Slots : carrier[s].engaged => FactHolds(carrier[s])

\* Facts are decided about the mathematical value that the client meant, and it
\* is what carriers give out: through any chain of narrow_exact calls; for an
\* index no wider than std::size_t below a bound that an array can have; and
\* for a number no wider than the nonzero's type.
Wider(t, u) == count(t) > count(u)
ExactIndex(c) ==
  ~Wider(c.from, Size) /\ 2 * c.n <= count(Size) =>
    IF c.engaged THEN c.value = c.meant ELSE c.meant \notin 0 .. c.n - 1
ExactNonzero(c) ==
  ~Wider(c.from, c.type) =>
    /\ c.engaged <=> c.meant # 0
    /\ c.meant \in Values(c.type) => c.value = c.meant
ExactAligned(c) == c.value = c.meant /\ (c.engaged <=> c.meant % c.n = 0)
Exact ==
  /\ raw.value = raw.meant
  /\ \A s \in Slots : LET c == carrier[s] IN
       /\ c.kind = "index_below" => ExactIndex(c)
       /\ c.kind = "nonzero" => ExactNonzero(c)
       /\ c.kind = "aligned_ptr" => ExactAligned(c)

\* decimate() reads every step-th element from the first one on, each once, as
\* many as there are and fit: its index never wraps around to earlier ones, and
\* an output of the planned length is filled.
Decimated ==
  LET l == loop
  IN  /\ \A k \in 1 .. written : l.read[k] = (k - 1) * l.step /\ l.read[k] < l.input
      /\ l.state = "left" =>
           /\ written = l.output \/ written * l.step >= l.input
           /\ l.output <= decimated_length(l.input, l.step) => written = l.output

=============================================================================
