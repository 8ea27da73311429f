---------------------------- MODULE SpanCarriers ----------------------------
(***************************************************************************)
(* The span family of precept: at_least_span<T, N>, block_span<T, N> and   *)
(* checked_span<N>, used by a client that owns a vector, borrows it        *)
(* through a std::span and keeps carriers in a few variables ("slots").    *)
(*                                                                         *)
(* An action is one call of the library, with its template arguments as    *)
(* parameters and its requires-clause as a guard: a call that does not     *)
(* compile is an action that is not enabled.  std::span and std::vector    *)
(* are outside the repository and are modelled by what the headers use.    *)
(*                                                                         *)
(* The field "from" of a span or a carrier and the field "end" of a        *)
(* carrier are history: the span the client first handed over, and the end *)
(* of the view that was validated.  No guard reads them.                   *)
(*                                                                         *)
(* A definition Mutant_x is x with a plausible fault in it, and is used by *)
(* no other definition: with x replaced by it, some property must fail.    *)
(***************************************************************************)
EXTENDS Integers

CONSTANTS
  Slots,     \* the client's carrier variables
  Bases,     \* addresses at which an allocation of the vector may start
  Capacity,  \* bound: elements an allocation can hold
  MaxN,      \* bound: largest template argument N, M or Offset
  Dynamic    \* std::dynamic_extent

ASSUME ConstantsAssumption ==
  /\ Bases \subseteq Nat \ {0}
  /\ Capacity \in Nat
  /\ MaxN \in Nat
  /\ Dynamic \notin Nat

VARIABLES
  owner,    \* the vector: where its elements are and how many
  span,     \* the client's std::span variable
  carrier   \* what each slot holds

vars == <<owner, span, carrier>>

-----------------------------------------------------------------------------
(* std::span and its views.                                                *)

View == [data : Nat, size : Nat]
NullView == [data |-> 0, size |-> 0]
Elements(v) == v.data .. v.data + v.size - 1
Drop(v, k) == [data |-> v.data + k, size |-> v.size - k]
Take(v, k) == [data |-> v.data, size |-> k]

Element == {"mutable", "const"}   \* T and const T

Mutant_qualification_compatible(From, To) == From = To \/ From = "const"

\* std::is_convertible_v<From (*)[], To (*)[]>: const is added, never removed.
qualification_compatible(From, To) == From = To \/ To = "const"

Borrowed == [view : View, elem : Element]
StdSpan  == [view : View, elem : Element, extent : Nat \cup {Dynamic},
             from : Borrowed]

-----------------------------------------------------------------------------
(* The carriers.  A slot is the client's std::optional: disengaged, or one *)
(* of the two class templates with its template argument N.                *)

Nullopt == [kind |-> "nullopt", n |-> 0, elem |-> "mutable", view |-> NullView,
            from |-> [view |-> NullView, elem |-> "mutable"], end |-> 0]
Carrier == [kind : {"nullopt", "at_least", "blocks"}, n : Nat, elem : Element,
            view : View, from : Borrowed, end : Nat]

\* requires(N > 0 && N != std::dynamic_extent), for both class templates.
valid_argument(N) == N > 0 /\ N # Dynamic

\* Rounds the view down to a multiple of N where it should keep all of it.
Mutant_Carry(kind, N, T, v, from) ==
  [kind |-> kind, n |-> N, elem |-> T, view |-> Take(v, v.size - (v.size % N)),
   from |-> from, end |-> v.data + v.size]

\* A carrier over the whole of span v, which descends from the span "from".
Carry(kind, N, T, v, from) ==
  [kind |-> kind, n |-> N, elem |-> T, view |-> v, from |-> from,
   end |-> v.data + v.size]

Holds(s, kind) == carrier[s].kind = kind
Store(s, c) == carrier' = [carrier EXCEPT ![s] = c]
Assign(v, extent, T, from) ==
  span' = [view |-> v, elem |-> T, extent |-> extent, from |-> from]

-----------------------------------------------------------------------------
(* The owner and the client.  A resize within the capacity keeps the       *)
(* addresses; a reallocation ends the life of every element at the old one.*)

Resize(n) ==
  /\ owner' = [owner EXCEPT !.size = n]
  /\ UNCHANGED <<span, carrier>>

Reallocate(b, n) ==
  /\ b # owner.base
  /\ owner' = [base |-> b, size |-> n]
  /\ UNCHANGED <<span, carrier>>

\* The client points its span variable at part of the vector, with a dynamic
\* extent or with the fixed extent that a std::span<T, E> has.
Borrow(offset, count, fixed, T) ==
  /\ offset + count <= owner.size
  /\ LET v == [data |-> owner.base + offset, size |-> count]
     IN  Assign(v, IF fixed THEN count ELSE Dynamic, T, [view |-> v, elem |-> T])
  /\ UNCHANGED <<owner, carrier>>

\* A carrier variable goes out of scope, or its optional is reset.
Discard(s) ==
  /\ Store(s, Nullopt)
  /\ UNCHANGED <<owner, span>>

\* The defaulted copy and move operations of both templates.
CopyCarrier(s, t) ==
  /\ Store(s, carrier[t])
  /\ UNCHANGED <<owner, span>>

-----------------------------------------------------------------------------
(* at_least_span<T, N>                                                     *)

Mutant_too_short(v, N) == v.size + 1 < N
too_short(v, N) == v.size < N

AtLeastFromFixed(s, N, T) ==
  /\ valid_argument(N)
  /\ span.extent # Dynamic
  /\ span.extent >= N
  /\ qualification_compatible(span.elem, T)
  /\ Store(s, Carry("at_least", N, T, span.view, span.from))
  /\ UNCHANGED <<owner, span>>

AtLeastTryFrom(s, N, T) ==
  /\ valid_argument(N)
  /\ span.extent = Dynamic
  /\ qualification_compatible(span.elem, T)
  /\ \/ too_short(span.view, N) /\ Store(s, Nullopt)
     \/ ~too_short(span.view, N) /\ Store(s, Carry("at_least", N, T, span.view, span.from))
  /\ UNCHANGED <<owner, span>>

\* The converting constructor: at_least_span<U, M> in t to at_least_span<T, N>.
AtLeastWeaken(s, t, N, T) ==
  /\ Holds(t, "at_least")
  /\ valid_argument(N)
  /\ carrier[t].n >= N
  /\ qualification_compatible(carrier[t].elem, T)
  /\ Store(s, [carrier[t] EXCEPT !.n = N, !.elem = T])
  /\ UNCHANGED <<owner, span>>

\* subspan<Offset>() below N keeps the residual minimum ...
AtLeastSubspan(s, t, Offset) ==
  /\ Holds(t, "at_least")
  /\ Offset < carrier[t].n
  /\ Store(s, [carrier[t] EXCEPT !.n = @ - Offset, !.view = Drop(@, Offset)])
  /\ UNCHANGED <<owner, span>>

\* ... and at N the fact is used up: the result is a std::span, equal to rest().
AtLeastSubspanAll(t) ==
  /\ Holds(t, "at_least")
  /\ Assign(Drop(carrier[t].view, carrier[t].n), Dynamic, carrier[t].elem, carrier[t].from)
  /\ UNCHANGED <<owner, carrier>>

Mutant_prefix(c) == c.view

prefix(c) == Take(c.view, c.n)
rest(c)   == Drop(c.view, c.n)
front(c)  == c.view.data
back(c)   == c.view.data + c.view.size - 1
\* operator[] for an index below size(), and begin() to end().
elements(c) == {c.view.data + index : index \in 0 .. c.view.size - 1}

TakePrefix(t) ==
  /\ Holds(t, "at_least")
  /\ Assign(prefix(carrier[t]), carrier[t].n, carrier[t].elem, carrier[t].from)
  /\ UNCHANGED <<owner, carrier>>

TakeRest(t) ==
  /\ Holds(t, "at_least")
  /\ Assign(rest(carrier[t]), Dynamic, carrier[t].elem, carrier[t].from)
  /\ UNCHANGED <<owner, carrier>>

\* as_span() of either template, and the implicit weakening to std::span<T>.
AsSpan(t) ==
  /\ ~Holds(t, "nullopt")
  /\ Assign(carrier[t].view, Dynamic, carrier[t].elem, carrier[t].from)
  /\ UNCHANGED <<owner, carrier>>

-----------------------------------------------------------------------------
(* checked_span<N>: a match becomes a std::span of fixed extent N, which   *)
(* the client assigns to its variable; a mismatch leaves nothing to assign.*)

CheckedSpan(N) ==
  /\ span.extent \in {Dynamic, N}
  /\ span.view.size = N
  /\ Assign(Take(span.view, N), N, span.elem, span.from)
  /\ UNCHANGED <<owner, carrier>>

-----------------------------------------------------------------------------
(* block_span<T, N>                                                        *)

BlockDefault(s, N, T) ==
  /\ valid_argument(N)
  /\ Store(s, Carry("blocks", N, T, NullView, [view |-> NullView, elem |-> T]))
  /\ UNCHANGED <<owner, span>>

BlockFromFixed(s, N, T) ==
  /\ valid_argument(N)
  /\ span.extent # Dynamic
  /\ span.extent % N = 0
  /\ qualification_compatible(span.elem, T)
  /\ Store(s, Carry("blocks", N, T, span.view, span.from))
  /\ UNCHANGED <<owner, span>>

partial(v, N) == v.size % N # 0

BlockTryFrom(s, N, T) ==
  /\ valid_argument(N)
  /\ span.extent = Dynamic
  /\ qualification_compatible(span.elem, T)
  /\ \/ partial(span.view, N) /\ Store(s, Nullopt)
     \/ ~partial(span.view, N) /\ Store(s, Carry("blocks", N, T, span.view, span.from))
  /\ UNCHANGED <<owner, span>>

\* The converting constructor: same N, compatible qualification.
BlockQualify(s, t, T) ==
  /\ Holds(t, "blocks")
  /\ qualification_compatible(carrier[t].elem, T)
  /\ Store(s, [carrier[t] EXCEPT !.elem = T])
  /\ UNCHANGED <<owner, span>>

Mutant_block_count(c) == c.view.size \div c.n + 1
block_count(c) == c.view.size \div c.n

Mutant_block(c, index) == [data |-> c.view.data + index, size |-> c.n]

\* operator[] and, through base_ + index_ * N, a dereferenced iterator.
block(c, index) == [data |-> c.view.data + index * c.n, size |-> c.n]
blocks(c) == {block(c, i) : i \in 0 .. block_count(c) - 1}

-----------------------------------------------------------------------------
Init ==
  /\ owner \in [base : Bases, size : 0 .. Capacity]
  /\ span = [view |-> NullView, elem |-> "mutable", extent |-> Dynamic,
             from |-> [view |-> NullView, elem |-> "mutable"]]
  /\ carrier = [s \in Slots |-> Nullopt]

OwnerStep ==
  \E n \in 0 .. Capacity : Resize(n) \/ \E b \in Bases : Reallocate(b, n)

Validate(s, N, T) ==
  \/ AtLeastFromFixed(s, N, T) \/ AtLeastTryFrom(s, N, T)
  \/ BlockFromFixed(s, N, T) \/ BlockTryFrom(s, N, T) \/ BlockDefault(s, N, T)

Convert(s, t) ==
  \/ CopyCarrier(s, t)
  \/ \E T \in Element :
       BlockQualify(s, t, T) \/ \E N \in 0 .. MaxN : AtLeastWeaken(s, t, N, T)
  \/ \E Offset \in 0 .. MaxN : AtLeastSubspan(s, t, Offset)

Observe(t) == AtLeastSubspanAll(t) \/ TakePrefix(t) \/ TakeRest(t) \/ AsSpan(t)

Next ==
  \/ OwnerStep
  \/ \E offset, count \in 0 .. Capacity, fixed \in BOOLEAN, T \in Element :
       Borrow(offset, count, fixed, T)
  \/ \E N \in 0 .. MaxN : CheckedSpan(N)
  \/ \E s \in Slots : Discard(s) \/ Observe(s)
  \/ \E s \in Slots, N \in 0 .. MaxN, T \in Element : Validate(s, N, T)
  \/ \E s, t \in Slots : Convert(s, t)

Spec == Init /\ [][Next]_vars

-----------------------------------------------------------------------------
(* Properties.                                                             *)

TypeOK ==
  /\ owner \in [base : Nat, size : Nat]
  /\ span \in StdSpan
  /\ carrier \in [Slots -> Carrier]

\* A fixed-extent std::span that came out of prefix() or checked_span(), or
\* that the client formed, has exactly as many elements as its type says:
\* the from-fixed constructors look at the type alone.
ExtentIsSize == span.extent # Dynamic => span.view.size = span.extent

\* After any chain of validations, conversions and subviews an at_least_span
\* has its N elements and a block_span has no partial block.
FactHolds(c) ==
  /\ c.kind # "nullopt" => c.n > 0
  /\ c.kind = "at_least" => c.view.size >= c.n
  /\ c.kind = "blocks" => c.view.size % c.n = 0
CarrierFacts == \A s \in Slots : FactHolds(carrier[s])

\* Nothing a client can call widens a view beyond the span it first lent, or
\* gives mutable access to elements lent as const.
Within(v, elem, from) ==
  /\ from.view.data <= v.data
  /\ v.data + v.size <= from.view.data + from.view.size
  /\ from.elem = "const" => elem = "const"
Provenance ==
  /\ Within(span.view, span.elem, span.from)
  /\ \A s \in Slots : Within(carrier[s].view, carrier[s].elem, carrier[s].from)

\* Removing a prefix never truncates: a carrier still ends where the span that
\* was validated ended, however many subspan() calls lie in between.
NotTruncated ==
  \A s \in Slots : carrier[s].view.data + carrier[s].view.size = carrier[s].end

\* As long as the owner has not invalidated the span that was lent, every
\* element that front(), back(), an index, prefix(), rest() or a block of a carrier
\* can reach is alive: no chain of calls turns a valid borrow into a bad access.
Live == owner.base .. owner.base + owner.size - 1
Reach(c) ==
  CASE c.kind = "at_least" ->
         {front(c), back(c)} \cup elements(c) \cup Elements(prefix(c)) \cup Elements(rest(c))
    [] c.kind = "blocks" -> UNION {Elements(b) : b \in blocks(c)}
    [] OTHER -> {}
AccessSafe ==
  \A s \in Slots :
    Elements(carrier[s].from.view) \subseteq Live => Reach(carrier[s]) \subseteq Live

\* The blocks of a block_span, and prefix() with rest(), are a partition of
\* the complete view: no element is lost and none is seen twice.
BlocksTile(c) ==
  /\ UNION {Elements(b) : b \in blocks(c)} = Elements(c.view)
  /\ \A b1, b2 \in blocks(c) : b1 # b2 => Elements(b1) \cap Elements(b2) = {}
SplitTiles(c) ==
  /\ Elements(prefix(c)) \cup Elements(rest(c)) = Elements(c.view)
  /\ Elements(prefix(c)) \cap Elements(rest(c)) = {}
Partition ==
  \A s \in Slots :
    /\ carrier[s].kind = "blocks" => BlocksTile(carrier[s])
    /\ carrier[s].kind = "at_least" => SplitTiles(carrier[s])

=============================================================================
