---------------------------- MODULE BlockIterator ----------------------------
(***************************************************************************)
(* block_span<T, N>::iterator: positions that a client obtains from its    *)
(* block_span, moves, copies and compares while the block_span itself is   *)
(* assigned other blocks (the range is a borrowed one), and the range-for  *)
(* loop of checksum_blocks(), which runs on a copy of the block_span.      *)
(*                                                                         *)
(* Moving a position off its range, or beyond its end, is undefined as for *)
(* every random-access iterator: those calls are left out, with the range  *)
(* a position was obtained from kept as history.  How a block_span is      *)
(* validated is module SpanCarriers.                                       *)
(*                                                                         *)
(* A definition Mutant_x is x with a fault, and is used by no other one.   *)
(***************************************************************************)
EXTENDS Integers, Sequences

CONSTANTS
  N,         \* elements of a block
  Bases,     \* addresses that views start at
  MaxCount,  \* bound: blocks of a view
  Cursors    \* the client's iterator variables

ASSUME IteratorAssumption ==
  /\ N \in Nat \ {0}
  /\ Bases \subseteq Nat \ {0}
  /\ MaxCount \in Nat

VARIABLES
  blocks,   \* the view of the client's block_span
  it,       \* its iterators: base_ and index_
  range,    \* history: the view that each iterator belongs to
  loop      \* the loop of checksum_blocks(): its range, position, end, and the
            \* addresses that it has summed up

IteratorVars == <<blocks, it, range, loop>>

NullView == [data |-> 0, size |-> 0]
View == [data : Bases, size : {n * N : n \in 0 .. MaxCount}] \cup {NullView}
count(v) == v.size \div N

-----------------------------------------------------------------------------
(* The iterator.                                                           *)

position(base, index) == [base |-> base, index |-> index]
begin(v) == position(v.data, 0)

\* Ends where the elements end, not the blocks.
Mutant_end(v) == position(v.data, v.size)
end(v) == position(v.data, count(v))

plus(p, offset) == position(p.base, p.index + offset)
minus(p, offset) == position(p.base, p.index - offset)

distance(left, right) == left.index - right.index

\* The defaulted comparison: base_ before index_.
less(left, right) ==
  \/ left.base < right.base
  \/ left.base = right.base /\ left.index < right.index

\* operator*: a span of N elements.
Mutant_dereference(p) == [data |-> p.base + p.index, size |-> N]
dereference(p) == [data |-> p.base + p.index * N, size |-> N]
subscript(p, offset) == dereference(plus(p, offset))

\* block_span::operator[]
block(v, index) == [data |-> v.data + index * N, size |-> N]

-----------------------------------------------------------------------------
(* The client.                                                             *)

\* Its block_span is assigned another one.
Assign(v) == blocks' = v /\ UNCHANGED <<it, range, loop>>

Place(c, p, v) ==
  /\ it' = [it EXCEPT ![c] = p]
  /\ range' = [range EXCEPT ![c] = v]
  /\ UNCHANGED <<blocks, loop>>

TakeBegin(c) == Place(c, begin(blocks), blocks)
TakeEnd(c)   == Place(c, end(blocks), blocks)
Copy(c, d) == Place(c, it[d], range[d])

Valid(c, offset) == it[c].index + offset \in 0 .. count(range[c])

PlusAssign(c, offset)  == Valid(c, offset) /\ Place(c, plus(it[c], offset), range[c])
MinusAssign(c, offset) == Valid(c, -offset) /\ Place(c, minus(it[c], offset), range[c])
Increment(c) == PlusAssign(c, 1)
Decrement(c) == MinusAssign(c, 1)

\* The result of the postfix forms, put into another variable.
PostMove(c, d, offset) ==
  /\ Valid(c, offset) /\ c # d
  /\ it' = [it EXCEPT ![c] = plus(it[c], offset), ![d] = it[c]]
  /\ range' = [range EXCEPT ![d] = range[c]]
  /\ UNCHANGED <<blocks, loop>>
PostIncrement(c, d) == PostMove(c, d, 1)
PostDecrement(c, d) == PostMove(c, d, -1)

-----------------------------------------------------------------------------
(* checksum_blocks(blocks), with the block_span passed by value.           *)

Idle == [range |-> NullView, at |-> begin(NullView), last |-> end(NullView), summed |-> << >>]

Enter ==
  /\ loop.at = loop.last
  /\ loop' = [range |-> blocks, at |-> begin(blocks), last |-> end(blocks), summed |-> << >>]
  /\ UNCHANGED <<blocks, it, range>>

SumBlock ==
  /\ loop.at # loop.last
  /\ LET b == dereference(loop.at)
     IN  loop' = [loop EXCEPT !.at = plus(@, 1),
                              !.summed = @ \o [i \in 1 .. b.size |-> b.data + i - 1]]
  /\ UNCHANGED <<blocks, it, range>>

-----------------------------------------------------------------------------
IteratorInit ==
  /\ blocks = NullView
  /\ it = [c \in Cursors |-> position(0, 0)]
  /\ range = [c \in Cursors |-> NullView]
  /\ loop = Idle

Move(c) ==
  \/ TakeBegin(c) \/ TakeEnd(c) \/ Increment(c) \/ Decrement(c)
  \/ \E offset \in -MaxCount .. MaxCount : PlusAssign(c, offset) \/ MinusAssign(c, offset)

IteratorNext ==
  \/ \E v \in View : Assign(v)
  \/ \E c \in Cursors : Move(c)
  \/ \E c, d \in Cursors : Copy(c, d) \/ PostIncrement(c, d) \/ PostDecrement(c, d)
  \/ Enter \/ SumBlock

IteratorSpec == IteratorInit /\ [][IteratorNext]_IteratorVars

-----------------------------------------------------------------------------
(* Properties.                                                             *)

IteratorTypeOK ==
  /\ blocks \in View
  /\ range \in [Cursors -> View]
  /\ it \in [Cursors -> [base : Bases \cup {0}, index : 0 .. MaxCount]]
  /\ loop \in [range : View, at : [base : Bases \cup {0}, index : 0 .. MaxCount],
               last : [base : Bases \cup {0}, index : 0 .. MaxCount], summed : Seq(Nat)]

\* A position stands for the block of the view that it was obtained from, and
\* reaches every other block of that view, whatever has become of the block_span;
\* and among the views that start at one address, equality, order, distance and
\* movement of positions agree with each other and with the addresses.
Elements(v) == v.data .. v.data + v.size - 1
PositionsDenoteBlocks ==
  \A c \in Cursors : LET v == range[c] IN
    \A index \in 0 .. count(v) - 1 :
      LET b == subscript(it[c], index - it[c].index)
      IN  b = block(v, index) /\ Elements(b) \subseteq Elements(v)
PositionsAgree ==
  \A c, d \in Cursors : it[c].base = it[d].base =>
    /\ it[c] = it[d] <=> distance(it[c], it[d]) = 0
    /\ less(it[c], it[d]) <=> dereference(it[c]).data < dereference(it[d]).data
    /\ plus(it[c], distance(it[d], it[c])) = it[d]
    /\ minus(it[d], distance(it[d], it[c])) = it[c]
PositionsConsistent == PositionsDenoteBlocks /\ PositionsAgree

\* The loop sums up every element of its blocks once, in order, and no other.
EachElementOnce ==
  loop.at = loop.last => loop.summed = [i \in 1 .. loop.range.size |-> loop.range.data + i - 1]

=============================================================================
