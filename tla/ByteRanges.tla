----------------------------- MODULE ByteRanges -----------------------------
(* Spans of byte-sized elements as ranges of addresses, and the relation   *)
(* that checked_non_overlapping() decides about two of them.               *)
EXTENDS Integers

Elements(v) == v.data .. v.data + v.size - 1

\* What the relation is: some byte is shared.
overlap(v, w) == Elements(v) \cap Elements(w) # {}

\* What the code computes, with each scan taken as one membership test.
contains_element_address(elements, address) == address \in Elements(elements)
storage_ranges_overlap(first, second) ==
  /\ first.size > 0 /\ second.size > 0
  /\ \/ contains_element_address(first, second.data)
     \/ contains_element_address(second, first.data)

=============================================================================
