--------------------------- MODULE MCValueCarriers ---------------------------
(* Eight addresses, signed and unsigned types as wide as std::size_t, one   *)
(* bit narrower and one bit wider, and alignments up to all addresses.      *)
EXTENDS ValueCarriers

Unsigned(max) == [min |-> 0, max |-> max]
Signed(max) == [min |-> -max - 1, max |-> max]

MCSize == Unsigned(7)
MCTypes == {Unsigned(3), Signed(1), MCSize, Signed(3), Unsigned(15), Signed(7)}
=============================================================================
