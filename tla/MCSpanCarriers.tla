--------------------------- MODULE MCSpanCarriers ---------------------------
(* A vector of up to four elements that moves between two allocations      *)
(* whose addresses overlap.  One slot is enough: a call writes one slot    *)
(* and reads one slot, and no property relates two of them; the proofs are *)
(* for any set of slots.                                                   *)
EXTENDS SpanCarriers
=============================================================================
