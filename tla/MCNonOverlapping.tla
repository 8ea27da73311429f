-------------------------- MODULE MCNonOverlapping --------------------------
(* Every pair of ranges of up to three bytes in a store of six: separated, *)
(* touching, nested, equal and empty ones, at every distance.              *)
EXTENDS NonOverlapping
=============================================================================
