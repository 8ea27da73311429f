----------------------------- MODULE MCSetOnce -----------------------------
(* Three objects and three values: objects nested in the construction of   *)
(* others, and copies and moves between them while that goes on.           *)
EXTENDS SetOnce
=============================================================================
