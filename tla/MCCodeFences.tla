---------------------------- MODULE MCCodeFences ----------------------------
(* Small documents for TLC: with three-character markers a block can only  *)
(* nest through info strings, with four-character ones through length too. *)
(* Two lines are the least frontmatter and three leave a fence open in it. *)
EXTENDS CodeFences
=============================================================================
