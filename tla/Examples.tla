------------------------------- MODULE Examples -------------------------------
(***************************************************************************)
(* The example programs over spans side by side: those that loop over      *)
(* equally long spans (SameSize, whose names are the plain ones: Init,     *)
(* Next), those that validate at a boundary (Consumers), and a client of   *)
(* block_span's iterator beside the loop of checksum_blocks()              *)
(* (BlockIterator).  They are separate programs and share nothing: a step  *)
(* of one leaves the others' variables alone.                              *)
(***************************************************************************)
EXTENDS SameSize, Consumers, BlockIterator

\* They share nothing, so that it is enough to run one after the other.
Quiet == result = "idle"
Unused == raw = Nothing
Still == IteratorInit

ExamplesVars == <<vars, consumer_vars, IteratorVars>>

ExamplesInit == Init /\ ConsumersInit /\ IteratorInit
ExamplesNext ==
  \/ Still /\ Unused /\ Next /\ UNCHANGED <<consumer_vars, IteratorVars>>
  \/ Still /\ Quiet /\ ConsumersNext /\ UNCHANGED <<vars, IteratorVars>>
  \/ Quiet /\ Unused /\ IteratorNext /\ UNCHANGED <<vars, consumer_vars>>
ExamplesSpec == ExamplesInit /\ [][ExamplesNext]_ExamplesVars

=============================================================================
