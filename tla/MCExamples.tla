------------------------------ MODULE MCExamples ------------------------------
(* Two ids, so that spans of one size can correspond in part; bytes of one *)
(* bit, so that lengths and sequence numbers take all their bytes and go   *)
(* past them; datagrams one byte below, at and above both minima; views of *)
(* up to three two-element blocks that overlap.                            *)
EXTENDS Examples

SeqsUpTo(S, n) == UNION {[1 .. k -> S] : k \in 0 .. n}

MCDatagrams == SeqsUpTo(0 .. 1, 5)
MCReadings == SeqsUpTo(-1 .. 2, 3)
MCPayloads == 0 .. 5
MCSequenceNumbers == -2 .. 17
MCfields == <<[name |-> "version", width |-> 1], [name |-> "sequence", width |-> 2],
              [name |-> "kind", width |-> 1], [name |-> "timestamp", width |-> 3]>>
MCopcode_names == <<"nop", "load", "store">>
MCRawIndices == 0 .. 5
=============================================================================
