------------------------- MODULE MCBufferPipelines -------------------------
(* Six bytes hold three buffers of up to two or three bytes apart from one  *)
(* another, and every way in which two of them overlap.                     *)
EXTENDS BufferPipelines
=============================================================================
