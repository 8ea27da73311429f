--------------------------- MODULE MCNeverDecrease ---------------------------
(* Two objects, of the same policy or of two, of a two-bit T with a sign,  *)
(* and counts from below its values to above them: reports that come late, *)
(* twice, and changed by the conversion to T in either direction.          *)
EXTENDS NeverDecrease

MCLowest == -2
MCFirstCount == -4
=============================================================================
