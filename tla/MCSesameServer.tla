--------------------------- MODULE MCSesameServer ---------------------------
(* SesameServer for TLC: two streams over two resource names, as model values. *)
EXTENDS SesameServer

CONSTANTS s1, s2, n1, n2

TwoStreams == {s1, s2}
TwoNames == {n1, n2}
=============================================================================
