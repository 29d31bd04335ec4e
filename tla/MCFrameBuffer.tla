--------------------------- MODULE MCFrameBuffer ----------------------------
(* Instances of FrameBuffer for TLC. *)
EXTENDS FrameBuffer

CONSTANTS c1, c2, i1, i2
=============================================================================
