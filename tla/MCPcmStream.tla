---------------------------- MODULE MCPcmStream -----------------------------
(* Instances of PcmStream for TLC. *)
EXTENDS PcmStream

CONSTANTS c1, c2
=============================================================================
