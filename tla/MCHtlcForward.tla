--------------------------- MODULE MCHtlcForward ----------------------------
(* Two HTLCs on their way through the node.                                 *)
EXTENDS HtlcForward

CONSTANTS k1, k2
=============================================================================
