----------------------------- MODULE MCEvmWatch -----------------------------
(* Instance of EvmWatch for TLC: the constants are in the configurations.   *)
EXTENDS EvmWatch
=============================================================================
