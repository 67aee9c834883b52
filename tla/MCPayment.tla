----------------------------- MODULE MCPayment -----------------------------
(* Instance of Payment for TLC: the constants are in the configurations.    *)
EXTENDS Payment
=============================================================================
