---------------------------- MODULE MCHtlcMerkle ----------------------------
(* Which ends offer HTLCs, and how many of them are in flight at once.      *)
EXTENDS HtlcMerkle

CONSTANTS alice, bob

MCParties == {alice, bob}
OneWay == [n \in MCParties |-> IF n = alice THEN 6 ELSE 0]
TwoEach == [n \in MCParties |-> 2]
=============================================================================
