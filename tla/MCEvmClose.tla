----------------------------- MODULE MCEvmClose -----------------------------
(***************************************************************************)
(* Two nodes, alice the initiator, and payloads told apart by their hash.  *)
(*                                                                         *)
(* From an open channel the updates that give two HTLCs of one direction,  *)
(* or of both, different indices are too many for TLC.  Synced starts from *)
(* a state that EvmSpec reaches with the same constants (TLC finds it as   *)
(* the violation of its negation): alice has offered index 0, bob index 1  *)
(* after his index 0 was failed, and each has one more update to make.  If *)
(* alice offers index 1, the ends' roots differ.                           *)
(***************************************************************************)
EXTENDS EvmClose

CONSTANTS alice, bob, p1, p2

MCNodes == {alice, bob}
HashOf == [p \in Payloads |-> <<p>>]

By(a, b) == [n \in Nodes |-> IF n = alice THEN a ELSE b]
Add(i, p) == [kind |-> "add", id |-> i, payload |-> p]
FailAdd == [kind |-> "rm", id |-> 0, payload |-> "fail"]

\* alice's first HTLC and the failed one of bob are done with on both ends'
\* commitments, the third of each, and bob's second HTLC has been received.
SyncedInit ==
    /\ log = By(<<Add(0, p2), FailAdd>>, <<Add(0, p1), Add(1, p2)>>)
    /\ rlog = [n \in Nodes |-> log[Peer(n)]]
    /\ fwd = By(<<Add(0, p1)>>, <<Add(0, p2), FailAdd>>)
    /\ local = By(Commit(3, 2, 1), Commit(3, 1, 2)) /\ tail = local
    /\ lastWasRevoke = By(TRUE, FALSE) /\ mustSign = By(FALSE, TRUE)
    /\ pending = [n \in Nodes |-> none]
    /\ synced = [n \in Nodes |-> TRUE]
    /\ net = [n \in Nodes |-> <<>>]
    /\ up = TRUE /\ drops = 0 /\ failed = [n \in Nodes |-> none]
    /\ ChainInit

Synced == SyncedInit /\ [][EvmNext]_evmVars /\ EvmFairness
=============================================================================
