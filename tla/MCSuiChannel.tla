---------------------------- MODULE MCSuiChannel ----------------------------
(***************************************************************************)
(* Commitments of each party: those at height 1 carry an HTLC whose        *)
(* preimage gets known, those at height 2 add one of the same id in the    *)
(* other direction whose preimage does not, and leave part of the escrow   *)
(* to a commitment fee; one at height 3 spends more than the escrow.       *)
(***************************************************************************)
EXTENDS SuiChannel

Offer(d, i, a, h, e) ==
    [direction |-> d, id |-> i, amount |-> a, hash |-> h, expiry |-> e]

Commit(p, n, a, b, htlcs) ==
    [holder |-> p, state_num |-> n,
     balances |-> [q \in Parties |-> IF q = PartyA THEN a ELSE b],
     htlcs |-> htlcs]

MCCommitments ==
    UNION {{Commit(p, 0, 4, 0, {}),
            Commit(p, 1, 2, 0, {Offer(0, 0, 2, "r", 2)}),
            Commit(p, 2, 0, 1, {Offer(0, 0, 1, "r", 2),
                                Offer(1, 0, 1, "s", 3)})} : p \in Parties}
    \cup {Commit(PartyB, 3, 2, 1, {Offer(0, 0, 2, "r", 2)})}

MCCoopSplits ==
    {[state_num |-> 1, balances |-> [q \in Parties |-> 2]],
     [state_num |-> 0,
      balances |-> [q \in Parties |-> IF q = PartyA THEN 3 ELSE 0]]}

MCDelays == {1, 2, 3}
=============================================================================
