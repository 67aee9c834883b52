-------------------------- MODULE MCChannelManager --------------------------
(***************************************************************************)
(* Instances of ChannelManager for TLC: two users with a channel in each   *)
(* direction share the pooled account.                                     *)
(***************************************************************************)
EXTENDS ChannelManager, TLC

CONSTANTS alice, bob, eve, s1, p1, h1, h2

MCSha256 == (p1 :> h1)
MCTokens == (alice :> 3) @@ (bob :> 1)
MCFundings == {<<2, 0>>, <<2, 1>>}

AB == <<alice, bob, s1>>
BA == <<bob, alice, s1>>

Htlc(i, amt, hash, lock, to) ==
    [index |-> i, amount |-> amt, hashlock |-> hash,
     timelock |-> lock, recipient |-> to]

\* HTLC sets of two offered payments: only the first hash has a known preimage.
Two == {Htlc(0, 1, h1, 2, bob), Htlc(1, 1, h2, 1, alice)}
\* A malformed set: one amount may exceed the pool and the other recipient is
\* not a participant.
Foreign == {Htlc(0, 3, h1, 1, bob), Htlc(1, 1, h2, 1, eve)}

\* A dispute: two state updates of one channel, the second with a malformed
\* set, a dual-funded open and a cooperative close.
DisputeDigests ==
    {OpenChannel(AB, 2, 1),
     StateUpdate(AB, 1, 0, 1, Two),
     StateUpdate(AB, 2, 0, 0, Foreign), CooperativeClose(AB, 2, 1, 1)}
=============================================================================
