------------------------------ MODULE Delivery ------------------------------
(***************************************************************************)
(* What a channel promises the switches at its two ends, without messages, *)
(* heights or revocations: the updates of each end reach the other end's   *)
(* switch in the order in which they were made, once, and none that was    *)
(* signed for is lost or taken back, whatever becomes of the connection.   *)
(* An update passes four points on its way; each is a longer or shorter    *)
(* beginning of the same sequence.  CommitProtocol implements it.          *)
(***************************************************************************)
EXTENDS Sequences, SequencesExt

CONSTANT Nodes  \* the two ends of the channel

VARIABLES
    signed,  \* the updates of n that its persisted signatures cover
    acked,   \* the peer's updates that n's own newest commitment includes
    mutual,  \* the updates of n that n's own newest commitment includes
    handed   \* the peer's updates that n's switch was given

deliveryVars == <<signed, acked, mutual, handed>>

OtherEnd(n) == CHOOSE m \in Nodes : m # n

DeliveryInit ==
    /\ signed = [n \in Nodes |-> <<>>]
    /\ acked = [n \in Nodes |-> <<>>]
    /\ mutual = [n \in Nodes |-> <<>>]
    /\ handed = [n \in Nodes |-> <<>>]

\* n signs for more of its updates, once the last signature was accepted.
SignMore(n) ==
    /\ acked[OtherEnd(n)] = signed[n]
    /\ IsPrefix(signed[n], signed'[n])
    /\ signed' = [signed EXCEPT ![n] = signed'[n]]
    /\ UNCHANGED <<acked, mutual, handed>>

\* n accepts its peer's signature, for all the peer signed for and for some of
\* n's own updates that the peer has accepted.
Accept(n) ==
    /\ acked' = [acked EXCEPT ![n] = signed[OtherEnd(n)]]
    /\ IsPrefix(mutual[n], mutual'[n])
    /\ IsPrefix(mutual'[n], acked[OtherEnd(n)])
    /\ mutual' = [mutual EXCEPT ![n] = mutual'[n]]
    /\ UNCHANGED <<signed, handed>>

\* n's switch is given what both newest commitments include.
HandOn(n) ==
    /\ IsPrefix(handed[n], mutual[OtherEnd(n)])
    /\ handed' = [handed EXCEPT ![n] = mutual[OtherEnd(n)]]
    /\ UNCHANGED <<signed, acked, mutual>>

DeliveryNext == \E n \in Nodes : SignMore(n) \/ Accept(n) \/ HandOn(n)

DeliverySpec == DeliveryInit /\ [][DeliveryNext]_deliveryVars
=============================================================================
