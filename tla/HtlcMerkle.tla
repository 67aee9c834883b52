----------------------------- MODULE HtlcMerkle -----------------------------
(***************************************************************************)
(* The Merkle tree of EvmMerkle over the active HTLCs of a commitment, for *)
(* every list of HTLCs that offers and removals in both directions can     *)
(* produce and either end builds (lnwallet/evm_commitment.go).             *)
(***************************************************************************)
EXTENDS EvmMerkle, SequencesExt

CONSTANTS
    Parties,    \* the two ends of the channel
    MaxActive,  \* bound on the HTLCs each end has in flight
    MaxIndex    \* bound on HTLC indices

VARIABLES
    offered,    \* the active HTLCs of each offerer, in the order of its log
    next        \* the next HTLC index of each offerer

merkleVars == <<offered, next>>

ASSUME PartiesAssumption == \E a, b \in Parties : a # b /\ Parties = {a, b}
ASSUME BoundsAssumption == MaxActive \in [Parties -> Nat] /\ MaxIndex \in Nat

Other(n) == CHOOSE m \in Parties : m # n

MerkleInit == /\ offered = [n \in Parties |-> <<>>]
              /\ next = [n \in Parties |-> 0]

\* An offerer numbers its own HTLCs (addHTLC of an update log).
Offer(n) ==
    /\ Len(offered[n]) < MaxActive[n] /\ next[n] <= MaxIndex
    /\ offered' = [offered EXCEPT ![n] =
                      Append(@, [index |-> next[n], recipient |-> Other(n)])]
    /\ next' = [next EXCEPT ![n] = @ + 1]

RemoveHTLC(n, i) ==
    /\ offered' = [offered EXCEPT ![n] = RemoveAt(@, i)]
    /\ UNCHANGED next

MerkleNext ==
    \E n \in Parties : \/ Offer(n)
                       \/ \E i \in 1 .. Len(offered[n]) : RemoveHTLC(n, i)

MerkleSpec == MerkleInit /\ [][MerkleNext]_merkleVars

-----------------------------------------------------------------------------
\* A node lists the HTLCs it offered before the ones it received.
buildEvmHTLCs(n) == offered[n] \o offered[Other(n)]

\* The settler can prove every HTLC of the committed set to the contract,
\* whatever the size of the set and whichever indices removals have left.
ProofsVerify ==
    \A n \in Parties :
        LET hs == buildEvmHTLCs(n)
        IN  \A i \in DOMAIN hs :
               VerifyHtlcMerkleProof(HtlcMerkleProof(hs, hs[i].index),
                                     HtlcsMerkleRoot(hs), Leaf(hs[i]))

\* "HtlcsMerkleRoot re-sorts by index, so ordering here is not significant"
\* (buildEvmHTLCs): the two ends compute the same root, so that one's
\* signature verifies for the other.
RootsAgree ==
    \A n \in Parties : HtlcsMerkleRoot(buildEvmHTLCs(n)) =
                       HtlcsMerkleRoot(buildEvmHTLCs(Other(n)))
=============================================================================
