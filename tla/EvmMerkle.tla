----------------------------- MODULE EvmMerkle -----------------------------
(***************************************************************************)
(* input/evm_merkle.go: the Merkle tree over a list of HTLCs, whose root   *)
(* is the htlcsHash the two peers sign, its proofs, and their check.       *)
(*                                                                         *)
(* Keccak256 is modelled as a free constructor: two hashes are equal when  *)
(* their arguments are.  A list of at most 12 elements is sorted by        *)
(* sort.Slice with insertion sort, which keeps equal keys in place.        *)
(***************************************************************************)
EXTENDS Naturals, Sequences, FiniteSets

Leaf(h) == [leaf |-> h]

commutativeHash(a, b) == [node |-> {a, b}]

\* sort.Slice by Index.
SortedByIndex(hs) ==
    LET Before(i, j) == \/ hs[i].index < hs[j].index
                        \/ hs[i].index = hs[j].index /\ i < j
        Rank(j) == Cardinality({i \in DOMAIN hs : Before(i, j)}) + 1
    IN  [k \in DOMAIN hs |-> hs[CHOOSE j \in DOMAIN hs : Rank(j) = k]]

sortedLeaves(hs) == LET s == SortedByIndex(hs)
                    IN  [k \in DOMAIN s |-> Leaf(s[k])]

\* One level of parents; an odd tail is promoted unchanged.
nextLevel(level) ==
    [i \in 1 .. (Len(level) + 1) \div 2 |->
        IF 2 * i > Len(level) THEN level[2 * i - 1]
        ELSE commutativeHash(level[2 * i - 1], level[2 * i])]

\* The tree's levels: the last one is the root alone.
Levels(leaves) ==
    LET lv[d \in 0 .. Len(leaves)] ==
            IF d = 0 THEN leaves ELSE nextLevel(lv[d - 1])
    IN  lv

Zero == [zero |-> 32]
HtlcsMerkleRoot(hs) ==
    IF hs = <<>> THEN Zero
    ELSE Levels(sortedLeaves(hs))[Len(hs)][1]

\* Mutant: a left child takes its own position for its sibling's.
Sibling_Self(level, idx) ==
    IF idx % 2 = 0
    THEN IF idx + 1 < Len(level) THEN <<level[idx + 1]>> ELSE <<>>
    ELSE <<level[idx]>>

\* The sibling of the node at (zero-based) idx, if it has one.
Sibling(level, idx) ==
    IF idx % 2 = 0
    THEN IF idx + 1 < Len(level) THEN <<level[idx + 2]>> ELSE <<>>
    ELSE <<level[idx]>>

\* The walk from the leaf at pos to the root, collecting the siblings.  Once
\* a level is the root alone, a further round changes nothing.
Walk(leaves, pos) ==
    LET w[d \in 0 .. Len(leaves)] ==
            IF d = 0 THEN [level |-> leaves, idx |-> pos, proof |-> <<>>]
            ELSE LET u == w[d - 1]
                 IN  [level |-> nextLevel(u.level), idx |-> u.idx \div 2,
                      proof |-> u.proof \o Sibling(u.level, u.idx)]
    IN  w[Len(leaves)]

\* HtlcMerkleProof: the siblings on the path from the first leaf with the
\* index to the root.
HtlcMerkleProof(hs, index) ==
    LET s == SortedByIndex(hs)
        pos == (CHOOSE k \in DOMAIN s :
                   /\ s[k].index = index
                   /\ \A j \in 1 .. k - 1 : s[j].index # index) - 1
    IN  Walk(sortedLeaves(hs), pos).proof

\* The proof folded into the leaf.
Folded(proof, leaf) ==
    LET computed[k \in 0 .. Len(proof)] ==
            IF k = 0 THEN leaf
            ELSE commutativeHash(computed[k - 1], proof[k])
    IN  computed[Len(proof)]

VerifyHtlcMerkleProof(proof, root, leaf) == Folded(proof, leaf) = root
=============================================================================
