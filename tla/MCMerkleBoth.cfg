CONSTANTS
    alice = alice
    bob = bob
    Parties <- MCParties
    MaxActive <- TwoEach
    MaxIndex = 2
SPECIFICATION MerkleSpec
INVARIANT RootsAgree
CHECK_DEADLOCK FALSE
