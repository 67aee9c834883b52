CONSTANTS
    alice = alice
    bob = bob
    Parties <- MCParties
    MaxActive <- OneWay
    MaxIndex = 6
SPECIFICATION MerkleSpec
INVARIANT ProofsVerify
CHECK_DEADLOCK FALSE
