SPECIFICATION FairSpec
CONSTANTS
    alice = alice  bob = bob  none = none
    Nodes = {alice, bob}
    Initiator = alice
    Payloads = {p1}
    p1 = p1  p2 = p2
    BatchSize = 2
    MaxUpdates = 2
    MaxDrops = 2
INVARIANTS NeverFails PeerKnowsCommitment ForwardedLockedIn SecretKept
PROPERTIES ImplementsDelivery SignatureAcked AckedUpdatesSigned
CHECK_DEADLOCK FALSE
