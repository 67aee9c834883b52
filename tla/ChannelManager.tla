--------------------------- MODULE ChannelManager ---------------------------
(***************************************************************************)
(* The settlement contract ChannelManager.sol: one escrow account that     *)
(* pools the deposits of every channel of a (chain, ERC20) sub-network.    *)
(* Each action is one external call of the contract, which the chain runs  *)
(* atomically (a revert is a disabled action), or a step of the            *)
(* environment: a party signs a digest, block.timestamp advances.          *)
(*                                                                         *)
(* Abstractions.  A keccak256 digest is the tuple of values it commits to, *)
(* a signature is the pair of its signer and the digest, and an HTLC       *)
(* Merkle root is the set of leaves it commits to.                         *)
(***************************************************************************)
EXTENDS Integers, FiniteSets, FiniteSetsExt

CONSTANTS
    Users,              \* externally owned accounts that may open channels
    Manager,            \* address(this): the account holding the pooled escrow
    Salts,              \* salts; a pair may open one channel per salt
    Preimages,          \* 32-byte preimages a caller may present
    Sha256,             \* the hash function on Preimages
    Digests,            \* the EIP-712 messages the parties may ever sign
    Fundings,           \* pairs <<local, remote>> an opener may ask for
    InitialTokens,      \* token balance of each user at deployment
    ChallengePeriod,    \* floor of the challenge window, seconds
    MaxChallengePeriod, \* cap of the challenge window
    FullScaleDeposit,   \* deposit at which the cap is reached; 0: no scaling
    EmergencyDelay,     \* EMERGENCY_RESOLUTION_DELAY
    MaxTime             \* bound on block.timestamp

VARIABLES
    channels,     \* channelId -> Channel record
    htlcResolved, \* channelId -> indices already claimed or timed out
    token,        \* ERC20 balance of every user and of the contract
    signatures,   \* signatures that exist: records [signer, digest]
    now           \* block.timestamp

vars == <<channels, htlcResolved, token, signatures, now>>

\* channelId = keccak256(participantA, participantB, salt), so the identifier
\* determines the two participants.
ChannelIds == {c \in Users \X Users \X Salts : c[1] # c[2]}
participantA(c) == c[1]
participantB(c) == c[2]
Participants(c) == {c[1], c[2]}
Counterparty(c, u) == IF u = c[1] THEN c[2] ELSE c[1]

Status == {"NONEXISTENT", "OPEN", "CLOSING_COOP", "CLOSING_UNILATERAL",
           "CLOSED"}

\* The struct HTLC; its recipient may be any address the parties co-signed.
HTLC(hs, addrs) == [index : Nat, amount : Nat, hashlock : hs,
                    timelock : Nat, recipient : addrs]

\* The three EIP-712 messages, told apart by their type hash.
StateUpdate(c, n, bA, bB, htlcs) ==
    [type |-> "StateUpdate", channelId |-> c, nonce |-> n,
     balanceA |-> bA, balanceB |-> bB, htlcs |-> htlcs]
CooperativeClose(c, n, fA, fB) ==
    [type |-> "CooperativeClose", channelId |-> c, nonce |-> n,
     finalBalanceA |-> fA, finalBalanceB |-> fB]
OpenChannel(c, local, remote) ==
    [type |-> "OpenChannel", channelId |-> c,
     localFunding |-> local, remoteFunding |-> remote]

OfType(t) == {d \in Digests : d.type = t}
StateUpdates == OfType("StateUpdate")
CoopCloses == OfType("CooperativeClose")

ASSUME ManagerAssumption == Manager \notin Users

\* Addresses and salts are 20 and 32 bytes long.
ASSUME FiniteAssumption == IsFiniteSet(ChannelIds)

ASSUME DigestAssumption ==
    /\ \A d \in StateUpdates :
          /\ d.channelId \in ChannelIds /\ d.nonce \in Nat
          /\ d.balanceA \in Nat /\ d.balanceB \in Nat
          /\ IsFiniteSet(d.htlcs)
          /\ \A h \in d.htlcs : /\ h.index \in Nat /\ h.amount \in Nat
                                /\ h.timelock \in Nat
    /\ \A d \in CoopCloses :
          /\ d.channelId \in ChannelIds /\ d.nonce \in Nat
          /\ d.finalBalanceA \in Nat /\ d.finalBalanceB \in Nat

ASSUME ParameterAssumption ==
    /\ Fundings \subseteq Nat \X Nat
    /\ InitialTokens \in [Users -> Nat]
    /\ ChallengePeriod \in Nat /\ MaxChallengePeriod \in Nat
    /\ FullScaleDeposit \in Nat /\ EmergencyDelay \in Nat /\ MaxTime \in Nat

\* The constructor rejects a cap below the floor when scaling is enabled.
ASSUME ChallengeConfigAssumption ==
    FullScaleDeposit # 0 => MaxChallengePeriod >= ChallengePeriod

\* ECDSA.recover(digest, sig) = u for some signature a caller can present.
Signed(u, d) == [signer |-> u, digest |-> d] \in signatures

\* The challenge window of a force-close: linear in the deposit, capped.
challengeWindowFor(deposit) ==
    IF FullScaleDeposit = 0 THEN ChallengePeriod
    ELSE IF deposit >= FullScaleDeposit THEN MaxChallengePeriod
    ELSE ChallengePeriod +
         ((MaxChallengePeriod - ChallengePeriod) * deposit) \div FullScaleDeposit

\* A mapping entry nobody has written.
NoChannel == [totalDeposited |-> 0, status |-> "NONEXISTENT", nonce |-> 0,
              challengeExpiry |-> 0, broadcaster |-> Manager, htlcs |-> {},
              payoutA |-> 0, payoutB |-> 0, htlcPool |-> 0]

\* safeTransfer of a to A and b to B out of the contract's account.
Transfer(c, a, b) ==
    token' = [token EXCEPT ![c[1]] = @ + a, ![c[2]] = @ + b,
                           ![Manager] = @ - (a + b)]

Init ==
    /\ channels = [c \in ChannelIds |-> NoChannel]
    /\ htlcResolved = [c \in ChannelIds |-> {}]
    /\ token = [u \in Users \cup {Manager} |->
                  IF u = Manager THEN 0 ELSE InitialTokens[u]]
    /\ signatures = {}
    /\ now = 0

-----------------------------------------------------------------------------

\* The funder opens a channel; a dual-funded open needs the counterparty's
\* signature over both amounts.  safeTransferFrom reverts the call when an
\* account holds less than is pulled (approvals are given in full).
openChannel(c, local, remote) ==
    /\ local + remote > 0
    /\ channels[c].status = "NONEXISTENT"
    /\ remote > 0 => Signed(participantB(c), OpenChannel(c, local, remote))
    /\ token[participantA(c)] >= local
    /\ token[participantB(c)] >= remote
    /\ channels' = [channels EXCEPT ![c].totalDeposited = local + remote,
                                    ![c].status = "OPEN"]
    /\ token' = [token EXCEPT ![c[1]] = @ - local, ![c[2]] = @ - remote,
                              ![Manager] = @ + (local + remote)]
    /\ UNCHANGED <<htlcResolved, signatures, now>>

\* Cooperative close with a split both parties signed.
closeChannel(c, d) ==
    /\ channels[c].status = "OPEN"
    /\ d.finalBalanceA + d.finalBalanceB = channels[c].totalDeposited
    /\ d.nonce >= channels[c].nonce
    /\ Signed(participantA(c), d)
    /\ Signed(participantB(c), d)
    /\ channels' = [channels EXCEPT ![c].nonce = d.nonce,
                                    ![c].status = "CLOSED"]
    /\ Transfer(c, d.finalBalanceA, d.finalBalanceB)
    /\ UNCHANGED <<htlcResolved, signatures, now>>

\* A participant u publishes a state the other party signed.
forceClose(u, c, d) ==
    /\ channels[c].status = "OPEN"
    /\ u \in Participants(c)
    /\ d.balanceA + d.balanceB <= channels[c].totalDeposited
    /\ Signed(Counterparty(c, u), d)
    /\ channels' = [channels EXCEPT ![c] =
          [totalDeposited |-> channels[c].totalDeposited,
           status |-> "CLOSING_UNILATERAL",
           nonce |-> d.nonce,
           broadcaster |-> u,
           htlcs |-> d.htlcs,
           payoutA |-> d.balanceA,
           payoutB |-> d.balanceB,
           htlcPool |-> channels[c].totalDeposited - d.balanceA - d.balanceB,
           challengeExpiry |->
               now + challengeWindowFor(channels[c].totalDeposited)]]
    /\ UNCHANGED <<htlcResolved, token, signatures, now>>

\* The checks of penalize: inside the window, a strictly higher nonce that the
\* broadcaster signed.
Punishable(c, d) ==
    /\ channels[c].status = "CLOSING_UNILATERAL"
    /\ now < channels[c].challengeExpiry
    /\ d.nonce > channels[c].nonce
    /\ Signed(channels[c].broadcaster, d)

\* Mutant: the reward is the accrued tallies and forgets the HTLC pool.
penalize_Tallies(c, d) ==
    LET ch == channels[c]
        Reward(u) == IF u = Counterparty(c, ch.broadcaster)
                     THEN ch.payoutA + ch.payoutB ELSE 0
    IN  /\ Punishable(c, d)
        /\ channels' = [channels EXCEPT ![c].status = "CLOSED"]
        /\ Transfer(c, Reward(participantA(c)), Reward(participantB(c)))
        /\ UNCHANGED <<htlcResolved, signatures, now>>

\* Inside the window anyone holding a later state signed by the broadcaster
\* hands the whole deposit to the other participant.
penalize(c, d) ==
    LET ch == channels[c]
        victim == Counterparty(c, ch.broadcaster)
        Reward(u) == IF u = victim THEN ch.totalDeposited ELSE 0
    IN  /\ Punishable(c, d)
        /\ channels' = [channels EXCEPT ![c].status = "CLOSED",
                                        ![c].htlcPool = 0,
                                        ![c].payoutA = 0,
                                        ![c].payoutB = 0]
        /\ Transfer(c, Reward(participantA(c)), Reward(participantB(c)))
        /\ UNCHANGED <<htlcResolved, signatures, now>>

\* Mutant: `htlcPool -= amount' in unchecked arithmetic.
Resolvable_Unchecked(c, h) ==
    /\ channels[c].status = "CLOSING_UNILATERAL"
    /\ h.index \notin htlcResolved[c]
    /\ h \in channels[c].htlcs
    /\ h.recipient \in Participants(c)

\* What claimHtlc and timeoutHtlc share: the leaf is in the committed tree and
\* unresolved, its recipient is a participant, and `htlcPool -= amount' does
\* not underflow (checked arithmetic reverts).
Resolvable(c, h) ==
    /\ channels[c].status = "CLOSING_UNILATERAL"
    /\ h.index \notin htlcResolved[c]
    /\ h \in channels[c].htlcs
    /\ h.recipient \in Participants(c)
    /\ h.amount <= channels[c].htlcPool

\* Mutant: the credit is not taken out of the pool.
Credit_NoDebit(c, h, u) ==
    /\ channels' = [channels EXCEPT
          ![c].payoutA = IF u = participantA(c) THEN @ + h.amount ELSE @,
          ![c].payoutB = IF u = participantB(c) THEN @ + h.amount ELSE @]
    /\ htlcResolved' = [htlcResolved EXCEPT ![c] = @ \cup {h.index}]
    /\ UNCHANGED <<token, signatures, now>>

\* Mutant: the resolved index is not recorded.
Credit_NoMark(c, h, u) ==
    /\ channels' = [channels EXCEPT
          ![c].payoutA = IF u = participantA(c) THEN @ + h.amount ELSE @,
          ![c].payoutB = IF u = participantB(c) THEN @ + h.amount ELSE @,
          ![c].htlcPool = @ - h.amount]
    /\ UNCHANGED <<htlcResolved, token, signatures, now>>

\* Credit participant u with an HTLC's amount; tokens move only when the
\* channel is finalized.
Credit(c, h, u) ==
    /\ channels' = [channels EXCEPT
          ![c].payoutA = IF u = participantA(c) THEN @ + h.amount ELSE @,
          ![c].payoutB = IF u = participantB(c) THEN @ + h.amount ELSE @,
          ![c].htlcPool = @ - h.amount]
    /\ htlcResolved' = [htlcResolved EXCEPT ![c] = @ \cup {h.index}]
    /\ UNCHANGED <<token, signatures, now>>

claimHtlc(c, h, preimage) ==
    /\ Resolvable(c, h)
    /\ Sha256[preimage] = h.hashlock
    /\ Credit(c, h, h.recipient)

timeoutHtlc(c, h) ==
    /\ Resolvable(c, h)
    /\ now >= h.timelock
    /\ Credit(c, h, Counterparty(c, h.recipient))

\* The checks of distributeFunds.
Distributable(c) ==
    /\ channels[c].status = "CLOSING_UNILATERAL"
    /\ now >= channels[c].challengeExpiry
    /\ \/ channels[c].htlcPool = 0
       \/ now >= channels[c].challengeExpiry + EmergencyDelay

\* Mutant: the status is not set, so the call can be repeated.
distributeFunds_Repeat(c) ==
    LET ch == channels[c]
    IN  /\ ch.status = "CLOSING_UNILATERAL"
        /\ now >= ch.challengeExpiry
        /\ ch.htlcPool = 0
        /\ Transfer(c, ch.payoutA, ch.payoutB)
        /\ UNCHANGED <<channels, htlcResolved, signatures, now>>

\* Mutant: no escape hatch for an HTLC that can never be resolved.
distributeFunds_NoHatch(c) ==
    LET ch == channels[c]
    IN  /\ ch.status = "CLOSING_UNILATERAL"
        /\ now >= ch.challengeExpiry
        /\ ch.htlcPool = 0
        /\ channels' = [channels EXCEPT ![c].status = "CLOSED"]
        /\ Transfer(c, ch.payoutA, ch.payoutB)
        /\ UNCHANGED <<htlcResolved, signatures, now>>

\* Finalize after the window.  While HTLC value is unresolved the call reverts
\* until the emergency delay has passed, and then splits that value evenly.
distributeFunds(c) ==
    LET ch == channels[c]
        half == ch.htlcPool \div 2
    IN  /\ Distributable(c)
        /\ channels' = [channels EXCEPT ![c].status = "CLOSED",
                                        ![c].htlcPool = 0]
        /\ Transfer(c, ch.payoutA + half, ch.payoutB + (ch.htlcPool - half))
        /\ UNCHANGED <<htlcResolved, signatures, now>>

\* Environment: a user signs a message off chain; time passes.
Sign(u, d) ==
    /\ ~ Signed(u, d)
    /\ signatures' = signatures \cup {[signer |-> u, digest |-> d]}
    /\ UNCHANGED <<channels, htlcResolved, token, now>>

Tick ==
    /\ now < MaxTime
    /\ now' = now + 1
    /\ UNCHANGED <<channels, htlcResolved, token, signatures>>

-----------------------------------------------------------------------------
Call(c) ==
    \/ \E f \in Fundings : openChannel(c, f[1], f[2])
    \/ \E d \in CoopCloses : d.channelId = c /\ closeChannel(c, d)
    \/ \E u \in Users, d \in StateUpdates :
          d.channelId = c /\ forceClose(u, c, d)
    \/ \E d \in StateUpdates : d.channelId = c /\ penalize(c, d)
    \/ \E h \in channels[c].htlcs, p \in Preimages : claimHtlc(c, h, p)
    \/ \E h \in channels[c].htlcs : timeoutHtlc(c, h)
    \/ distributeFunds(c)

Next ==
    \/ \E c \in ChannelIds : Call(c)
    \/ \E u \in Users, d \in Digests : Sign(u, d)
    \/ Tick

\* Time does not stop, and after a force-close somebody with a stake in the
\* channel keeps presenting the resolutions and the finalization that the
\* contract accepts.  Nobody is obliged to sign, open or penalize.
Fairness ==
    /\ WF_vars(Tick)
    /\ \A c \in ChannelIds :
          /\ WF_vars(distributeFunds(c))
          /\ WF_vars(\E h \in channels[c].htlcs : timeoutHtlc(c, h))

Spec == Init /\ [][Next]_vars
FairSpec == Spec /\ Fairness

-----------------------------------------------------------------------------
Closing(c) == channels[c].status = "CLOSING_UNILATERAL"
Closed(c) == channels[c].status = "CLOSED"
Amount(hs) == MapThenSumSet(LAMBDA h : h.amount, hs)

\* Types of the contract's storage, of the token ledger and of the signatures.
TypeOK ==
    /\ channels \in [ChannelIds ->
          [totalDeposited : Nat, status : Status, nonce : Nat,
           challengeExpiry : Nat, broadcaster : Users \cup {Manager},
           htlcs : {{}} \cup {d.htlcs : d \in StateUpdates},
           payoutA : Nat, payoutB : Nat, htlcPool : Nat]]
    /\ htlcResolved \in [ChannelIds -> SUBSET Nat]
    /\ token \in [Users \cup {Manager} -> Int]
    /\ signatures \subseteq [signer : Users, digest : Digests]
    /\ now \in Nat

\* While a channel is closing, the accrued payouts and the unresolved HTLC
\* pool add up to the deposit: no order of claims, timeouts and force-closes
\* creates or loses value, whatever the parties co-signed.
Conservation ==
    \A c \in ChannelIds : Closing(c) =>
        channels[c].payoutA + channels[c].payoutB + channels[c].htlcPool
            = channels[c].totalDeposited

\* The deposit of each channel, also the abstract escrow's.
escrowDeposit == [c \in ChannelIds |-> channels[c].totalDeposited]

Live == {c \in ChannelIds : channels[c].status \in {"OPEN", "CLOSING_UNILATERAL"}}

\* The pooled account always holds exactly the deposits of the channels that
\* have not been paid out, so no channel is settled with another's funds.
Solvency == token[Manager] = MapThenSumSet(LAMBDA c : escrowDeposit[c], Live)

\* A force-closed set of HTLCs with distinct indices, participants as
\* recipients and amounts that fill the gap left by the two balances.
WellFormed(c) ==
    LET ch == channels[c]
    IN  /\ \A g, h \in ch.htlcs : g.index = h.index => g = h
        /\ \A h \in ch.htlcs : h.recipient \in Participants(c)
        /\ \A d \in StateUpdates :
              d.channelId = c /\ d.nonce = ch.nonce /\ d.htlcs = ch.htlcs =>
                 d.balanceA + d.balanceB + Amount(d.htlcs) = ch.totalDeposited

\* EMERGENCY_RESOLUTION_DELAY is only for malformed sets: in a well-formed one
\* every HTLC that is not resolved can be, so the pool drains to zero however
\* claims and timeouts are ordered.
EveryHtlcResolvable ==
    \A c \in ChannelIds : Closing(c) /\ WellFormed(c) =>
        /\ \A h \in channels[c].htlcs :
              h.index \notin htlcResolved[c] => Resolvable(c, h)
        /\ channels[c].htlcPool > 0 =>
              \E h \in channels[c].htlcs : h.index \notin htlcResolved[c]

\* Nobody's deposit is locked forever: a force-closed channel is paid out,
\* even when its HTLC set is malformed and can never be resolved (up to the
\* bound on time).
EventuallyPaid ==
    \A c \in ChannelIds :
        Closing(c) /\ channels[c].challengeExpiry + EmergencyDelay <= MaxTime
            ~> Closed(c)

\* The escrow seen through the contract's storage.
escrowPhase == [c \in ChannelIds |->
                  CASE channels[c].status = "NONEXISTENT" -> "none"
                    [] channels[c].status = "CLOSED" -> "paid"
                    [] OTHER -> "locked"]
Esc == INSTANCE Escrow WITH phase <- escrowPhase, deposit <- escrowDeposit

\* The contract implements the escrow: every call either locks a deposit, pays
\* one out in full and once, or moves no token at all.
ImplementsEscrow == Esc!EscrowSpec
=============================================================================
