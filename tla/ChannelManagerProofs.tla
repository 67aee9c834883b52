------------------------ MODULE ChannelManagerProofs ------------------------
(***************************************************************************)
(* Proofs about the settlement contract, for every set of users, every     *)
(* message they may sign, every deposit and every length of the windows,   *)
(* and, from HtlcRoots on, about the Merkle root the contract checks HTLC  *)
(* proofs against, for trees of every size.                                *)
(***************************************************************************)
EXTENDS ChannelManager, HtlcMerkle, SumTheorems, SequenceTheorems,
        FunctionTheorems, TLAPS

\* An identifier names two distinct users, neither of them the contract.
LEMMA ChannelIdType ==
    ASSUME NEW c \in ChannelIds
    PROVE  /\ c[1] \in Users /\ c[2] \in Users /\ c[1] # c[2]
           /\ c[1] # Manager /\ c[2] # Manager
BY ManagerAssumption DEF ChannelIds

\* The challenge window is a natural number of seconds: with scaling enabled,
\* the constructor's check keeps the interpolation from going negative.
LEMMA WindowType ==
    ASSUME NEW deposit \in Nat
    PROVE  challengeWindowFor(deposit) \in Nat
<1>1. CASE FullScaleDeposit = 0 \/ deposit >= FullScaleDeposit
    BY <1>1, ParameterAssumption DEF challengeWindowFor
<1>2. CASE FullScaleDeposit # 0 /\ deposit < FullScaleDeposit
    <2>1. /\ FullScaleDeposit \in Nat /\ FullScaleDeposit > 0
          /\ MaxChallengePeriod - ChallengePeriod \in Nat
        BY <1>2, ParameterAssumption, ChallengeConfigAssumption
    <2>2. (MaxChallengePeriod - ChallengePeriod) * deposit \in Nat
        BY <2>1
    <2>3. ((MaxChallengePeriod - ChallengePeriod) * deposit)
              \div FullScaleDeposit \in Nat
        BY <2>1, <2>2
    <2> QED
        BY <1>2, <2>3, ParameterAssumption DEF challengeWindowFor
<1> QED
    BY <1>1, <1>2, ParameterAssumption

-----------------------------------------------------------------------------
\* The type of one entry of the channels mapping.
ChannelType ==
    [totalDeposited : Nat, status : Status, nonce : Nat,
     challengeExpiry : Nat, broadcaster : Users \cup {Manager},
     htlcs : {{}} \cup {d.htlcs : d \in StateUpdates},
     payoutA : Nat, payoutB : Nat, htlcPool : Nat]

\* A leaf of a committed HTLC tree carries natural numbers.
LEMMA LeafType ==
    ASSUME TypeOK, NEW c \in ChannelIds, NEW h \in channels[c].htlcs
    PROVE  h.index \in Nat /\ h.amount \in Nat /\ h.timelock \in Nat
<1>1. channels[c].htlcs \in {{}} \cup {d.htlcs : d \in StateUpdates}
    BY DEF TypeOK
<1>2. PICK d \in StateUpdates : channels[c].htlcs = d.htlcs
    BY <1>1
<1> QED
    BY <1>2, DigestAssumption

\* The inductive invariant.  Conservation alone is not inductive: the typing
\* says that the pool is a natural number, so that a credit never takes more
\* than is left and payouts never turn negative.
IInv == TypeOK /\ Conservation

\* The invariant holds before any channel is open.
LEMMA InitEstablishes == Init => IInv
<1> SUFFICES ASSUME Init PROVE IInv
    OBVIOUS
<1>1. NoChannel \in ChannelType
    BY DEF NoChannel, ChannelType, Status
<1>2. TypeOK
    BY <1>1, ParameterAssumption DEF Init, TypeOK, ChannelType
<1>3. Conservation
    BY DEF Init, Conservation, Closing, NoChannel
<1> QED
    BY <1>2, <1>3 DEF IInv

\* A call that rewrites only c's record keeps the invariant when the new
\* record is well typed and conserves the deposit.
LEMMA RecordUpdate ==
    ASSUME IInv, NEW c \in ChannelIds, NEW r \in ChannelType,
           channels' = [channels EXCEPT ![c] = r],
           r.status = "CLOSING_UNILATERAL" =>
               r.payoutA + r.payoutB + r.htlcPool = r.totalDeposited,
           htlcResolved' \in [ChannelIds -> SUBSET Nat],
           token' \in [Users \cup {Manager} -> Int],
           UNCHANGED <<signatures, now>>
    PROVE  IInv'
<1>1. TypeOK'
    BY DEF IInv, TypeOK, ChannelType
<1>2. Conservation'
    BY DEF IInv, TypeOK, Conservation, Closing
<1> QED
    BY <1>1, <1>2 DEF IInv

\* Moving coins keeps balances typed.
LEMMA TransferType ==
    ASSUME TypeOK, NEW c \in ChannelIds, NEW a \in Int, NEW b \in Int,
           Transfer(c, a, b)
    PROVE  token' \in [Users \cup {Manager} -> Int]
BY ChannelIdType DEF TypeOK, Transfer

\* One lemma per group of calls: each supplies the new record.
LEMMA OpenPreserves ==
    ASSUME IInv, NEW c \in ChannelIds, NEW f \in Fundings,
           openChannel(c, f[1], f[2])
    PROVE  IInv'
<1> DEFINE r == [channels[c] EXCEPT !.totalDeposited = f[1] + f[2],
                                    !.status = "OPEN"]
<1>1. f[1] \in Nat /\ f[2] \in Nat /\ f[1] + f[2] \in Nat
    BY ParameterAssumption
<1>2. r \in ChannelType
    BY <1>1, ZenonT(30) DEF IInv, TypeOK, ChannelType, Status
<1>3. channels' = [channels EXCEPT ![c] = r]
    BY DEF openChannel, IInv, TypeOK
<1>4. token' \in [Users \cup {Manager} -> Int]
    BY <1>1, ChannelIdType DEF openChannel, IInv, TypeOK
<1>5. r.status # "CLOSING_UNILATERAL"
    BY DEF IInv, TypeOK
<1> QED
    BY <1>2, <1>3, <1>4, <1>5, RecordUpdate DEF openChannel, IInv, TypeOK

\* A cooperative close keeps the invariant.
LEMMA CoopPreserves ==
    ASSUME IInv, NEW c \in ChannelIds, NEW d \in CoopCloses,
           closeChannel(c, d)
    PROVE  IInv'
<1> DEFINE r == [channels[c] EXCEPT !.nonce = d.nonce, !.status = "CLOSED"]
<1>1. d.nonce \in Nat /\ d.finalBalanceA \in Nat /\ d.finalBalanceB \in Nat
    BY DigestAssumption
<1>2. r \in ChannelType /\ r.status # "CLOSING_UNILATERAL"
    BY <1>1, ZenonT(30) DEF IInv, TypeOK, ChannelType, Status
<1>3. channels' = [channels EXCEPT ![c] = r]
    BY DEF closeChannel, IInv, TypeOK
<1>4. token' \in [Users \cup {Manager} -> Int]
    BY <1>1, TransferType DEF closeChannel, IInv
<1> QED
    BY <1>2, <1>3, <1>4, RecordUpdate DEF closeChannel, IInv, TypeOK

\* So does a force close.
LEMMA ForcePreserves ==
    ASSUME IInv, NEW c \in ChannelIds, NEW u \in Users,
           NEW d \in StateUpdates, forceClose(u, c, d)
    PROVE  IInv'
<1> DEFINE total == channels[c].totalDeposited
           r == [totalDeposited |-> total,
                 status |-> "CLOSING_UNILATERAL",
                 nonce |-> d.nonce,
                 broadcaster |-> u,
                 htlcs |-> d.htlcs,
                 payoutA |-> d.balanceA,
                 payoutB |-> d.balanceB,
                 htlcPool |-> total - d.balanceA - d.balanceB,
                 challengeExpiry |-> now + challengeWindowFor(total)]
<1>1. d.nonce \in Nat /\ d.balanceA \in Nat /\ d.balanceB \in Nat
    BY DigestAssumption
<1>2. total \in Nat /\ now \in Nat
    BY DEF IInv, TypeOK
<1>3. total - d.balanceA - d.balanceB \in Nat
    BY <1>1, <1>2 DEF forceClose
<1>4. now + challengeWindowFor(total) \in Nat
    BY <1>2, WindowType
<1>5. r \in ChannelType
    BY <1>1, <1>2, <1>3, <1>4 DEF ChannelType, Status
<1>6. r.payoutA + r.payoutB + r.htlcPool = r.totalDeposited
    BY <1>1, <1>2
<1>7. channels' = [channels EXCEPT ![c] = r]
    BY DEF forceClose
<1> HIDE DEF r
<1> QED
    BY <1>5, <1>6, <1>7, RecordUpdate DEF forceClose, IInv, TypeOK

\* So does a penalty.
LEMMA PenalizePreserves ==
    ASSUME IInv, NEW c \in ChannelIds, NEW d \in StateUpdates,
           penalize(c, d)
    PROVE  IInv'
<1> DEFINE r == [channels[c] EXCEPT !.status = "CLOSED", !.htlcPool = 0,
                                    !.payoutA = 0, !.payoutB = 0]
<1>1. r \in ChannelType /\ r.status # "CLOSING_UNILATERAL"
    BY ZenonT(30) DEF IInv, TypeOK, ChannelType, Status
<1>2. channels' = [channels EXCEPT ![c] = r]
    BY DEF penalize, IInv, TypeOK
<1>3. token' \in [Users \cup {Manager} -> Int]
    <2>1. channels[c].totalDeposited \in Int
        BY DEF IInv, TypeOK
    <2>2. PICK a, b \in Int : Transfer(c, a, b)
        BY <2>1 DEF penalize
    <2> QED
        BY <2>2, TransferType DEF IInv
<1> QED
    BY <1>1, <1>2, <1>3, RecordUpdate DEF penalize, IInv, TypeOK

\* So does paying out one HTLC.
LEMMA CreditPreserves ==
    ASSUME IInv, NEW c \in ChannelIds, NEW h \in channels[c].htlcs,
           NEW u \in Participants(c), Resolvable(c, h), Credit(c, h, u)
    PROVE  IInv'
<1> DEFINE r == [channels[c] EXCEPT
                   !.payoutA = IF u = participantA(c) THEN @ + h.amount ELSE @,
                   !.payoutB = IF u = participantB(c) THEN @ + h.amount ELSE @,
                   !.htlcPool = @ - h.amount]
<1>1. h.index \in Nat /\ h.amount \in Nat /\ h.amount <= channels[c].htlcPool
    BY LeafType DEF IInv, Resolvable
<1>2. r \in ChannelType
    <2>1. channels[c] \in ChannelType
        BY DEF IInv, TypeOK, ChannelType
    <2>2. /\ channels[c].htlcPool - h.amount \in Nat
          /\ channels[c].payoutA + h.amount \in Nat
          /\ channels[c].payoutB + h.amount \in Nat
        BY <1>1, <2>1 DEF ChannelType
    <2> QED
        BY <2>1, <2>2 DEF ChannelType
<1>3. channels' = [channels EXCEPT ![c] = r]
    BY DEF Credit, IInv, TypeOK
<1>4. r.payoutA + r.payoutB + r.htlcPool = r.totalDeposited
    <2>1. channels[c].payoutA + channels[c].payoutB + channels[c].htlcPool
              = channels[c].totalDeposited
        BY DEF IInv, Conservation, Closing, Resolvable
    <2>2. u = c[1] \/ u = c[2]
        BY DEF Participants
    <2>3. c[1] # c[2]
        BY ChannelIdType
    <2>4. channels[c] \in ChannelType
        BY DEF IInv, TypeOK, ChannelType
    <2> QED
        BY <1>1, <2>1, <2>2, <2>3, <2>4
        DEF participantA, participantB, ChannelType
<1>5. htlcResolved' \in [ChannelIds -> SUBSET Nat]
    BY <1>1 DEF Credit, IInv, TypeOK
<1>6. token' \in [Users \cup {Manager} -> Int]
    BY DEF Credit, IInv, TypeOK
<1> QED
    BY <1>2, <1>3, <1>4, <1>5, <1>6, RecordUpdate DEF Credit

\* So does the final distribution.
LEMMA DistributePreserves ==
    ASSUME IInv, NEW c \in ChannelIds, distributeFunds(c)
    PROVE  IInv'
<1> DEFINE r == [channels[c] EXCEPT !.status = "CLOSED", !.htlcPool = 0]
           half == channels[c].htlcPool \div 2
<1>1. r \in ChannelType /\ r.status # "CLOSING_UNILATERAL"
    BY DEF IInv, TypeOK, ChannelType, Status
<1>2. channels' = [channels EXCEPT ![c] = r]
    BY DEF distributeFunds, IInv, TypeOK
<1>3. token' \in [Users \cup {Manager} -> Int]
    <2>1. /\ half \in Int /\ channels[c].payoutA \in Int
          /\ channels[c].payoutB \in Int /\ channels[c].htlcPool \in Int
        BY DEF IInv, TypeOK
    <2>2. /\ channels[c].payoutA + half \in Int
          /\ channels[c].payoutB + (channels[c].htlcPool - half) \in Int
        BY <2>1
    <2>3. Transfer(c, channels[c].payoutA + half,
                   channels[c].payoutB + (channels[c].htlcPool - half))
        BY DEF distributeFunds
    <2> HIDE DEF half
    <2> QED
        BY <2>2, <2>3, TransferType DEF IInv
<1> QED
    BY <1>1, <1>2, <1>3, RecordUpdate DEF distributeFunds, IInv, TypeOK

\* So does every call of the contract.
LEMMA CallPreserves ==
    ASSUME IInv, NEW c \in ChannelIds, Call(c)
    PROVE  IInv'
<1>1. CASE \E h \in channels[c].htlcs, p \in Preimages : claimHtlc(c, h, p)
    <2>1. PICK h \in channels[c].htlcs : Resolvable(c, h) /\ Credit(c, h, h.recipient)
        BY <1>1 DEF claimHtlc
    <2> QED
        BY <2>1, CreditPreserves DEF Resolvable
<1>2. CASE \E h \in channels[c].htlcs : timeoutHtlc(c, h)
    <2>1. PICK h \in channels[c].htlcs :
              Resolvable(c, h) /\ Credit(c, h, Counterparty(c, h.recipient))
        BY <1>2 DEF timeoutHtlc
    <2>2. Counterparty(c, h.recipient) \in Participants(c)
        BY DEF Counterparty, Participants
    <2> QED
        BY <2>1, <2>2, CreditPreserves
<1> QED
    BY <1>1, <1>2, OpenPreserves, CoopPreserves, ForcePreserves,
       PenalizePreserves, DistributePreserves DEF Call

\* So does every step.
LEMMA NextPreserves == IInv /\ [Next]_vars => IInv'
<1> SUFFICES ASSUME IInv, [Next]_vars PROVE IInv'
    OBVIOUS
<1>1. CASE \E c \in ChannelIds : Call(c)
    BY <1>1, CallPreserves
<1>2. CASE \E u \in Users, d \in Digests : Sign(u, d)
    BY <1>2 DEF Sign, IInv, TypeOK, Conservation, Closing
<1>3. CASE Tick
    BY <1>3 DEF Tick, IInv, TypeOK, Conservation, Closing
<1>4. CASE UNCHANGED vars
    BY <1>4 DEF vars, IInv, TypeOK, Conservation, Closing
<1> QED
    BY <1>1, <1>2, <1>3, <1>4 DEF Next

\* The inductive invariant holds in every reachable state.
THEOREM InductiveInvariant == Spec => []IInv
<1>1. Init => IInv
    BY InitEstablishes
<1>2. IInv /\ [Next]_vars => IInv'
    BY NextPreserves
<1> QED
    BY <1>1, <1>2, PTL DEF Spec

\* The contract's storage keeps its types; in particular no payout tally and
\* no HTLC pool ever goes below zero, the cases Solidity would revert on.
THEOREM TypeCorrect == Spec => []TypeOK
<1>1. IInv => TypeOK
    BY DEF IInv
<1> QED
    BY <1>1, InductiveInvariant, PTL

\* No order of calls on a closing channel creates or loses value, whatever
\* balances and HTLC sets the parties co-signed.
THEOREM ValueConserved == Spec => []Conservation
<1>1. IInv => Conservation
    BY DEF IInv
<1> QED
    BY <1>1, InductiveInvariant, PTL

-----------------------------------------------------------------------------
\* Refinement.  Opening a channel is a Lock step of the escrow.
LEMMA OpenLocks ==
    ASSUME IInv, NEW c \in ChannelIds, NEW f \in Fundings,
           openChannel(c, f[1], f[2])
    PROVE  Esc!EscrowNext
<1>1. /\ f[1] \in Nat /\ f[2] \in Nat
      /\ token[c[1]] \in Int /\ token[c[2]] \in Int
    BY ParameterAssumption, ChannelIdType DEF IInv, TypeOK
<1>2. f[1] \in 0 .. token[c[1]] /\ f[2] \in 0 .. token[c[2]]
    BY <1>1 DEF openChannel, participantA, participantB
<1>3. Esc!Lock(c, f[1], f[2])
    <2>1. escrowPhase[c] = "none"
        BY DEF openChannel, escrowPhase
    <2>2. escrowPhase' = [escrowPhase EXCEPT ![c] = "locked"]
        BY DEF openChannel, escrowPhase, IInv, TypeOK
    <2>3. escrowDeposit' = [escrowDeposit EXCEPT ![c] = f[1] + f[2]]
        BY DEF openChannel, escrowDeposit, IInv, TypeOK
    <2> QED
        BY <1>1, <1>2, <2>1, <2>2, <2>3 DEF openChannel, Esc!Lock
<1> QED
    BY <1>2, <1>3 DEF Esc!EscrowNext

\* A call that finalizes a live channel and transfers its whole deposit is a
\* PayOut step.
LEMMA FinalPays ==
    ASSUME IInv, NEW c \in ChannelIds, NEW a \in Nat, NEW b \in Nat,
           channels[c].status \in {"OPEN", "CLOSING_UNILATERAL"},
           a + b = channels[c].totalDeposited,
           \A k \in ChannelIds \ {c} : channels'[k] = channels[k],
           channels'[c].status = "CLOSED",
           channels'[c].totalDeposited = channels[c].totalDeposited,
           Transfer(c, a, b)
    PROVE  Esc!EscrowNext
<1>1. escrowPhase[c] = "locked"
    BY DEF escrowPhase
<1>2. escrowPhase' = [escrowPhase EXCEPT ![c] = "paid"]
    BY DEF escrowPhase, IInv, TypeOK
<1>3. escrowDeposit' = escrowDeposit
    BY DEF escrowDeposit, IInv, TypeOK
<1>4. escrowDeposit[c] = a + b
    BY DEF escrowDeposit
<1>5. Esc!PayOut(c, a, b)
    BY <1>1, <1>2, <1>3, <1>4 DEF Esc!PayOut, Transfer
<1>6. a \in 0 .. escrowDeposit[c] /\ b = escrowDeposit[c] - a
    BY <1>4
<1> QED
    BY <1>5, <1>6 DEF Esc!EscrowNext

\* A close is a close of the escrow.
LEMMA CloseSimulated ==
    ASSUME IInv, NEW c \in ChannelIds, NEW d \in CoopCloses,
           closeChannel(c, d)
    PROVE  Esc!EscrowNext
<1>1. d.finalBalanceA \in Nat /\ d.finalBalanceB \in Nat
    BY DigestAssumption
<1>2. /\ \A k \in ChannelIds \ {c} : channels'[k] = channels[k]
      /\ channels'[c].status = "CLOSED"
      /\ channels'[c].totalDeposited = channels[c].totalDeposited
    BY DEF closeChannel, IInv, TypeOK
<1> QED
    BY <1>1, <1>2, FinalPays DEF closeChannel

\* A penalty is a penalty of the escrow.
LEMMA PenaltySimulated ==
    ASSUME IInv, NEW c \in ChannelIds, NEW d \in StateUpdates,
           penalize(c, d)
    PROVE  Esc!EscrowNext
<1> DEFINE total == channels[c].totalDeposited
           victim == Counterparty(c, channels[c].broadcaster)
           a == IF c[1] = victim THEN total ELSE 0
           b == IF c[2] = victim THEN total ELSE 0
<1>1. total \in Nat /\ c[1] # c[2]
    BY ChannelIdType DEF IInv, TypeOK
<1>2. victim = c[1] \/ victim = c[2]
    BY DEF Counterparty
<1>3. a \in Nat /\ b \in Nat /\ a + b = total
    BY <1>1, <1>2
<1>4. Transfer(c, a, b) /\ channels[c].status = "CLOSING_UNILATERAL"
    BY DEF penalize, Punishable, participantA, participantB
<1>5. /\ \A k \in ChannelIds \ {c} : channels'[k] = channels[k]
      /\ channels'[c].status = "CLOSED"
      /\ channels'[c].totalDeposited = channels[c].totalDeposited
    BY DEF penalize, IInv, TypeOK
<1> HIDE DEF a, b, victim
<1> QED
    BY <1>3, <1>4, <1>5, FinalPays

\* Conservation is what makes the final transfer pay out the whole deposit,
\* with the emergency split as well as without it.
LEMMA DistributeSimulated ==
    ASSUME IInv, NEW c \in ChannelIds, distributeFunds(c)
    PROVE  Esc!EscrowNext
<1> DEFINE pool == channels[c].htlcPool
           half == pool \div 2
           a == channels[c].payoutA + half
           b == channels[c].payoutB + (pool - half)
<1>1. /\ pool \in Nat /\ channels[c].payoutA \in Nat
      /\ channels[c].payoutB \in Nat
    BY DEF IInv, TypeOK
<1>2. half \in Nat /\ half <= pool
    BY <1>1
<1>3. channels[c].payoutA + channels[c].payoutB + pool
          = channels[c].totalDeposited
    BY DEF distributeFunds, Distributable, IInv, Conservation, Closing
<1>4. Transfer(c, a, b) /\ channels[c].status = "CLOSING_UNILATERAL"
    BY DEF distributeFunds, Distributable
<1> HIDE DEF half
<1>5. a \in Nat /\ b \in Nat /\ a + b = channels[c].totalDeposited
    BY <1>1, <1>2, <1>3
<1>6. /\ \A k \in ChannelIds \ {c} : channels'[k] = channels[k]
      /\ channels'[c].status = "CLOSED"
      /\ channels'[c].totalDeposited = channels[c].totalDeposited
    BY DEF distributeFunds, IInv, TypeOK
<1> HIDE DEF a, b
<1> QED
    BY <1>4, <1>5, <1>6, FinalPays

\* Force-closes and HTLC resolutions move no token and finish no channel.
LEMMA AccrualStutters ==
    ASSUME IInv, NEW c \in ChannelIds,
           channels[c].status \in {"OPEN", "CLOSING_UNILATERAL"},
           \A k \in ChannelIds \ {c} : channels'[k] = channels[k],
           channels'[c].status = "CLOSING_UNILATERAL",
           channels'[c].totalDeposited = channels[c].totalDeposited,
           token' = token
    PROVE  UNCHANGED <<escrowPhase, escrowDeposit, token>>
<1>1. escrowPhase' = escrowPhase
    BY DEF escrowPhase, IInv, TypeOK
<1>2. escrowDeposit' = escrowDeposit
    BY DEF escrowDeposit, IInv, TypeOK
<1> QED
    BY <1>1, <1>2

\* A force close leaves the escrow as it is.
LEMMA ForceStutters ==
    ASSUME IInv, NEW c \in ChannelIds, NEW u \in Users,
           NEW d \in StateUpdates, forceClose(u, c, d)
    PROVE  UNCHANGED <<escrowPhase, escrowDeposit, token>>
<1>1. /\ \A k \in ChannelIds \ {c} : channels'[k] = channels[k]
      /\ channels'[c].status = "CLOSING_UNILATERAL"
      /\ channels'[c].totalDeposited = channels[c].totalDeposited
      /\ channels[c].status = "OPEN" /\ token' = token
    BY DEF forceClose, IInv, TypeOK
<1> QED
    BY <1>1, AccrualStutters

\* Paying out one HTLC leaves the escrow as it is.
LEMMA CreditStutters ==
    ASSUME IInv, NEW c \in ChannelIds, NEW h, NEW u,
           Resolvable(c, h), Credit(c, h, u)
    PROVE  UNCHANGED <<escrowPhase, escrowDeposit, token>>
<1>1. /\ \A k \in ChannelIds \ {c} : channels'[k] = channels[k]
      /\ channels'[c].status = channels[c].status
      /\ channels'[c].totalDeposited = channels[c].totalDeposited
      /\ channels[c].status = "CLOSING_UNILATERAL" /\ token' = token
    BY DEF Credit, Resolvable, IInv, TypeOK
<1> QED
    BY <1>1, AccrualStutters

\* Every step is a step of the escrow, or leaves it as it is.
LEMMA StepSimulated ==
    IInv /\ [Next]_vars => [Esc!EscrowNext]_<<escrowPhase, escrowDeposit, token>>
<1> SUFFICES ASSUME IInv, [Next]_vars
             PROVE  [Esc!EscrowNext]_<<escrowPhase, escrowDeposit, token>>
    OBVIOUS
<1>1. CASE \E c \in ChannelIds : Call(c)
    <2>1. PICK c \in ChannelIds : Call(c)
        BY <1>1
    <2>2. CASE \E f \in Fundings : openChannel(c, f[1], f[2])
        BY <2>2, OpenLocks
    <2>3. CASE \E d \in CoopCloses : d.channelId = c /\ closeChannel(c, d)
        BY <2>3, CloseSimulated
    <2>4. CASE \E u \in Users, d \in StateUpdates :
                 d.channelId = c /\ forceClose(u, c, d)
        BY <2>4, ForceStutters
    <2>5. CASE \E d \in StateUpdates : d.channelId = c /\ penalize(c, d)
        BY <2>5, PenaltySimulated
    <2>6. CASE \E h \in channels[c].htlcs, p \in Preimages : claimHtlc(c, h, p)
        BY <2>6, CreditStutters DEF claimHtlc
    <2>7. CASE \E h \in channels[c].htlcs : timeoutHtlc(c, h)
        BY <2>7, CreditStutters DEF timeoutHtlc
    <2>8. CASE distributeFunds(c)
        BY <2>8, DistributeSimulated
    <2> QED
        BY <2>1, <2>2, <2>3, <2>4, <2>5, <2>6, <2>7, <2>8 DEF Call
<1>2. CASE \/ \E u \in Users, d \in Digests : Sign(u, d)
           \/ Tick
           \/ UNCHANGED vars
    BY <1>2 DEF Sign, Tick, vars, escrowPhase, escrowDeposit
<1> QED
    BY <1>1, <1>2 DEF Next

\* The contract implements the abstract escrow: each channel's deposit is
\* locked once and paid out once, in full, to its two participants.
THEOREM EscrowImplemented == Spec => ImplementsEscrow
<1>1. Init => Esc!EscrowInit
    <2> SUFFICES ASSUME Init PROVE Esc!EscrowInit
        OBVIOUS
    <2>1. escrowPhase = [c \in ChannelIds |-> "none"]
        BY DEF Init, escrowPhase, NoChannel
    <2>2. escrowDeposit = [c \in ChannelIds |-> 0]
        BY DEF Init, escrowDeposit, NoChannel
    <2>3. token \in [Users \cup {Manager} -> Nat] /\ token[Manager] = 0
        BY ParameterAssumption DEF Init
    <2> QED
        BY <2>1, <2>2, <2>3 DEF Esc!EscrowInit
<1>2. IInv /\ [Next]_vars => [Esc!EscrowNext]_<<escrowPhase, escrowDeposit, token>>
    BY StepSimulated
<1> QED
    BY <1>1, <1>2, InductiveInvariant, PTL
    DEF Spec, ImplementsEscrow, Esc!EscrowSpec, Esc!escrowVars
-----------------------------------------------------------------------------
\* Solvency, by way of the escrow: of its steps only Lock and PayOut move
\* tokens.  The enum's CLOSING_COOP is never entered, so that the channels the
\* escrow holds locked are the live ones.
NoCoop == \A c \in ChannelIds : channels[c].status # "CLOSING_COOP"

\* No step enters CLOSING_COOP.
LEMMA NoCoopPreserved == IInv /\ NoCoop /\ [Next]_vars => NoCoop'
<1> SUFFICES ASSUME IInv, NoCoop, [Next]_vars PROVE NoCoop'
    OBVIOUS
<1>1. CASE \E c \in ChannelIds : Call(c)
    <2>1. PICK c \in ChannelIds : Call(c)
        BY <1>1
    <2>2. channels \in [ChannelIds -> ChannelType]
        BY DEF IInv, TypeOK, ChannelType
    <2>3. CASE \E f \in Fundings : openChannel(c, f[1], f[2])
        BY <2>2, <2>3 DEF openChannel, NoCoop, ChannelType
    <2>4. CASE \E d \in CoopCloses : d.channelId = c /\ closeChannel(c, d)
        BY <2>2, <2>4 DEF closeChannel, NoCoop, ChannelType
    <2>5. CASE \E u \in Users, d \in StateUpdates :
                 d.channelId = c /\ forceClose(u, c, d)
        BY <2>2, <2>5 DEF forceClose, NoCoop, ChannelType
    <2>6. CASE \E d \in StateUpdates : d.channelId = c /\ penalize(c, d)
        BY <2>2, <2>6 DEF penalize, NoCoop, ChannelType
    <2>7. CASE \E h, u : Credit(c, h, u)
        BY <2>2, <2>7 DEF Credit, NoCoop, ChannelType
    <2>8. CASE distributeFunds(c)
        BY <2>2, <2>8 DEF distributeFunds, NoCoop, ChannelType
    <2> QED
        BY <2>1, <2>3, <2>4, <2>5, <2>6, <2>7, <2>8
        DEF Call, claimHtlc, timeoutHtlc
<1>2. CASE \/ \E u \in Users, d \in Digests : Sign(u, d)
           \/ Tick
           \/ UNCHANGED vars
    BY <1>2 DEF Sign, Tick, vars, NoCoop
<1> QED
    BY <1>1, <1>2 DEF Next

Locked == {c \in ChannelIds : escrowPhase[c] = "locked"}

\* The channels the escrow holds locked are the live ones.
LEMMA LockedIsLive == TypeOK /\ NoCoop => Locked = Live
BY DEF TypeOK, NoCoop, Locked, Live, escrowPhase, Status

\* The tokens the contract holds and those the escrow has locked.
Covered == token[Manager] = SumOf(escrowDeposit, Locked)

\* Every step of the escrow keeps tokens and locked deposits equal.
LEMMA EscrowCovers ==
    ASSUME TypeOK, Covered, Esc!EscrowNext
    PROVE  Covered'
<1>1. IsFiniteSet(Locked) /\ Locked \subseteq ChannelIds
    BY FiniteAssumption, FS_Subset DEF Locked
<1>2. escrowDeposit \in [ChannelIds -> Nat]
    BY DEF escrowDeposit, TypeOK
<1>3. token \in [Users \cup {Manager} -> Int]
    BY DEF TypeOK
<1>4. ASSUME NEW c \in ChannelIds, NEW a \in 0 .. token[c[1]],
             NEW b \in 0 .. token[c[2]], Esc!Lock(c, a, b)
      PROVE  Covered'
    <2>1. c[1] # Manager /\ c[2] # Manager /\ c[1] \in Users /\ c[2] \in Users
        BY ChannelIdType
    <2>2. token'[Manager] = token[Manager] + (a + b)
        BY <1>3, <1>4, <2>1 DEF Esc!Lock
    <2>3. c \notin Locked /\ Locked' = Locked \cup {c}
        BY <1>4 DEF Esc!Lock, Locked, escrowPhase
    <2>4. /\ \A k \in Locked : escrowDeposit'[k] = escrowDeposit[k]
          /\ escrowDeposit'[c] = a + b
        BY <1>1, <1>2, <1>4, <2>3 DEF Esc!Lock
    <2>5. SumOf(escrowDeposit', Locked) = SumOf(escrowDeposit, Locked)
        BY <1>1, <2>4, SumSame
    <2>6. \A k \in Locked \cup {c} : escrowDeposit'[k] \in Int
        BY <1>1, <1>2, <1>3, <2>1, <2>4
    <2>7. SumOf(escrowDeposit', Locked \cup {c})
            = SumOf(escrowDeposit', Locked) + escrowDeposit'[c]
        BY <1>1, <2>3, <2>6, SumAdd
    <2> QED
        BY <2>2, <2>3, <2>4, <2>5, <2>7 DEF Covered
<1>5. ASSUME NEW c \in ChannelIds, NEW a \in 0 .. escrowDeposit[c],
             Esc!PayOut(c, a, escrowDeposit[c] - a)
      PROVE  Covered'
    <2>1. c[1] # Manager /\ c[2] # Manager /\ c[1] \in Users /\ c[2] \in Users
        BY ChannelIdType
    <2>2. token'[Manager] = token[Manager] - escrowDeposit[c]
        BY <1>2, <1>3, <1>5, <2>1 DEF Esc!PayOut
    <2>3. c \in Locked /\ Locked' = Locked \ {c}
        BY <1>5 DEF Esc!PayOut, Locked, escrowPhase
    <2>4. escrowDeposit' = escrowDeposit
        BY <1>5 DEF Esc!PayOut
    <2>5. \A k \in Locked : escrowDeposit[k] \in Int
        BY <1>1, <1>2
    <2>6. SumOf(escrowDeposit, Locked)
            = SumOf(escrowDeposit, Locked \ {c}) + escrowDeposit[c]
        BY <1>1, <2>3, <2>5, SumRemove
    <2>7. SumOf(escrowDeposit, Locked \ {c}) \in Int
        <3>1. IsFiniteSet(Locked \ {c}) /\ \A k \in Locked \ {c} : escrowDeposit[k] \in Int
            BY <1>1, <2>5, FS_RemoveElement
        <3> QED
            BY <3>1, SumRemove
    <2> QED
        BY <1>2, <2>2, <2>3, <2>4, <2>6, <2>7 DEF Covered
<1> QED
    BY <1>4, <1>5 DEF Esc!EscrowNext

\* The pooled account holds exactly the deposits of the live channels: no
\* payout, penalty or emergency split of one channel touches another's
\* (ChannelManager.sol distributeFunds, penalize).
THEOREM PoolCovered == Spec => []Solvency
<1> DEFINE Inv == IInv /\ NoCoop /\ Covered
<1>1. Init => Inv
    <2> SUFFICES ASSUME Init PROVE Inv
        OBVIOUS
    <2>1. IInv
        BY InitEstablishes
    <2>2. NoCoop
        BY DEF Init, NoCoop, NoChannel
    <2>3. Locked = {} /\ token[Manager] = 0
        BY DEF Init, Locked, escrowPhase, NoChannel
    <2> QED
        BY <2>1, <2>2, <2>3, SumEmpty DEF Covered
<1>2. Inv /\ [Next]_vars => Inv'
    <2> SUFFICES ASSUME Inv, [Next]_vars PROVE Inv'
        OBVIOUS
    <2>1. IInv'
        BY NextPreserves
    <2>2. NoCoop'
        BY NoCoopPreserved
    <2>3. CASE Esc!EscrowNext
        BY <2>1, <2>2, <2>3, EscrowCovers DEF IInv
    <2>4. CASE UNCHANGED <<escrowPhase, escrowDeposit, token>>
        BY <2>1, <2>2, <2>4 DEF Covered, Locked
    <2> QED
        BY <2>3, <2>4, StepSimulated
<1>3. Inv => Solvency
    BY LockedIsLive DEF IInv, Covered, Solvency, SumOf
<1> QED
    BY <1>1, <1>2, <1>3, PTL DEF Spec
-----------------------------------------------------------------------------
\* The HTLCs of a closing channel that wait for their resolution.
Unresolved(c) == {h \in channels[c].htlcs : h.index \notin htlcResolved[c]}

\* What the pool holds is what the unresolved HTLCs of a well-formed set are
\* worth, and nothing is resolved before a channel closes.
PoolMatches ==
    \A c \in ChannelIds :
        /\ Closing(c) /\ WellFormed(c) =>
              channels[c].htlcPool = Amount(Unresolved(c))
        /\ channels[c].status \in {"NONEXISTENT", "OPEN"} => htlcResolved[c] = {}

\* A published commitment has finitely many HTLCs.
LEMMA HtlcsFinite ==
    ASSUME TypeOK, NEW c \in ChannelIds
    PROVE  /\ IsFiniteSet(Unresolved(c))
           /\ \A h \in Unresolved(c) : h.amount \in Nat
<1>1. channels[c].htlcs \in {{}} \cup {d.htlcs : d \in StateUpdates}
    BY DEF TypeOK
<1>2. IsFiniteSet(channels[c].htlcs)
    BY <1>1, DigestAssumption, FS_EmptySet
<1>3. Unresolved(c) \in SUBSET channels[c].htlcs
    BY DEF Unresolved
<1> QED
    BY <1>2, <1>3, FS_Subset, LeafType

\* A channel whose record and resolved indices a step leaves alone.
LEMMA PoolUntouched ==
    ASSUME NEW c \in ChannelIds, channels'[c] = channels[c],
           htlcResolved'[c] = htlcResolved[c]
    PROVE  /\ Closing(c)' = Closing(c) /\ WellFormed(c)' = WellFormed(c)
           /\ Unresolved(c)' = Unresolved(c)
BY DEF Closing, WellFormed, Unresolved, Participants

\* A force close puts the sum of its HTLCs into the pool.
LEMMA ForceFillsPool ==
    ASSUME IInv, PoolMatches, NEW c \in ChannelIds, NEW u \in Users,
           NEW d \in StateUpdates, d.channelId = c, forceClose(u, c, d)
    PROVE  PoolMatches'
<1>1. channels \in [ChannelIds -> ChannelType] /\ htlcResolved' = htlcResolved
    BY DEF IInv, TypeOK, ChannelType, forceClose
<1>2. ASSUME NEW k \in ChannelIds, k # c
      PROVE  channels'[k] = channels[k] /\ htlcResolved'[k] = htlcResolved[k]
    BY <1>1, <1>2 DEF forceClose
<1>3. /\ channels'[c].status = "CLOSING_UNILATERAL" /\ channels'[c].nonce = d.nonce
      /\ channels'[c].htlcs = d.htlcs
      /\ channels'[c].totalDeposited = channels[c].totalDeposited
      /\ channels'[c].htlcPool =
            channels[c].totalDeposited - d.balanceA - d.balanceB
      /\ htlcResolved'[c] = {}
    BY <1>1 DEF forceClose, PoolMatches
<1>4. ASSUME WellFormed(c)'
      PROVE  channels'[c].htlcPool = Amount(Unresolved(c))'
    <2>1. d.balanceA + d.balanceB + Amount(d.htlcs) = channels[c].totalDeposited
        BY <1>3, <1>4 DEF WellFormed
    <2>2. Unresolved(c)' = d.htlcs
        BY <1>3 DEF Unresolved
    <2>3. IsFiniteSet(d.htlcs) /\ \A h \in d.htlcs : h.amount \in Nat
        BY DigestAssumption
    <2>4. Amount(d.htlcs) \in Nat
        BY <2>3, AmountsRemove DEF Amount, Amounts
    <2>5. d.balanceA \in Nat /\ d.balanceB \in Nat /\ channels[c].totalDeposited \in Nat
        BY <1>1, DigestAssumption DEF ChannelType
    <2> QED
        BY <1>3, <2>1, <2>2, <2>4, <2>5
<1> QED
    BY <1>2, <1>3, <1>4, PoolUntouched DEF PoolMatches

\* Paying out an HTLC takes its amount out of the pool.
LEMMA CreditDrainsPool ==
    ASSUME IInv, PoolMatches, NEW c \in ChannelIds, NEW h \in channels[c].htlcs,
           NEW u, Resolvable(c, h), Credit(c, h, u)
    PROVE  PoolMatches'
<1>1. channels \in [ChannelIds -> ChannelType]
      /\ htlcResolved \in [ChannelIds -> SUBSET Nat]
    BY DEF IInv, TypeOK, ChannelType
<1>2. ASSUME NEW k \in ChannelIds, k # c
      PROVE  channels'[k] = channels[k] /\ htlcResolved'[k] = htlcResolved[k]
    BY <1>1, <1>2 DEF Credit
<1>3. /\ channels'[c].status = "CLOSING_UNILATERAL"
      /\ channels'[c].htlcs = channels[c].htlcs
      /\ channels'[c].nonce = channels[c].nonce
      /\ channels'[c].totalDeposited = channels[c].totalDeposited
      /\ channels'[c].htlcPool = channels[c].htlcPool - h.amount
      /\ htlcResolved'[c] = htlcResolved[c] \cup {h.index}
      /\ Closing(c)
    BY <1>1 DEF Credit, Resolvable, ChannelType, Closing
<1>4. WellFormed(c)' <=> WellFormed(c)
    BY <1>3 DEF WellFormed, Participants
<1>5. ASSUME WellFormed(c)
      PROVE  channels'[c].htlcPool = Amount(Unresolved(c))'
    <2>1. h \in Unresolved(c) /\ Unresolved(c)' = Unresolved(c) \ {h}
        BY <1>3, <1>5 DEF Unresolved, Resolvable, WellFormed
    <2>2. channels[c].htlcPool = Amount(Unresolved(c))
        BY <1>3, <1>5 DEF PoolMatches
    <2>3. /\ Amount(Unresolved(c)) = Amount(Unresolved(c) \ {h}) + h.amount
          /\ Amount(Unresolved(c) \ {h}) \in Nat /\ h.amount \in Nat
        BY <2>1, HtlcsFinite, AmountsRemove DEF IInv, Amount, Amounts
    <2> QED
        BY <1>3, <2>1, <2>2, <2>3
<1> QED
    BY <1>2, <1>3, <1>4, <1>5, PoolUntouched DEF PoolMatches

\* Calls that leave c neither closing nor freshly open.
LEMMA FinalForgetsPool ==
    ASSUME PoolMatches, NEW c \in ChannelIds,
           \A k \in ChannelIds \ {c} : channels'[k] = channels[k],
           htlcResolved' = htlcResolved,
           \/ channels'[c].status = "CLOSED"
           \/ channels[c].status = "NONEXISTENT" /\ channels'[c].status = "OPEN"
    PROVE  PoolMatches'
<1>1. \A k \in ChannelIds \ {c} :
          /\ Closing(k)' = Closing(k) /\ WellFormed(k)' = WellFormed(k)
          /\ Unresolved(k)' = Unresolved(k)
    BY PoolUntouched
<1> QED
    BY <1>1 DEF PoolMatches, Closing

\* Every step keeps pool and unresolved HTLCs equal.
LEMMA PoolPreserved == IInv /\ PoolMatches /\ [Next]_vars => PoolMatches'
<1> SUFFICES ASSUME IInv, PoolMatches, [Next]_vars PROVE PoolMatches'
    OBVIOUS
<1>1. CASE \E c \in ChannelIds : Call(c)
    <2>1. PICK c \in ChannelIds : Call(c)
        BY <1>1
    <2>2. channels \in [ChannelIds -> ChannelType]
        BY DEF IInv, TypeOK, ChannelType
    <2>3. CASE \E f \in Fundings : openChannel(c, f[1], f[2])
        <3>1. /\ \A k \in ChannelIds \ {c} : channels'[k] = channels[k]
              /\ htlcResolved' = htlcResolved
              /\ channels[c].status = "NONEXISTENT" /\ channels'[c].status = "OPEN"
            BY <2>2, <2>3 DEF openChannel, ChannelType
        <3> QED
            BY <3>1, FinalForgetsPool
    <2>4. CASE \E u \in Users, d \in StateUpdates :
                 d.channelId = c /\ forceClose(u, c, d)
        BY <2>4, ForceFillsPool
    <2>5. CASE \/ \E d \in CoopCloses : d.channelId = c /\ closeChannel(c, d)
               \/ \E d \in StateUpdates : d.channelId = c /\ penalize(c, d)
               \/ distributeFunds(c)
        <3>1. /\ \A k \in ChannelIds \ {c} : channels'[k] = channels[k]
              /\ htlcResolved' = htlcResolved
              /\ channels'[c].status = "CLOSED"
            <4>1. CASE \E d \in CoopCloses : closeChannel(c, d)
                BY <2>2, <4>1 DEF closeChannel, ChannelType
            <4>2. CASE \E d \in StateUpdates : penalize(c, d)
                BY <2>2, <4>2 DEF penalize, ChannelType
            <4>3. CASE distributeFunds(c)
                BY <2>2, <4>3 DEF distributeFunds, ChannelType
            <4> QED
                BY <2>5, <4>1, <4>2, <4>3
        <3> QED
            BY <3>1, FinalForgetsPool
    <2>6. CASE \/ \E h \in channels[c].htlcs, p \in Preimages : claimHtlc(c, h, p)
               \/ \E h \in channels[c].htlcs : timeoutHtlc(c, h)
        <3>1. PICK h \in channels[c].htlcs : Resolvable(c, h) /\ \E u : Credit(c, h, u)
            BY <2>6 DEF claimHtlc, timeoutHtlc
        <3> QED
            BY <3>1, CreditDrainsPool
    <2> QED
        BY <2>1, <2>3, <2>4, <2>5, <2>6 DEF Call
<1>2. CASE \/ \E u \in Users, d \in Digests : Sign(u, d)
           \/ Tick
           \/ UNCHANGED vars
    <2>1. channels' = channels /\ htlcResolved' = htlcResolved
        BY <1>2 DEF Sign, Tick, vars
    <2> QED
        BY <2>1, PoolUntouched DEF PoolMatches
<1> QED
    BY <1>1, <1>2 DEF Next

\* The escape hatch is not needed for well-formed sets: each HTLC that is not
\* resolved still fits into the pool, and a pool that is not empty has one.
LEMMA PoolResolvable ==
    ASSUME TypeOK, PoolMatches
    PROVE  EveryHtlcResolvable
<1> SUFFICES ASSUME NEW c \in ChannelIds, Closing(c), WellFormed(c)
             PROVE  /\ \A h \in channels[c].htlcs :
                          h.index \notin htlcResolved[c] => Resolvable(c, h)
                    /\ channels[c].htlcPool > 0 =>
                          \E h \in channels[c].htlcs : h.index \notin htlcResolved[c]
    BY DEF EveryHtlcResolvable
<1>1. channels[c].htlcPool = Amount(Unresolved(c))
    BY DEF PoolMatches
<1>2. ASSUME NEW h \in channels[c].htlcs, h.index \notin htlcResolved[c]
      PROVE  Resolvable(c, h)
    <2>1. h \in Unresolved(c)
        BY <1>2 DEF Unresolved
    <2>2. /\ Amount(Unresolved(c)) = Amount(Unresolved(c) \ {h}) + h.amount
          /\ Amount(Unresolved(c) \ {h}) \in Nat /\ h.amount \in Nat
        BY <2>1, HtlcsFinite, AmountsRemove DEF Amount, Amounts
    <2>3. h.amount <= channels[c].htlcPool
        BY <1>1, <2>2
    <2> QED
        BY <1>2, <2>3 DEF Resolvable, Closing, WellFormed
<1>3. ASSUME channels[c].htlcPool > 0
      PROVE  \E h \in channels[c].htlcs : h.index \notin htlcResolved[c]
    <2>1. Unresolved(c) # {}
        BY <1>1, <1>3, AmountsEmpty DEF Amount, Amounts
    <2> QED
        BY <2>1 DEF Unresolved
<1> QED
    BY <1>2, <1>3

\* A well-formed set drains: whatever order claims and timeouts come in,
\* every HTLC that is left can be resolved, until the pool is empty
\* (ChannelManager.sol claimHtlc, timeoutHtlc).
THEOREM WellFormedDrains == Spec => []EveryHtlcResolvable
<1>1. Init => PoolMatches
    BY DEF Init, PoolMatches, Closing, NoChannel
<1>2. IInv /\ PoolMatches /\ [Next]_vars => PoolMatches'
    BY PoolPreserved
<1>3. IInv /\ PoolMatches => EveryHtlcResolvable
    BY PoolResolvable DEF IInv
<1> QED
    BY <1>1, <1>2, <1>3, InductiveInvariant, PTL DEF Spec

-----------------------------------------------------------------------------
(***************************************************************************)
(* HtlcRoots: the htlcsHash of a state is the root that HtlcsMerkleRoot    *)
(* computes.  The recursions of the tree, of the walk that collects a      *)
(* proof and of its verification have a solution for every input (UpTo);   *)
(* then a proof folds to the root, a verified leaf is a committed one, and *)
(* the root of a list without repeated indices determines its set.         *)
(***************************************************************************)
\* What the recursion in Levels computes up to level n.
LevelStep(f, leaves, d) ==
    IF d = 0 THEN leaves ELSE nextLevel(f[d - 1])
IsLevels(f, leaves, n) == f = [d \in 0 .. n |-> LevelStep(f, leaves, d)]

\* The levels of the tree exist.
LEMMA LevelsExists ==
    ASSUME NEW leaves, NEW N \in Nat
    PROVE  \E f : IsLevels(f, leaves, N)
<1> DEFINE G == {n \in 0 .. N : \E f : IsLevels(f, leaves, n)}
<1>1. 0 \in G
  <2> DEFINE f == [d \in 0 .. 0 |-> leaves]
  <2>1. IsLevels(f, leaves, 0)
    BY DEF IsLevels, LevelStep
  <2> QED BY <2>1
<1>2. ASSUME NEW n \in 1 .. N, n - 1 \in G PROVE n \in G
  <2>1. PICK f : IsLevels(f, leaves, n - 1)
    BY <1>2
  <2> DEFINE g == [d \in 0 .. n |-> IF d = n THEN LevelStep(f, leaves, n) ELSE f[d]]
  <2>2. ASSUME NEW d \in 0 .. n PROVE g[d] = LevelStep(g, leaves, d)
    <3>1. d # 0 => g[d - 1] = f[d - 1]
      OBVIOUS
    <3>2. LevelStep(g, leaves, d) = LevelStep(f, leaves, d)
      BY <3>1 DEF LevelStep
    <3>3. d # n => f[d] = LevelStep(f, leaves, d)
      BY <2>1 DEF IsLevels
    <3> QED BY <3>2, <3>3
  <2>3. IsLevels(g, leaves, n)
    <3> HIDE DEF g
    <3>1. g = [d \in 0 .. n |-> g[d]]
      BY DEF g
    <3> QED BY <2>2, <3>1 DEF IsLevels
  <2> QED BY <2>3
<1> HIDE DEF G
<1>3. \A n \in 0 .. N : n \in G
  <2>1. G \in SUBSET (0 .. N)
    BY DEF G
  <2> QED BY <1>1, <1>2, <2>1, UpTo
<1> QED BY <1>3 DEF G

\* Levels is that solution, level by level.
LEMMA LevelsSteps ==
    ASSUME NEW leaves, Len(leaves) \in Nat
    PROVE  /\ Levels(leaves)[0] = leaves
           /\ \A d \in 1 .. Len(leaves) :
                 Levels(leaves)[d] = nextLevel(Levels(leaves)[d - 1])
<1> DEFINE lv == CHOOSE f : IsLevels(f, leaves, Len(leaves))
<1>1. \E f : IsLevels(f, leaves, Len(leaves))
  BY LevelsExists
<1>2. IsLevels(lv, leaves, Len(leaves))
  BY <1>1
<1>3. Levels(leaves) = lv
  BY DEF Levels, IsLevels, LevelStep
<1> HIDE DEF lv
<1>4. \A d \in 0 .. Len(leaves) : lv[d] = LevelStep(lv, leaves, d)
  BY <1>2 DEF IsLevels
<1> QED BY <1>3, <1>4 DEF LevelStep

\* What the recursion in Walk computes up to level n.
WalkStep(f, leaves, pos, d) ==
    IF d = 0 THEN [level |-> leaves, idx |-> pos, proof |-> <<>>]
    ELSE LET u == f[d - 1]
         IN  [level |-> nextLevel(u.level), idx |-> u.idx \div 2,
              proof |-> u.proof \o Sibling(u.level, u.idx)]
IsWalk(f, leaves, pos, n) == f = [d \in 0 .. n |-> WalkStep(f, leaves, pos, d)]

\* The walk exists.
LEMMA WalkExists ==
    ASSUME NEW leaves, NEW pos, NEW N \in Nat
    PROVE  \E f : IsWalk(f, leaves, pos, N)
<1> DEFINE G == {n \in 0 .. N : \E f : IsWalk(f, leaves, pos, n)}
<1>1. 0 \in G
  <2> DEFINE f == [d \in 0 .. 0 |-> [level |-> leaves, idx |-> pos, proof |-> <<>>]]
  <2>1. IsWalk(f, leaves, pos, 0)
    BY DEF IsWalk, WalkStep
  <2> QED BY <2>1
<1>2. ASSUME NEW n \in 1 .. N, n - 1 \in G PROVE n \in G
  <2>1. PICK f : IsWalk(f, leaves, pos, n - 1)
    BY <1>2
  <2> DEFINE g == [d \in 0 .. n |-> IF d = n THEN WalkStep(f, leaves, pos, n) ELSE f[d]]
  <2>2. ASSUME NEW d \in 0 .. n PROVE g[d] = WalkStep(g, leaves, pos, d)
    <3>1. d # 0 => g[d - 1] = f[d - 1]
      OBVIOUS
    <3>2. WalkStep(g, leaves, pos, d) = WalkStep(f, leaves, pos, d)
      BY <3>1 DEF WalkStep
    <3>3. d # n => f[d] = WalkStep(f, leaves, pos, d)
      BY <2>1 DEF IsWalk
    <3> QED BY <3>2, <3>3
  <2>3. IsWalk(g, leaves, pos, n)
    <3> HIDE DEF g
    <3>1. g = [d \in 0 .. n |-> g[d]]
      BY DEF g
    <3> QED BY <2>2, <3>1 DEF IsWalk
  <2> QED BY <2>3
<1> HIDE DEF G
<1>3. \A n \in 0 .. N : n \in G
  <2>1. G \in SUBSET (0 .. N)
    BY DEF G
  <2> QED BY <1>1, <1>2, <2>1, UpTo
<1> QED BY <1>3 DEF G

\* The rounds of a walk: each one climbs one level.
Path(w, leaves, pos) ==
    /\ w[0].level = leaves /\ w[0].idx = pos /\ w[0].proof = <<>>
    /\ \A d \in 1 .. Len(leaves) :
          /\ w[d].level = nextLevel(w[d - 1].level)
          /\ w[d].idx = w[d - 1].idx \div 2
          /\ w[d].proof = w[d - 1].proof \o Sibling(w[d - 1].level, w[d - 1].idx)

\* Walk ends where that solution does.
LEMMA WalkSteps ==
    ASSUME NEW leaves, NEW pos, Len(leaves) \in Nat
    PROVE  \E w : Walk(leaves, pos) = w[Len(leaves)] /\ Path(w, leaves, pos)
<1> DEFINE w == CHOOSE f : IsWalk(f, leaves, pos, Len(leaves))
<1>1. \E f : IsWalk(f, leaves, pos, Len(leaves))
  BY WalkExists
<1>2. IsWalk(w, leaves, pos, Len(leaves))
  BY <1>1
<1>3. Walk(leaves, pos) = w[Len(leaves)]
  BY DEF Walk, IsWalk, WalkStep
<1> HIDE DEF w
<1>4. \A d \in 0 .. Len(leaves) : w[d] = WalkStep(w, leaves, pos, d)
  BY <1>2 DEF IsWalk
<1>5. w[0] = [level |-> leaves, idx |-> pos, proof |-> <<>>]
  <2>1. w[0] = WalkStep(w, leaves, pos, 0)
    BY <1>4
  <2> QED BY <2>1, Zenon DEF WalkStep
<1>6. w[0].level = leaves /\ w[0].idx = pos /\ w[0].proof = <<>>
  BY <1>5
<1>7. ASSUME NEW d \in 1 .. Len(leaves)
      PROVE  /\ w[d].level = nextLevel(w[d - 1].level)
             /\ w[d].idx = w[d - 1].idx \div 2
             /\ w[d].proof = w[d - 1].proof \o Sibling(w[d - 1].level, w[d - 1].idx)
  <2>1. w[d] = WalkStep(w, leaves, pos, d) /\ d # 0
    BY <1>4
  <2> DEFINE a == nextLevel(w[d - 1].level)
             b == w[d - 1].idx \div 2
             c == w[d - 1].proof \o Sibling(w[d - 1].level, w[d - 1].idx)
  <2>2. w[d] = [level |-> a, idx |-> b, proof |-> c]
    BY <2>1, Zenon DEF WalkStep
  <2> HIDE DEF a, b, c
  <2>3. w[d].level = a /\ w[d].idx = b /\ w[d].proof = c
    BY <2>2
  <2> QED BY <2>3 DEF a, b, c
<1> QED BY <1>3, <1>6, <1>7 DEF Path

\* What the recursion in Folded computes up to element n of the proof.
FoldStep(f, leaf, proof, d) ==
    IF d = 0 THEN leaf ELSE commutativeHash(f[d - 1], proof[d])
IsFold(f, leaf, proof, n) == f = [d \in 0 .. n |-> FoldStep(f, leaf, proof, d)]

\* The fold exists.
LEMMA FoldExists ==
    ASSUME NEW leaf, NEW proof, NEW N \in Nat
    PROVE  \E f : IsFold(f, leaf, proof, N)
<1> DEFINE G == {n \in 0 .. N : \E f : IsFold(f, leaf, proof, n)}
<1>1. 0 \in G
  <2> DEFINE f == [d \in 0 .. 0 |-> leaf]
  <2>1. IsFold(f, leaf, proof, 0)
    BY DEF IsFold, FoldStep
  <2> QED BY <2>1
<1>2. ASSUME NEW n \in 1 .. N, n - 1 \in G PROVE n \in G
  <2>1. PICK f : IsFold(f, leaf, proof, n - 1)
    BY <1>2
  <2> DEFINE g == [d \in 0 .. n |-> IF d = n THEN FoldStep(f, leaf, proof, n) ELSE f[d]]
  <2>2. ASSUME NEW d \in 0 .. n PROVE g[d] = FoldStep(g, leaf, proof, d)
    <3>1. d # 0 => g[d - 1] = f[d - 1]
      OBVIOUS
    <3>2. FoldStep(g, leaf, proof, d) = FoldStep(f, leaf, proof, d)
      BY <3>1 DEF FoldStep
    <3>3. d # n => f[d] = FoldStep(f, leaf, proof, d)
      BY <2>1 DEF IsFold
    <3> QED BY <3>2, <3>3
  <2>3. IsFold(g, leaf, proof, n)
    <3> HIDE DEF g
    <3>1. g = [d \in 0 .. n |-> g[d]]
      BY DEF g
    <3> QED BY <2>2, <3>1 DEF IsFold
  <2> QED BY <2>3
<1> HIDE DEF G
<1>3. \A n \in 0 .. N : n \in G
  <2>1. G \in SUBSET (0 .. N)
    BY DEF G
  <2> QED BY <1>1, <1>2, <2>1, UpTo
<1> QED BY <1>3 DEF G

\* Folded ends where that solution does.
LEMMA FoldedSteps ==
    ASSUME NEW proof, NEW leaf, Len(proof) \in Nat
    PROVE  \E f : /\ Folded(proof, leaf) = f[Len(proof)] /\ f[0] = leaf
                  /\ \A k \in 1 .. Len(proof) : f[k] = commutativeHash(f[k - 1], proof[k])
<1> DEFINE g == CHOOSE f : IsFold(f, leaf, proof, Len(proof))
<1>1. \E f : IsFold(f, leaf, proof, Len(proof))
  BY FoldExists
<1>2. IsFold(g, leaf, proof, Len(proof))
  BY <1>1
<1>3. Folded(proof, leaf) = g[Len(proof)]
  BY DEF Folded, IsFold, FoldStep
<1> HIDE DEF g
<1>4. \A k \in 0 .. Len(proof) : g[k] = FoldStep(g, leaf, proof, k)
  BY <1>2 DEF IsFold
<1>5. g[0] = leaf
  BY <1>4 DEF FoldStep
<1>6. \A k \in 1 .. Len(proof) : g[k] = commutativeHash(g[k - 1], proof[k])
  BY <1>4 DEF FoldStep
<1> QED BY <1>3, <1>5, <1>6

-----------------------------------------------------------------------------
\* A level of parents: half as long, rounded up, and each parent is the hash
\* of its two children or the promoted odd tail.
LEMMA NextLevelType ==
    ASSUME NEW T, NEW level \in Seq(T)
    PROVE  /\ DOMAIN nextLevel(level) = 1 .. (Len(level) + 1) \div 2
           /\ Len(nextLevel(level)) = (Len(level) + 1) \div 2
           /\ nextLevel(level) \in
                 Seq({nextLevel(level)[i] : i \in 1 .. (Len(level) + 1) \div 2})
<1> DEFINE m == (Len(level) + 1) \div 2
           par(i) == IF 2 * i > Len(level) THEN level[2 * i - 1]
                     ELSE commutativeHash(level[2 * i - 1], level[2 * i])
           U == {nextLevel(level)[i] : i \in 1 .. m}
<1>1. m \in Nat
  <2>1. Len(level) \in Nat
    OBVIOUS
  <2> QED BY <2>1
<1>2. nextLevel(level) = [i \in 1 .. m |-> par(i)]
  BY DEF nextLevel
<1> HIDE DEF m, par
<1>3. nextLevel(level) \in [1 .. m -> U]
  BY <1>2
<1>4. nextLevel(level) \in Seq(U)
  BY <1>1, <1>3, SeqDef
<1>5. DOMAIN nextLevel(level) = 1 .. m /\ Len(nextLevel(level)) = m
  BY <1>1, <1>2, <1>4, LenProperties
<1> QED BY <1>4, <1>5 DEF m

\* What an odd or an even position of a level becomes: its parent is the hash
\* of it and its sibling, or itself where it has none.
LEMMA ParentOf ==
    ASSUME NEW T, NEW level \in Seq(T), NEW idx \in Nat, idx < Len(level)
    PROVE  /\ idx \div 2 \in Nat /\ idx \div 2 < Len(nextLevel(level))
           /\ \/ /\ Sibling(level, idx) = <<>>
                 /\ nextLevel(level)[idx \div 2 + 1] = level[idx + 1]
              \/ \E i \in 1 .. Len(level) :
                    /\ Sibling(level, idx) = <<level[i]>>
                    /\ nextLevel(level)[idx \div 2 + 1] =
                          commutativeHash(level[idx + 1], level[i])
<1> DEFINE L == Len(level)
           m == (L + 1) \div 2
           q == idx \div 2
<1>1. L \in Nat /\ idx < L
  OBVIOUS
<1>2. nextLevel(level) = [i \in 1 .. m |->
                            IF 2 * i > L THEN level[2 * i - 1]
                            ELSE commutativeHash(level[2 * i - 1], level[2 * i])]
  BY DEF nextLevel
<1>3. Len(nextLevel(level)) = m
  BY NextLevelType
<1> HIDE DEF L
<1>4. q \in Nat /\ m \in Nat /\ q < m /\ q + 1 \in 1 .. m
  BY <1>1
<1> HIDE DEF m
<1>5. nextLevel(level)[q + 1] = IF 2 * (q + 1) > L THEN level[2 * (q + 1) - 1]
                                ELSE commutativeHash(level[2 * (q + 1) - 1], level[2 * (q + 1)])
  BY <1>2, <1>4, Zenon
<1>6. CASE idx % 2 = 0 /\ idx + 1 < L
  <2>1. 2 * (q + 1) = idx + 2 /\ 2 * (q + 1) - 1 = idx + 1 /\ ~ (2 * (q + 1) > L)
        /\ idx + 2 \in 1 .. L
    BY <1>1, <1>6
  <2> HIDE DEF q
  <2>2. nextLevel(level)[q + 1] = commutativeHash(level[idx + 1], level[idx + 2])
    BY <1>5, <2>1
  <2>3. Sibling(level, idx) = <<level[idx + 2]>>
    BY <1>6 DEF Sibling, L
  <2> QED BY <1>3, <1>4, <2>1, <2>2, <2>3 DEF L, q
<1>7. CASE idx % 2 = 0 /\ ~ (idx + 1 < L)
  <2>1. 2 * (q + 1) - 1 = idx + 1 /\ 2 * (q + 1) > L
    BY <1>1, <1>7
  <2> HIDE DEF q
  <2>2. nextLevel(level)[q + 1] = level[idx + 1]
    BY <1>5, <2>1
  <2>3. Sibling(level, idx) = <<>>
    BY <1>7 DEF Sibling, L
  <2> QED BY <1>3, <1>4, <2>1, <2>2, <2>3 DEF L, q
<1>8. CASE idx % 2 # 0
  <2>1. 2 * (q + 1) = idx + 1 /\ 2 * (q + 1) - 1 = idx /\ ~ (2 * (q + 1) > L)
        /\ idx \in 1 .. L
    BY <1>1, <1>8
  <2> HIDE DEF q
  <2>2. nextLevel(level)[q + 1] = commutativeHash(level[idx], level[idx + 1])
    BY <1>5, <2>1
  <2>3. commutativeHash(level[idx], level[idx + 1]) = commutativeHash(level[idx + 1], level[idx])
    BY DEF commutativeHash
  <2>4. Sibling(level, idx) = <<level[idx]>>
    BY <1>8 DEF Sibling
  <2> QED BY <1>3, <1>4, <2>1, <2>2, <2>3, <2>4 DEF L, q
<1> QED BY <1>6, <1>7, <1>8

\* A proof that grows by one element folds to one more hash.
LEMMA FoldedAppend ==
    ASSUME NEW T, NEW p \in Seq(T), NEW x \in T, NEW leaf
    PROVE  Folded(p \o <<x>>, leaf) = commutativeHash(Folded(p, leaf), x)
<1> DEFINE q == p \o <<x>>
           N == Len(p)
<1>1. /\ q \in Seq(T) /\ Len(q) = N + 1 /\ N \in Nat
      /\ \A k \in 1 .. N : q[k] = p[k]
      /\ q[N + 1] = x
  OBVIOUS
<1>2. PICK f : /\ Folded(p, leaf) = f[Len(p)] /\ f[0] = leaf
               /\ \A k \in 1 .. Len(p) : f[k] = commutativeHash(f[k - 1], p[k])
  BY FoldedSteps
<1> HIDE DEF q
<1>3. PICK g : /\ Folded(q, leaf) = g[Len(q)] /\ g[0] = leaf
               /\ \A k \in 1 .. Len(q) : g[k] = commutativeHash(g[k - 1], q[k])
  BY <1>1, FoldedSteps
<1> DEFINE G == {k \in 0 .. N : f[k] = g[k]}
<1>4. 0 \in G
  BY <1>1, <1>2, <1>3
<1>5. ASSUME NEW k \in 1 .. N, k - 1 \in G PROVE k \in G
  <2>1. g[k] = commutativeHash(g[k - 1], q[k])
    BY <1>1, <1>3
  <2>2. f[k] = commutativeHash(f[k - 1], p[k])
    BY <1>2
  <2> QED BY <1>1, <1>5, <2>1, <2>2
<1>6. \A k \in 0 .. N : k \in G
  <2>1. G \in SUBSET (0 .. N)
    OBVIOUS
  <2> HIDE DEF G
  <2> QED BY <1>1, <1>4, <1>5, <2>1, UpTo
<1>7. f[N] = g[N]
  BY <1>1, <1>6
<1>8. g[N + 1] = commutativeHash(g[N], x)
  <2>1. N + 1 \in 1 .. Len(q) /\ (N + 1) - 1 = N
    BY <1>1
  <2> QED BY <1>1, <1>3, <2>1
<1> QED BY <1>1, <1>2, <1>3, <1>7, <1>8 DEF q

\* An empty proof leaves the leaf as it is.
LEMMA FoldedEmpty ==
    ASSUME NEW leaf
    PROVE  Folded(<<>>, leaf) = leaf
<1>1. Len(<<>>) = 0
  OBVIOUS
<1>2. PICK f : Folded(<<>>, leaf) = f[Len(<<>>)] /\ f[0] = leaf
  BY <1>1, FoldedSteps
<1> QED BY <1>1, <1>2

\* The proof collected on the way up folds into the root, from any position of
\* a tree of any size.  After d rounds the siblings so far fold to the node
\* the walk is at, and every round shortens a level of more than one node.
LEMMA PathVerifies ==
    ASSUME NEW T, NEW leaves \in Seq(T), NEW pos \in Nat, pos < Len(leaves)
    PROVE  /\ \E U : Walk(leaves, pos).proof \in Seq(U)
           /\ Folded(Walk(leaves, pos).proof, leaves[pos + 1])
                 = Levels(leaves)[Len(leaves)][1]
<1> DEFINE N == Len(leaves)
           leaf == leaves[pos + 1]
           lv == Levels(leaves)
<1>1. N \in Nat /\ N >= 1
  OBVIOUS
<1>2. PICK w : Walk(leaves, pos) = w[N] /\ Path(w, leaves, pos)
  BY <1>1, WalkSteps
<1>3. lv[0] = leaves /\ \A d \in 1 .. N : lv[d] = nextLevel(lv[d - 1])
  BY <1>1, LevelsSteps
<1> DEFINE At(level, idx, proof, d) ==
             /\ level = lv[d]
             /\ \E U : level \in Seq(U) /\ proof \in Seq(U)
             /\ idx \in Nat /\ idx < Len(level)
             /\ Len(level) = 1 \/ Len(level) <= N - d
             /\ Folded(proof, leaf) = level[idx + 1]
           G == {d \in 0 .. N : At(w[d].level, w[d].idx, w[d].proof, d)}
<1>4. 0 \in G
  <2>1. w[0].level = leaves /\ w[0].idx = pos /\ w[0].proof = <<>>
    BY <1>2 DEF Path
  <2>2. <<>> \in Seq(T)
    OBVIOUS
  <2>3. Folded(<<>>, leaf) = leaves[pos + 1]
    BY FoldedEmpty
  <2> HIDE DEF leaf, lv
  <2>4. At(leaves, pos, <<>>, 0)
    BY <1>1, <1>3, <2>2, <2>3
  <2> HIDE DEF At
  <2> QED BY <1>1, <2>1, <2>4
<1> HIDE DEF leaf, lv, N
<1>5. ASSUME NEW d \in 1 .. N, d - 1 \in G PROVE d \in G
  <2> DEFINE level == w[d - 1].level
             idx == w[d - 1].idx
             proof == w[d - 1].proof
  <2>1. At(level, idx, proof, d - 1)
    BY <1>5
  <2>2. /\ w[d].level = nextLevel(level) /\ w[d].idx = idx \div 2
        /\ w[d].proof = proof \o Sibling(level, idx)
    BY <1>2 DEF Path, N
  <2>3. lv[d] = nextLevel(lv[d - 1])
    BY <1>3
  <2> HIDE DEF level, idx, proof
  <2>4. PICK U : level \in Seq(U) /\ proof \in Seq(U)
    BY <2>1
  <2>5. level = lv[d - 1] /\ idx \in Nat /\ idx < Len(level)
        /\ (Len(level) = 1 \/ Len(level) <= N - (d - 1))
        /\ Folded(proof, leaf) = level[idx + 1]
    BY <2>1
  <2>6. /\ Len(nextLevel(level)) = (Len(level) + 1) \div 2
        /\ \E V : nextLevel(level) \in Seq(V)
    BY <2>4, NextLevelType
  <2>7. PICK V : nextLevel(level) \in Seq(V)
    BY <2>6
  <2>8. /\ idx \div 2 \in Nat /\ idx \div 2 < Len(nextLevel(level))
        /\ \/ /\ Sibling(level, idx) = <<>>
              /\ nextLevel(level)[idx \div 2 + 1] = level[idx + 1]
           \/ \E i \in 1 .. Len(level) :
                 /\ Sibling(level, idx) = <<level[i]>>
                 /\ nextLevel(level)[idx \div 2 + 1] =
                       commutativeHash(level[idx + 1], level[i])
    BY <2>4, <2>5, ParentOf
  <2>9. Len(nextLevel(level)) = 1 \/ Len(nextLevel(level)) <= N - d
    <3>1. Len(level) \in Nat /\ Len(level) >= 1
      BY <2>4, <2>5
    <3>2. \A L \in Nat, K, e \in Int :
             L >= 1 /\ (L = 1 \/ L <= K - (e - 1))
             => (L + 1) \div 2 = 1 \/ (L + 1) \div 2 <= K - e
      OBVIOUS
    <3>3. N \in Int /\ d \in Int
      BY <1>1
    <3> QED BY <2>5, <2>6, <3>1, <3>2, <3>3
  <2>10. /\ Folded(proof \o Sibling(level, idx), leaf) = nextLevel(level)[idx \div 2 + 1]
         /\ proof \o Sibling(level, idx) \in Seq(U)
    <3>1. CASE Sibling(level, idx) = <<>> /\ nextLevel(level)[idx \div 2 + 1] = level[idx + 1]
      <4>1. proof \o <<>> = proof
        BY <2>4
      <4> QED BY <2>4, <2>5, <3>1, <4>1
    <3>2. ASSUME NEW i \in 1 .. Len(level), Sibling(level, idx) = <<level[i]>>,
                 nextLevel(level)[idx \div 2 + 1] = commutativeHash(level[idx + 1], level[i])
          PROVE  <2>10!1 /\ <2>10!2
      <4>1. level[i] \in U
        BY <2>4
      <4>2. Folded(proof \o <<level[i]>>, leaf) = commutativeHash(Folded(proof, leaf), level[i])
        BY <2>4, <4>1, FoldedAppend
      <4>3. proof \o <<level[i]>> \in Seq(U)
        BY <2>4, <4>1
      <4> QED BY <2>5, <3>2, <4>2, <4>3
    <3> QED BY <2>8, <3>1, <3>2
  <2>11. \E W : nextLevel(level) \in Seq(W) /\ proof \o Sibling(level, idx) \in Seq(W)
    <3>1. nextLevel(level) \in Seq(U \cup V) /\ proof \o Sibling(level, idx) \in Seq(U \cup V)
      BY <2>7, <2>10
    <3> QED BY <3>1
  <2>12. At(nextLevel(level), idx \div 2, proof \o Sibling(level, idx), d)
    BY <2>3, <2>5, <2>8, <2>9, <2>10, <2>11
  <2> HIDE DEF At
  <2>13. At(w[d].level, w[d].idx, w[d].proof, d)
    BY <2>2, <2>12
  <2> QED BY <2>13
<1>6. \A d \in 0 .. N : d \in G
  <2>1. G \in SUBSET (0 .. N)
    OBVIOUS
  <2> HIDE DEF G
  <2> QED BY <1>1, <1>4, <1>5, <2>1, UpTo
<1>7. At(w[N].level, w[N].idx, w[N].proof, N)
  BY <1>1, <1>6
<1>8. w[N].idx + 1 = 1
  <2>1. PICK U : w[N].level \in Seq(U)
    BY <1>7
  <2>2. Len(w[N].level) \in Nat
    BY <2>1
  <2> QED BY <1>1, <1>7, <2>2
<1>9. Folded(w[N].proof, leaf) = lv[N][1]
  BY <1>7, <1>8
<1>10. \E U : w[N].proof \in Seq(U)
  BY <1>7
<1> QED BY <1>2, <1>9, <1>10 DEF leaf, lv, N

-----------------------------------------------------------------------------
\* The order sort.Slice leaves the HTLCs of a list in, and the place of the
\* one at position j.
MerkleHtlcs == [index : Nat, recipient : Parties]
SortsBefore(hs, i, j) == \/ hs[i].index < hs[j].index
                         \/ hs[i].index = hs[j].index /\ i < j
SortedFirst(hs, j) == {i \in DOMAIN hs : SortsBefore(hs, i, j)}
SortRank(hs, j) == Cardinality(SortedFirst(hs, j)) + 1

\* Every position has a place of its own.
LEMMA RankInjective ==
    ASSUME NEW hs \in Seq(MerkleHtlcs)
    PROVE  /\ \A j \in 1 .. Len(hs) : SortRank(hs, j) \in 1 .. Len(hs)
           /\ \A i, j \in 1 .. Len(hs) : SortRank(hs, i) = SortRank(hs, j) => i = j
<1> DEFINE N == Len(hs)
<1>1. N \in Nat /\ DOMAIN hs = 1 .. N
  OBVIOUS
<1>2. \A i \in 1 .. N : hs[i].index \in Nat
  <2>1. \A i \in 1 .. N : hs[i] \in MerkleHtlcs
    OBVIOUS
  <2> QED BY <2>1 DEF MerkleHtlcs
<1> HIDE DEF N
<1>3. IsFiniteSet(1 .. N) /\ Cardinality(1 .. N) = N
  BY <1>1, FS_Interval
<1>4. ASSUME NEW j \in 1 .. N
      PROVE  /\ SortedFirst(hs, j) \in SUBSET (1 .. N) /\ j \notin SortedFirst(hs, j)
             /\ IsFiniteSet(SortedFirst(hs, j)) /\ Cardinality(SortedFirst(hs, j)) \in Nat
  <2>1. SortedFirst(hs, j) \in SUBSET (1 .. N)
    BY <1>1 DEF SortedFirst
  <2>2. j \notin SortedFirst(hs, j)
    <3>1. ~ SortsBefore(hs, j, j)
      BY <1>2 DEF SortsBefore
    <3> QED BY <3>1 DEF SortedFirst
  <2> QED BY <1>3, <2>1, <2>2, FS_Subset, FS_CardinalityType
<1>5. ASSUME NEW j \in 1 .. N PROVE SortRank(hs, j) \in 1 .. N
  <2>1. IsFiniteSet((1 .. N) \ {j}) /\ Cardinality((1 .. N) \ {j}) = N - 1
    BY <1>1, <1>3, FS_RemoveElement
  <2>2. SortedFirst(hs, j) \in SUBSET ((1 .. N) \ {j})
    BY <1>4
  <2>3. Cardinality(SortedFirst(hs, j)) <= N - 1
    BY <2>1, <2>2, FS_Subset
  <2>4. Cardinality(SortedFirst(hs, j)) \in Nat
    BY <1>4
  <2> QED BY <1>1, <2>3, <2>4 DEF SortRank
<1>6. ASSUME NEW i \in 1 .. N, NEW j \in 1 .. N, SortsBefore(hs, i, j)
      PROVE  SortRank(hs, i) # SortRank(hs, j)
  <2> DEFINE A == SortedFirst(hs, i)
             B == SortedFirst(hs, j)
  <2>1. IsFiniteSet(A) /\ i \notin A /\ IsFiniteSet(B)
        /\ Cardinality(A) \in Nat /\ Cardinality(B) \in Nat
    BY <1>4
  <2>2. A \cup {i} \in SUBSET B
    <3>1. ASSUME NEW k \in 1 .. N, SortsBefore(hs, k, i) PROVE SortsBefore(hs, k, j)
      <4>1. hs[k].index \in Nat /\ hs[i].index \in Nat /\ hs[j].index \in Nat
        BY <1>2
      <4>2. k \in Nat /\ i \in Nat /\ j \in Nat
        BY <1>1
      <4> QED BY <1>6, <3>1, <4>1, <4>2 DEF SortsBefore
    <3> QED BY <1>1, <1>6, <3>1 DEF SortedFirst
  <2> HIDE DEF A, B
  <2>3. Cardinality(A \cup {i}) = Cardinality(A) + 1
    BY <2>1, FS_AddElement
  <2>4. Cardinality(A \cup {i}) <= Cardinality(B)
    BY <2>1, <2>2, FS_Subset
  <2>5. Cardinality(A) # Cardinality(B)
    BY <2>1, <2>3, <2>4
  <2> QED BY <2>1, <2>5 DEF SortRank, A, B
<1>7. ASSUME NEW i \in 1 .. N, NEW j \in 1 .. N, i # j
      PROVE  SortRank(hs, i) # SortRank(hs, j)
  <2>1. SortsBefore(hs, i, j) \/ SortsBefore(hs, j, i)
    <3>1. hs[i].index \in Nat /\ hs[j].index \in Nat /\ i \in Nat /\ j \in Nat
      BY <1>1, <1>2
    <3> QED BY <1>7, <3>1 DEF SortsBefore
  <2> QED BY <1>6, <2>1
<1> QED BY <1>5, <1>7 DEF N

\* The sorted list is the list, rearranged: every HTLC is at its place, and
\* every place holds one of them.
LEMMA SortedPermutes ==
    ASSUME NEW hs \in Seq(MerkleHtlcs)
    PROVE  /\ SortedByIndex(hs) \in Seq(MerkleHtlcs)
           /\ Len(SortedByIndex(hs)) = Len(hs)
           /\ DOMAIN SortedByIndex(hs) = 1 .. Len(hs)
           /\ \A j \in 1 .. Len(hs) : SortedByIndex(hs)[SortRank(hs, j)] = hs[j]
           /\ \A k \in 1 .. Len(hs) : \E j \in 1 .. Len(hs) :
                 SortRank(hs, j) = k /\ SortedByIndex(hs)[k] = hs[j]
<1> DEFINE N == Len(hs)
           s == SortedByIndex(hs)
           R == [j \in 1 .. N |-> SortRank(hs, j)]
<1>1. N \in Nat /\ DOMAIN hs = 1 .. N /\ \A j \in 1 .. N : hs[j] \in MerkleHtlcs
  OBVIOUS
<1>2. s = [k \in 1 .. N |-> hs[CHOOSE j \in 1 .. N : SortRank(hs, j) = k]]
  BY <1>1 DEF SortedByIndex, SortRank, SortedFirst, SortsBefore
<1>3. \A j \in 1 .. N : SortRank(hs, j) \in 1 .. N
  BY RankInjective
<1>4. \A i, j \in 1 .. N : SortRank(hs, i) = SortRank(hs, j) => i = j
  BY RankInjective
<1> HIDE DEF N, s
<1>5. R \in Injection(1 .. N, 1 .. N)
  BY <1>3, <1>4, Fun_IsInj
<1>6. R \in Surjection(1 .. N, 1 .. N)
  <2>1. IsFiniteSet(1 .. N)
    BY <1>1, FS_Interval
  <2> HIDE DEF R
  <2> QED BY <1>5, <2>1, FS_Injection
<1>7. \A k \in 1 .. N : \E j \in 1 .. N : SortRank(hs, j) = k
  BY <1>6 DEF Surjection
<1>8. ASSUME NEW k \in 1 .. N
      PROVE  \E j \in 1 .. N : SortRank(hs, j) = k /\ s[k] = hs[j]
  <2> DEFINE c == CHOOSE j \in 1 .. N : SortRank(hs, j) = k
  <2>1. c \in 1 .. N /\ SortRank(hs, c) = k
    BY <1>7
  <2>2. s[k] = hs[c]
    BY <1>2
  <2> QED BY <2>1, <2>2
<1>9. ASSUME NEW j \in 1 .. N PROVE s[SortRank(hs, j)] = hs[j]
  <2>1. PICK i \in 1 .. N : SortRank(hs, i) = SortRank(hs, j) /\ s[SortRank(hs, j)] = hs[i]
    BY <1>3, <1>8
  <2> QED BY <1>4, <2>1
<1>10. DOMAIN s = 1 .. N
  BY <1>2
<1>11. \A k \in 1 .. N : s[k] \in MerkleHtlcs
  BY <1>1, <1>8
<1>12. s \in Seq(MerkleHtlcs) /\ Len(s) = N
  <2>1. s \in [1 .. N -> MerkleHtlcs]
    BY <1>2, <1>10, <1>11
  <2>2. s \in Seq(MerkleHtlcs)
    BY <1>1, <2>1, SeqDef
  <2> QED BY <1>1, <1>10, <2>2, LenProperties
<1> QED BY <1>8, <1>9, <1>10, <1>12 DEF N, s

\* The leaves are the sorted HTLCs' leaves.
LEMMA LeavesType ==
    ASSUME NEW hs \in Seq(MerkleHtlcs)
    PROVE  /\ sortedLeaves(hs) \in Seq({Leaf(h) : h \in MerkleHtlcs})
           /\ Len(sortedLeaves(hs)) = Len(hs)
           /\ \A k \in 1 .. Len(hs) : sortedLeaves(hs)[k] = Leaf(SortedByIndex(hs)[k])
<1> DEFINE s == SortedByIndex(hs)
           N == Len(hs)
           T == {Leaf(h) : h \in MerkleHtlcs}
<1>1. N \in Nat
  OBVIOUS
<1>2. DOMAIN s = 1 .. N /\ \A k \in 1 .. N : s[k] \in MerkleHtlcs
  BY SortedPermutes
<1>3. sortedLeaves(hs) = [k \in 1 .. N |-> Leaf(s[k])]
  BY <1>2 DEF sortedLeaves
<1> HIDE DEF s, N
<1>4. sortedLeaves(hs) \in [1 .. N -> T]
  BY <1>2, <1>3
<1>5. sortedLeaves(hs) \in Seq(T)
  BY <1>1, <1>4, SeqDef
<1>6. Len(sortedLeaves(hs)) = N
  BY <1>1, <1>4, <1>5, LenProperties
<1> QED BY <1>3, <1>5, <1>6 DEF s, N

-----------------------------------------------------------------------------
\* No two HTLCs of the list share an index.
Unambiguous(hs) == \A i, j \in 1 .. Len(hs) : hs[i].index = hs[j].index => i = j

\* The proof of every HTLC of such a list verifies against its root.
LEMMA ProofVerifies ==
    ASSUME NEW hs \in Seq(MerkleHtlcs), Unambiguous(hs), NEW i \in 1 .. Len(hs)
    PROVE  /\ \E U : HtlcMerkleProof(hs, hs[i].index) \in Seq(U)
           /\ VerifyHtlcMerkleProof(HtlcMerkleProof(hs, hs[i].index),
                                    HtlcsMerkleRoot(hs), Leaf(hs[i]))
<1> DEFINE N == Len(hs)
           s == SortedByIndex(hs)
           x == hs[i].index
           First(k) == s[k].index = x /\ \A j \in 1 .. k - 1 : s[j].index # x
           c == CHOOSE k \in DOMAIN s : First(k)
           leaves == sortedLeaves(hs)
<1>1. N \in Nat /\ N >= 1 /\ hs # <<>>
  OBVIOUS
<1>2. /\ DOMAIN s = 1 .. N
      /\ s[SortRank(hs, i)] = hs[i]
      /\ \A k \in 1 .. N : \E j \in 1 .. N : SortRank(hs, j) = k /\ s[k] = hs[j]
  BY SortedPermutes
<1>3. SortRank(hs, i) \in 1 .. N
  BY RankInjective
<1>4. \A j \in 1 .. N : hs[j].index = x => j = i
  BY DEF Unambiguous
<1> HIDE DEF N, s
<1>5. First(SortRank(hs, i))
  <2>1. s[SortRank(hs, i)].index = x
    BY <1>2
  <2>2. ASSUME NEW j \in 1 .. SortRank(hs, i) - 1 PROVE s[j].index # x
    <3>1. j \in 1 .. N /\ j # SortRank(hs, i)
      BY <1>1, <1>3
    <3>2. PICK m \in 1 .. N : SortRank(hs, m) = j /\ s[j] = hs[m]
      BY <1>2, <3>1
    <3>3. m # i
      BY <3>1, <3>2
    <3> QED BY <1>4, <3>2, <3>3
  <2> QED BY <2>1, <2>2
<1>6. c \in 1 .. N /\ First(c)
  <2> HIDE DEF First
  <2> QED BY <1>2, <1>3, <1>5
<1>7. HtlcMerkleProof(hs, x) = Walk(leaves, c - 1).proof
  BY DEF HtlcMerkleProof, s
<1> HIDE DEF c
<1>8. s[c] = hs[i]
  <2>1. PICK m \in 1 .. N : s[c] = hs[m]
    BY <1>2, <1>6
  <2> QED BY <1>4, <1>6, <2>1
<1>9. /\ leaves \in Seq({Leaf(h) : h \in MerkleHtlcs}) /\ Len(leaves) = N
      /\ leaves[c] = Leaf(s[c])
  BY <1>6, LeavesType DEF N, s
<1> HIDE DEF leaves
<1>10. c - 1 \in Nat /\ c - 1 < Len(leaves) /\ (c - 1) + 1 = c
  BY <1>1, <1>6, <1>9
<1>11. /\ \E U : Walk(leaves, c - 1).proof \in Seq(U)
       /\ Folded(Walk(leaves, c - 1).proof, leaves[(c - 1) + 1]) = Levels(leaves)[Len(leaves)][1]
  BY <1>9, <1>10, PathVerifies
<1>12. HtlcsMerkleRoot(hs) = Levels(leaves)[N][1]
  BY <1>1 DEF HtlcsMerkleRoot, leaves, N
<1> QED BY <1>7, <1>8, <1>9, <1>10, <1>11, <1>12 DEF VerifyHtlcMerkleProof, x

-----------------------------------------------------------------------------
\* The HTLCs of a list, and the indices among them below x.
HtlcSet(hs) == {hs[i] : i \in 1 .. Len(hs)}
IndicesBelow(S, x) == {y \in {h.index : h \in S} : y < x}

\* Without ambiguity an HTLC's place depends on the set alone, not on the order
\* of the list.
LEMMA RankOfSet ==
    ASSUME NEW hs \in Seq(MerkleHtlcs), Unambiguous(hs), NEW j \in 1 .. Len(hs)
    PROVE  SortRank(hs, j) = Cardinality(IndicesBelow(HtlcSet(hs), hs[j].index)) + 1
<1> DEFINE A == SortedFirst(hs, j)
           B == IndicesBelow(HtlcSet(hs), hs[j].index)
           f == [i \in A |-> hs[i].index]
<1>1. Len(hs) \in Nat /\ DOMAIN hs = 1 .. Len(hs)
  OBVIOUS
<1>2. \A i \in 1 .. Len(hs) : hs[i].index \in Nat
  <2>1. \A i \in 1 .. Len(hs) : hs[i] \in MerkleHtlcs
    OBVIOUS
  <2> QED BY <2>1 DEF MerkleHtlcs
<1>3. A = {i \in 1 .. Len(hs) : hs[i].index < hs[j].index}
  <2>1. ASSUME NEW i \in 1 .. Len(hs)
        PROVE  SortsBefore(hs, i, j) <=> hs[i].index < hs[j].index
    <3>1. ~ (hs[i].index = hs[j].index /\ i < j)
      BY <1>1 DEF Unambiguous
    <3> QED BY <3>1 DEF SortsBefore
  <2> QED BY <1>1, <2>1 DEF SortedFirst
<1>4. B = {hs[i].index : i \in A}
  BY <1>3 DEF IndicesBelow, HtlcSet
<1>5. IsFiniteSet(A)
  <2>1. A \in SUBSET (1 .. Len(hs)) /\ IsFiniteSet(1 .. Len(hs))
    BY <1>1, <1>3, FS_Interval
  <2> QED BY <2>1, FS_Subset
<1>6. \A a, b \in A : hs[a].index = hs[b].index => a = b
  BY <1>3 DEF Unambiguous
<1> HIDE DEF A, B
<1>7. f \in Bijection(A, B)
  <2>1. f \in [A -> B]
    BY <1>4
  <2>2. \A a, b \in A : f[a] = f[b] => a = b
    BY <1>6
  <2>3. \A b \in B : \E a \in A : f[a] = b
    BY <1>4
  <2> HIDE DEF f
  <2> QED BY <2>1, <2>2, <2>3, Fun_IsBij
<1>8. ExistsBijection(A, B)
  BY <1>7 DEF ExistsBijection
<1>9. Cardinality(B) = Cardinality(A)
  BY <1>5, <1>8, FS_Bijection
<1> QED BY <1>9 DEF SortRank, A, B

\* A list without ambiguity is as long as its set is large.
LEMMA LengthOfSet ==
    ASSUME NEW hs \in Seq(MerkleHtlcs), Unambiguous(hs)
    PROVE  Len(hs) = Cardinality(HtlcSet(hs))
<1> DEFINE D == 1 .. Len(hs)
           B == HtlcSet(hs)
           f == [i \in D |-> hs[i]]
<1>1. Len(hs) \in Nat
  OBVIOUS
<1>2. IsFiniteSet(D) /\ Cardinality(D) = Len(hs)
  BY <1>1, FS_Interval
<1>3. B = {hs[i] : i \in D}
  BY DEF HtlcSet
<1>4. \A a, b \in D : hs[a] = hs[b] => a = b
  BY DEF Unambiguous
<1> HIDE DEF D, B
<1>5. f \in Bijection(D, B)
  <2>1. f \in [D -> B]
    BY <1>3
  <2>2. \A a, b \in D : f[a] = f[b] => a = b
    BY <1>4
  <2>3. \A b \in B : \E a \in D : f[a] = b
    BY <1>3
  <2> HIDE DEF f
  <2> QED BY <2>1, <2>2, <2>3, Fun_IsBij
<1>6. ExistsBijection(D, B)
  BY <1>5 DEF ExistsBijection
<1>7. Cardinality(B) = Cardinality(D)
  BY <1>2, <1>6, FS_Bijection
<1> QED BY <1>2, <1>7 DEF B

\* Two lists of the same HTLCs are sorted alike.
LEMMA SameSetSameRoot ==
    ASSUME NEW hs \in Seq(MerkleHtlcs), Unambiguous(hs),
           NEW gs \in Seq(MerkleHtlcs), Unambiguous(gs), HtlcSet(hs) = HtlcSet(gs)
    PROVE  HtlcsMerkleRoot(hs) = HtlcsMerkleRoot(gs)
<1> DEFINE N == Len(hs)
           s == SortedByIndex(hs)
           t == SortedByIndex(gs)
<1>1. N \in Nat /\ Len(gs) = N
  BY LengthOfSet
<1>2. /\ s \in Seq(MerkleHtlcs) /\ Len(s) = N
      /\ \A k \in 1 .. N : \E j \in 1 .. N : SortRank(hs, j) = k /\ s[k] = hs[j]
  BY SortedPermutes
<1>3. /\ t \in Seq(MerkleHtlcs) /\ Len(t) = N
      /\ \A j \in 1 .. N : t[SortRank(gs, j)] = gs[j]
  BY <1>1, SortedPermutes
<1> HIDE DEF N, s, t
<1>4. ASSUME NEW k \in 1 .. N PROVE s[k] = t[k]
  <2>1. PICK j \in 1 .. N : SortRank(hs, j) = k /\ s[k] = hs[j]
    BY <1>2
  <2>2. PICK i \in 1 .. N : gs[i] = hs[j]
    <3>1. hs[j] \in HtlcSet(hs)
      BY DEF HtlcSet, N
    <3> QED BY <1>1, <3>1 DEF HtlcSet
  <2>3. SortRank(hs, j) = Cardinality(IndicesBelow(HtlcSet(hs), hs[j].index)) + 1
    BY RankOfSet DEF N
  <2>4. SortRank(gs, i) = Cardinality(IndicesBelow(HtlcSet(gs), gs[i].index)) + 1
    BY <1>1, RankOfSet
  <2>5. SortRank(gs, i) = k
    BY <2>1, <2>2, <2>3, <2>4
  <2> QED BY <1>3, <2>1, <2>2, <2>5
<1>5. s = t
  BY <1>1, <1>2, <1>3, <1>4, SeqEqual
<1>6. sortedLeaves(hs) = sortedLeaves(gs)
  BY <1>5 DEF sortedLeaves, s, t
<1>7. hs = <<>> <=> gs = <<>>
  <2>1. hs = <<>> <=> Len(hs) = 0
    OBVIOUS
  <2>2. gs = <<>> <=> Len(gs) = 0
    OBVIOUS
  <2> QED BY <1>1, <2>1, <2>2 DEF N
<1> QED BY <1>1, <1>6, <1>7 DEF HtlcsMerkleRoot, N

-----------------------------------------------------------------------------
\* The nodes of a tree, level by level.
TreeNodes(leaves, d) == {Levels(leaves)[d][i] : i \in 1 .. Len(Levels(leaves)[d])}
Tree(leaves) == UNION {TreeNodes(leaves, d) : d \in 0 .. Len(leaves)}

\* Every level of a tree with a leaf is a sequence with a node.
LEMMA LevelsType ==
    ASSUME NEW T, NEW leaves \in Seq(T), Len(leaves) >= 1
    PROVE  \A d \in 0 .. Len(leaves) : /\ \E U : Levels(leaves)[d] \in Seq(U)
                                       /\ Len(Levels(leaves)[d]) >= 1
<1> DEFINE N == Len(leaves)
           lv == Levels(leaves)
           G == {d \in 0 .. N : (\E U : lv[d] \in Seq(U)) /\ Len(lv[d]) >= 1}
<1>1. N \in Nat
  OBVIOUS
<1>2. lv[0] = leaves /\ \A d \in 1 .. N : lv[d] = nextLevel(lv[d - 1])
  BY <1>1, LevelsSteps
<1>3. 0 \in G
  BY <1>1, <1>2
<1> HIDE DEF lv, N
<1>4. ASSUME NEW d \in 1 .. N, d - 1 \in G PROVE d \in G
  <2>1. PICK U : lv[d - 1] \in Seq(U)
    BY <1>4
  <2>2. Len(lv[d - 1]) \in Nat /\ Len(lv[d - 1]) >= 1
    BY <1>4, <2>1
  <2>3. lv[d] = nextLevel(lv[d - 1])
    BY <1>2
  <2>4. \E V : nextLevel(lv[d - 1]) \in Seq(V)
    BY <2>1, NextLevelType
  <2>5. Len(nextLevel(lv[d - 1])) = (Len(lv[d - 1]) + 1) \div 2
    BY <2>1, NextLevelType
  <2>6. Len(nextLevel(lv[d - 1])) >= 1
    <3>1. \A L \in Nat : L >= 1 => (L + 1) \div 2 >= 1
      OBVIOUS
    <3> QED BY <2>2, <2>5, <3>1
  <2> QED BY <2>3, <2>4, <2>6
<1>5. \A d \in 0 .. N : d \in G
  <2>1. G \in SUBSET (0 .. N)
    OBVIOUS
  <2> HIDE DEF G
  <2> QED BY <1>1, <1>3, <1>4, <2>1, UpTo
<1> QED BY <1>5 DEF N, lv

\* A node above the leaves is promoted from the level below, or it is the hash
\* of two nodes of that level.
LEMMA NodeOrigin ==
    ASSUME NEW T, NEW level \in Seq(T), NEW i \in 1 .. Len(nextLevel(level))
    PROVE  \/ \E a \in 1 .. Len(level) : nextLevel(level)[i] = level[a]
           \/ \E a, b \in 1 .. Len(level) :
                 nextLevel(level)[i] = commutativeHash(level[a], level[b])
<1> DEFINE L == Len(level)
           m == (L + 1) \div 2
<1>1. L \in Nat
  OBVIOUS
<1>2. nextLevel(level) = [k \in 1 .. m |->
                            IF 2 * k > L THEN level[2 * k - 1]
                            ELSE commutativeHash(level[2 * k - 1], level[2 * k])]
  BY DEF nextLevel
<1>3. i \in 1 .. m
  BY NextLevelType
<1>4. nextLevel(level)[i] = IF 2 * i > L THEN level[2 * i - 1]
                            ELSE commutativeHash(level[2 * i - 1], level[2 * i])
  <2> HIDE DEF m, L
  <2> QED BY <1>2, <1>3
<1> HIDE DEF L
<1>5. 2 * i - 1 \in 1 .. L
  BY <1>1, <1>3
<1>6. CASE 2 * i > L
  BY <1>4, <1>5, <1>6 DEF L
<1>7. CASE ~ (2 * i > L)
  <2>1. 2 * i \in 1 .. L
    BY <1>1, <1>3, <1>7
  <2> QED BY <1>4, <1>5, <1>7, <2>1 DEF L
<1> QED BY <1>6, <1>7

\* A leaf's hash is no inner node's: the first hashes an encoded HTLC, the
\* second two hashes.
LEMMA LeafIsNoNode ==
    ASSUME NEW h, NEW a, NEW b
    PROVE  Leaf(h) # commutativeHash(a, b)
<1>1. DOMAIN Leaf(h) = {"leaf"}
  BY DEF Leaf
<1>2. DOMAIN commutativeHash(a, b) = {"node"}
  BY DEF commutativeHash
<1>3. "leaf" # "node"
  OBVIOUS
<1> QED BY <1>1, <1>2, <1>3

\* What a hash commits to is determined by it.
LEMMA HashInjective ==
    ASSUME NEW a, NEW b, NEW c, NEW d, commutativeHash(a, b) = commutativeHash(c, d)
    PROVE  a \in {c, d} /\ b \in {c, d}
<1>1. commutativeHash(a, b).node = {a, b} /\ commutativeHash(c, d).node = {c, d}
  BY DEF commutativeHash
<1>2. {a, b} = {c, d}
  BY <1>1
<1> QED BY <1>2

\* In a tree over HTLC leaves, the two parts of an inner node are nodes too, and
\* a leaf's hash occurs only as one of the leaves.
LEMMA TreeClosed ==
    ASSUME NEW H, NEW leaves \in Seq({Leaf(h) : h \in H}), Len(leaves) >= 1
    PROVE  /\ \A a, b : commutativeHash(a, b) \in Tree(leaves) => a \in Tree(leaves)
           /\ \A h : Leaf(h) \in Tree(leaves) => \E k \in 1 .. Len(leaves) : leaves[k] = Leaf(h)
<1> DEFINE N == Len(leaves)
           lv == Levels(leaves)
           Below(d) == UNION {TreeNodes(leaves, e) : e \in 0 .. d}
           G == {d \in 0 .. N :
                   /\ \A a, b : commutativeHash(a, b) \in TreeNodes(leaves, d) => a \in Tree(leaves)
                   /\ \A h : Leaf(h) \in TreeNodes(leaves, d) =>
                               \E k \in 1 .. N : leaves[k] = Leaf(h)}
<1>1. N \in Nat
  OBVIOUS
<1>2. lv[0] = leaves /\ \A d \in 1 .. N : lv[d] = nextLevel(lv[d - 1])
  BY <1>1, LevelsSteps
<1>3. 0 \in G
  <2>1. TreeNodes(leaves, 0) = {leaves[i] : i \in 1 .. N}
    BY <1>2 DEF TreeNodes
  <2>2. ASSUME NEW a, NEW b, commutativeHash(a, b) \in TreeNodes(leaves, 0) PROVE FALSE
    <3>1. PICK i \in 1 .. N : commutativeHash(a, b) = leaves[i]
      BY <2>1, <2>2
    <3>2. leaves[i] \in {Leaf(h) : h \in H}
      OBVIOUS
    <3>3. PICK h : leaves[i] = Leaf(h)
      BY <3>2
    <3> QED BY <3>1, <3>3, LeafIsNoNode
  <2>3. ASSUME NEW h, Leaf(h) \in TreeNodes(leaves, 0)
        PROVE  \E k \in 1 .. N : leaves[k] = Leaf(h)
    BY <2>1, <2>3
  <2> QED BY <1>1, <2>2, <2>3
<1>4. \A d \in 0 .. N : \E U : lv[d] \in Seq(U)
  BY LevelsType
<1> HIDE DEF N, lv
<1>5. ASSUME NEW d \in 1 .. N, d - 1 \in G PROVE d \in G
  <2> DEFINE level == lv[d - 1]
  <2>1. d - 1 \in 0 .. N
    BY <1>1
  <2>2. PICK U : level \in Seq(U)
    BY <1>4, <2>1
  <2>3. lv[d] = nextLevel(level)
    BY <1>2
  <2>4. \A i \in 1 .. Len(level) : level[i] \in TreeNodes(leaves, d - 1)
    BY DEF TreeNodes, lv
  <2>5. TreeNodes(leaves, d - 1) \subseteq Tree(leaves)
    BY <2>1 DEF Tree, N
  <2>6. ASSUME NEW x \in TreeNodes(leaves, d)
        PROVE  \/ x \in TreeNodes(leaves, d - 1)
               \/ \E a, b \in 1 .. Len(level) : x = commutativeHash(level[a], level[b])
    <3>1. PICK i \in 1 .. Len(nextLevel(level)) : x = nextLevel(level)[i]
      BY <2>3 DEF TreeNodes, lv
    <3> HIDE DEF level
    <3>2. \/ \E a \in 1 .. Len(level) : nextLevel(level)[i] = level[a]
          \/ \E a, b \in 1 .. Len(level) :
                nextLevel(level)[i] = commutativeHash(level[a], level[b])
      BY <2>2, NodeOrigin
    <3> QED BY <2>4, <3>1, <3>2
  <2> HIDE DEF level
  <2>7. ASSUME NEW a, NEW b, commutativeHash(a, b) \in TreeNodes(leaves, d)
        PROVE  a \in Tree(leaves)
    <3>1. CASE commutativeHash(a, b) \in TreeNodes(leaves, d - 1)
      BY <1>5, <3>1
    <3>2. ASSUME NEW p \in 1 .. Len(level), NEW q \in 1 .. Len(level),
                 commutativeHash(a, b) = commutativeHash(level[p], level[q])
          PROVE  a \in Tree(leaves)
      <4>1. a \in {level[p], level[q]}
        BY <3>2, HashInjective
      <4> QED BY <2>4, <2>5, <4>1
    <3> QED BY <2>6, <2>7, <3>1, <3>2
  <2>8. ASSUME NEW h, Leaf(h) \in TreeNodes(leaves, d)
        PROVE  \E k \in 1 .. N : leaves[k] = Leaf(h)
    <3>1. \A p, q \in 1 .. Len(level) : Leaf(h) # commutativeHash(level[p], level[q])
      BY LeafIsNoNode
    <3>2. Leaf(h) \in TreeNodes(leaves, d - 1)
      BY <2>6, <2>8, <3>1
    <3> QED BY <1>5, <3>2
  <2> QED BY <2>7, <2>8
<1>6. \A d \in 0 .. N : d \in G
  <2>1. G \in SUBSET (0 .. N)
    OBVIOUS
  <2> HIDE DEF G
  <2> QED BY <1>1, <1>3, <1>5, <2>1, UpTo
<1>7. ASSUME NEW a, NEW b, commutativeHash(a, b) \in Tree(leaves) PROVE a \in Tree(leaves)
  <2>1. PICK d \in 0 .. N : commutativeHash(a, b) \in TreeNodes(leaves, d)
    BY <1>7 DEF Tree, N
  <2> QED BY <1>6, <2>1
<1>8. ASSUME NEW h, Leaf(h) \in Tree(leaves) PROVE \E k \in 1 .. N : leaves[k] = Leaf(h)
  <2>1. PICK d \in 0 .. N : Leaf(h) \in TreeNodes(leaves, d)
    BY <1>8 DEF Tree, N
  <2> QED BY <1>6, <2>1
<1> QED BY <1>7, <1>8 DEF N

\* If a fold ends in the tree, it began there.
LEMMA FoldStaysInTree ==
    ASSUME NEW S, \A a, b : commutativeHash(a, b) \in S => a \in S,
           NEW P, NEW proof \in Seq(P), NEW leaf, Folded(proof, leaf) \in S
    PROVE  leaf \in S
<1> DEFINE N == Len(proof)
<1>1. N \in Nat
  OBVIOUS
<1>2. PICK f : /\ Folded(proof, leaf) = f[N] /\ f[0] = leaf
               /\ \A k \in 1 .. N : f[k] = commutativeHash(f[k - 1], proof[k])
  BY <1>1, FoldedSteps
<1> HIDE DEF N
<1> DEFINE G == {k \in 0 .. N : f[N - k] \in S}
<1>3. 0 \in G
  <2>1. N - 0 = N
    BY <1>1
  <2> QED BY <1>1, <1>2, <2>1
<1>4. ASSUME NEW k \in 1 .. N, k - 1 \in G PROVE k \in G
  <2>1. N - (k - 1) \in 1 .. N /\ (N - (k - 1)) - 1 = N - k
    BY <1>1
  <2>2. f[N - (k - 1)] = commutativeHash(f[N - k], proof[N - (k - 1)])
    BY <1>2, <2>1
  <2>3. f[N - (k - 1)] \in S
    BY <1>4
  <2> QED BY <2>2, <2>3
<1>5. \A k \in 0 .. N : k \in G
  <2>1. G \in SUBSET (0 .. N)
    OBVIOUS
  <2> HIDE DEF G
  <2> QED BY <1>1, <1>3, <1>4, <2>1, UpTo
<1>6. f[N - N] \in S /\ N - N = 0
  BY <1>1, <1>5
<1> QED BY <1>2, <1>6

\* Whatever proof is presented, only an HTLC of the committed list verifies: a
\* claim names an HTLC the two peers signed.
THEOREM MerkleProofSound ==
    ASSUME NEW hs \in Seq(MerkleHtlcs), NEW P, NEW proof \in Seq(P), NEW h,
           VerifyHtlcMerkleProof(proof, HtlcsMerkleRoot(hs), Leaf(h))
    PROVE  h \in HtlcSet(hs)
<1> DEFINE leaves == sortedLeaves(hs)
           N == Len(hs)
<1>1. N \in Nat
  OBVIOUS
<1>2. Folded(proof, Leaf(h)) = HtlcsMerkleRoot(hs)
  BY DEF VerifyHtlcMerkleProof
<1>3. CASE hs = <<>>
  <2>1. HtlcsMerkleRoot(hs) = Zero
    BY <1>3 DEF HtlcsMerkleRoot
  <2>2. DOMAIN Zero = {"zero"} /\ "zero" # "leaf" /\ "zero" # "node"
    BY DEF Zero
  <2> DEFINE S == {Zero}
  <2>3. \A a, b : commutativeHash(a, b) # Zero
    <3>1. \A a, b : DOMAIN commutativeHash(a, b) = {"node"}
      BY DEF commutativeHash
    <3> QED BY <2>2, <3>1
  <2>4. Leaf(h) # Zero
    <3>1. DOMAIN Leaf(h) = {"leaf"}
      BY DEF Leaf
    <3> QED BY <2>2, <3>1
  <2>5. \A a, b : commutativeHash(a, b) \in S => a \in S
    BY <2>3
  <2>6. Folded(proof, Leaf(h)) \in S
    BY <1>2, <2>1
  <2> HIDE DEF S
  <2>7. Leaf(h) \in S
    BY <2>5, <2>6, FoldStaysInTree
  <2> QED BY <2>4, <2>7 DEF S
<1>4. CASE hs # <<>>
  <2>1. N >= 1
    BY <1>4
  <2>2. /\ leaves \in Seq({Leaf(g) : g \in MerkleHtlcs}) /\ Len(leaves) = N
        /\ \A k \in 1 .. N : leaves[k] = Leaf(SortedByIndex(hs)[k])
    BY LeavesType
  <2>3. HtlcsMerkleRoot(hs) = Levels(leaves)[N][1]
    BY <1>4 DEF HtlcsMerkleRoot
  <2>4. \A k \in 1 .. N : \E j \in 1 .. N : SortedByIndex(hs)[k] = hs[j]
    BY SortedPermutes
  <2> HIDE DEF leaves, N
  <2>5. /\ \A a, b : commutativeHash(a, b) \in Tree(leaves) => a \in Tree(leaves)
        /\ \A g : Leaf(g) \in Tree(leaves) => \E k \in 1 .. Len(leaves) : leaves[k] = Leaf(g)
    BY <2>1, <2>2, TreeClosed
  <2>6. Levels(leaves)[N][1] \in Tree(leaves)
    <3>1. /\ \E U : Levels(leaves)[N] \in Seq(U)
          /\ Len(Levels(leaves)[N]) >= 1
      <4>1. Len(leaves) >= 1 /\ N \in 0 .. Len(leaves)
        BY <1>1, <2>1, <2>2
      <4>2. \A d \in 0 .. Len(leaves) : /\ \E U : Levels(leaves)[d] \in Seq(U)
                                        /\ Len(Levels(leaves)[d]) >= 1
        BY <2>2, <4>1, LevelsType
      <4> QED BY <4>1, <4>2
    <3>2. 1 \in 1 .. Len(Levels(leaves)[N])
      BY <3>1
    <3>3. Levels(leaves)[N][1] \in TreeNodes(leaves, N)
      BY <3>2 DEF TreeNodes
    <3>4. N \in 0 .. Len(leaves)
      BY <1>1, <2>2
    <3> QED BY <3>3, <3>4 DEF Tree
  <2>7. Leaf(h) \in Tree(leaves)
    BY <1>2, <2>3, <2>5, <2>6, FoldStaysInTree
  <2>8. PICK k \in 1 .. N : Leaf(SortedByIndex(hs)[k]) = Leaf(h)
    BY <2>2, <2>5, <2>7
  <2>9. SortedByIndex(hs)[k] = h
    <3>1. \A x, y : Leaf(x) = Leaf(y) => x = y
      <4>1. \A x : Leaf(x).leaf = x
        BY DEF Leaf
      <4> QED BY <4>1
    <3> QED BY <2>8, <3>1
  <2>10. PICK j \in 1 .. N : h = hs[j]
    BY <2>4, <2>9
  <2> QED BY <2>10 DEF HtlcSet, N
<1> QED BY <1>3, <1>4

\* The elements of two lists joined.
LEMMA SetOfConcat ==
    ASSUME NEW a \in Seq(MerkleHtlcs), NEW b \in Seq(MerkleHtlcs)
    PROVE  HtlcSet(a \o b) = HtlcSet(a) \cup HtlcSet(b)
<1> DEFINE c == a \o b
           A == Len(a)
           B == Len(b)
<1>1. /\ A \in Nat /\ B \in Nat /\ Len(c) = A + B
      /\ \A i \in 1 .. A : c[i] = a[i]
      /\ \A i \in 1 .. A + B : i > A => c[i] = b[i - A]
  OBVIOUS
<1> HIDE DEF c, A, B
<1>2. ASSUME NEW x \in HtlcSet(c) PROVE x \in HtlcSet(a) \cup HtlcSet(b)
  <2>1. PICK i \in 1 .. A + B : x = c[i]
    BY <1>1 DEF HtlcSet
  <2>2. CASE i \in 1 .. A
    BY <1>1, <2>1, <2>2 DEF HtlcSet, A
  <2>3. CASE i > A
    <3>1. i - A \in 1 .. B
      BY <1>1, <2>3
    <3> QED BY <1>1, <2>1, <2>3, <3>1 DEF HtlcSet, B
  <2> QED BY <1>1, <2>2, <2>3
<1>3. ASSUME NEW x \in HtlcSet(a) PROVE x \in HtlcSet(c)
  <2>1. PICK i \in 1 .. A : x = a[i]
    BY DEF HtlcSet, A
  <2>2. i \in 1 .. A + B
    BY <1>1
  <2> QED BY <1>1, <2>1, <2>2 DEF HtlcSet
<1>4. ASSUME NEW x \in HtlcSet(b) PROVE x \in HtlcSet(c)
  <2>1. PICK i \in 1 .. B : x = b[i]
    BY DEF HtlcSet, B
  <2>2. i + A \in 1 .. A + B /\ i + A > A /\ (i + A) - A = i
    BY <1>1
  <2>3. c[i + A] = x
    BY <1>1, <2>1, <2>2
  <2> QED BY <1>1, <2>2, <2>3 DEF HtlcSet
<1> QED BY <1>2, <1>3, <1>4 DEF c

-----------------------------------------------------------------------------
\* Between lists without ambiguous indices, the root names the set: the ground
\* on which the contract's model takes a Merkle root for the set of HTLCs it
\* commits to.
THEOREM RootNamesSet ==
    ASSUME NEW hs \in Seq(MerkleHtlcs), Unambiguous(hs),
           NEW gs \in Seq(MerkleHtlcs), Unambiguous(gs)
    PROVE  HtlcsMerkleRoot(hs) = HtlcsMerkleRoot(gs) <=> HtlcSet(hs) = HtlcSet(gs)
<1>1. ASSUME NEW as \in Seq(MerkleHtlcs), Unambiguous(as), NEW bs \in Seq(MerkleHtlcs),
             HtlcsMerkleRoot(as) = HtlcsMerkleRoot(bs), NEW x \in HtlcSet(as)
      PROVE  x \in HtlcSet(bs)
  <2>1. PICK i \in 1 .. Len(as) : x = as[i]
    BY DEF HtlcSet
  <2> DEFINE proof == HtlcMerkleProof(as, as[i].index)
  <2>2. VerifyHtlcMerkleProof(proof, HtlcsMerkleRoot(bs), Leaf(x))
    BY <1>1, <2>1, ProofVerifies
  <2>3. \E P : proof \in Seq(P)
    BY <1>1, ProofVerifies
  <2> HIDE DEF proof
  <2> QED BY <2>2, <2>3, MerkleProofSound
<1>2. ASSUME HtlcsMerkleRoot(hs) = HtlcsMerkleRoot(gs) PROVE HtlcSet(hs) = HtlcSet(gs)
  <2>1. \A x \in HtlcSet(hs) : x \in HtlcSet(gs)
    BY <1>1, <1>2
  <2>2. \A x \in HtlcSet(gs) : x \in HtlcSet(hs)
    BY <1>1, <1>2
  <2> QED BY <2>1, <2>2
<1> QED BY <1>2, SameSetSameRoot

-----------------------------------------------------------------------------
\* The types of the offerers' lists.
MerkleTypeOK == /\ offered \in [Parties -> Seq(MerkleHtlcs)]
                /\ next \in [Parties -> Nat]

\* The two ends.
LEMMA OtherParty ==
    ASSUME NEW n \in Parties
    PROVE  Other(n) \in Parties /\ Other(n) # n /\ Parties = {n, Other(n)}
<1>1. PICK a, b \in Parties : a # b /\ Parties = {a, b}
  BY PartiesAssumption
<1>2. \E m \in Parties : m # n
  BY <1>1
<1>3. Other(n) \in Parties /\ Other(n) # n
  BY <1>2 DEF Other
<1> QED BY <1>1, <1>3

\* Each offerer's indices grow along its list and stay below the next one; an
\* end that may have none in flight has none.
IndicesGrow(s, bound) ==
    /\ \A i, j \in 1 .. Len(s) : i < j => s[i].index < s[j].index
    /\ \A i \in 1 .. Len(s) : s[i].index < bound
MerkleIInv == /\ MerkleTypeOK
              /\ \A n \in Parties : IndicesGrow(offered[n], next[n])
              /\ \A n \in Parties : MaxActive[n] = 0 => Len(offered[n]) = 0

\* An appended index above all others keeps the order.
LEMMA GrowAppend ==
    ASSUME NEW s \in Seq(MerkleHtlcs), NEW b \in Nat, IndicesGrow(s, b),
           NEW h \in MerkleHtlcs, h.index = b
    PROVE  Append(s, h) \in Seq(MerkleHtlcs) /\ IndicesGrow(Append(s, h), b + 1)
<1> DEFINE t == Append(s, h)
           N == Len(s)
<1>1. /\ t \in Seq(MerkleHtlcs) /\ Len(t) = N + 1 /\ N \in Nat
      /\ \A i \in 1 .. N : t[i] = s[i]
      /\ t[N + 1] = h
  OBVIOUS
<1>2. \A i \in 1 .. N : s[i].index \in Nat
  <2>1. \A i \in 1 .. N : s[i] \in MerkleHtlcs
    OBVIOUS
  <2> QED BY <2>1 DEF MerkleHtlcs
<1>3. /\ \A i, j \in 1 .. N : i < j => s[i].index < s[j].index
      /\ \A i \in 1 .. N : s[i].index < b
  BY DEF IndicesGrow
<1> HIDE DEF t, N
<1>4. ASSUME NEW i \in 1 .. N + 1 PROVE t[i].index < b + 1
  <2>1. CASE i \in 1 .. N
    <3>1. t[i].index = s[i].index /\ s[i].index \in Nat /\ s[i].index < b
      BY <1>1, <1>2, <1>3, <2>1
    <3> QED BY <3>1
  <2>2. CASE i = N + 1
    BY <1>1, <2>2
  <2> QED BY <1>1, <2>1, <2>2
<1>5. ASSUME NEW i \in 1 .. N + 1, NEW j \in 1 .. N + 1, i < j
      PROVE  t[i].index < t[j].index
  <2>1. i \in 1 .. N
    BY <1>1, <1>5
  <2>2. CASE j \in 1 .. N
    BY <1>1, <1>3, <1>5, <2>1, <2>2
  <2>3. CASE j = N + 1
    BY <1>1, <1>3, <2>1, <2>3
  <2> QED BY <1>1, <2>2, <2>3
<1> QED BY <1>1, <1>4, <1>5 DEF IndicesGrow, t

\* So does a removal.
LEMMA GrowRemove ==
    ASSUME NEW s \in Seq(MerkleHtlcs), NEW b \in Nat, IndicesGrow(s, b),
           NEW k \in 1 .. Len(s)
    PROVE  /\ RemoveAt(s, k) \in Seq(MerkleHtlcs) /\ IndicesGrow(RemoveAt(s, k), b)
           /\ Len(RemoveAt(s, k)) < Len(s)
<1> DEFINE N == Len(s)
           p == SubSeq(s, 1, k - 1)
           q == SubSeq(s, k + 1, N)
           t == p \o q
           At(i) == IF i < k THEN i ELSE i + 1
<1>1. N \in Nat /\ k \in 1 .. N
  OBVIOUS
<1>2. /\ p \in Seq(MerkleHtlcs) /\ Len(p) = k - 1
      /\ \A i \in 1 .. k - 1 : p[i] = s[i]
  OBVIOUS
<1>3. /\ q \in Seq(MerkleHtlcs) /\ Len(q) = N - k
      /\ \A i \in 1 .. N - k : q[i] = s[i + k]
  OBVIOUS
<1>4. RemoveAt(s, k) = t
  BY DEF RemoveAt
<1>5. /\ \A i, j \in 1 .. N : i < j => s[i].index < s[j].index
      /\ \A i \in 1 .. N : s[i].index < b
  BY DEF IndicesGrow
<1> HIDE DEF N, p, q
<1>6. t \in Seq(MerkleHtlcs) /\ Len(t) = N - 1
  <2>1. t \in Seq(MerkleHtlcs) /\ Len(t) = Len(p) + Len(q)
    BY <1>2, <1>3, ConcatProperties
  <2> QED BY <1>1, <1>2, <1>3, <2>1
<1>7. ASSUME NEW i \in 1 .. N - 1 PROVE t[i] = s[At(i)]
  <2>1. CASE i < k
    <3>1. i \in 1 .. Len(p) /\ i \in 1 .. k - 1
      BY <1>1, <1>2, <2>1
    <3>2. t[i] = p[i]
      BY <1>2, <1>3, <3>1
    <3> QED BY <1>2, <2>1, <3>1, <3>2
  <2>2. CASE ~ (i < k)
    <3>1. i - (k - 1) \in 1 .. N - k /\ (i - (k - 1)) + k = i + 1
          /\ i \in Len(p) + 1 .. Len(p) + Len(q) /\ i - Len(p) = i - (k - 1)
      BY <1>1, <1>2, <1>3, <2>2
    <3>2. t[i] = q[i - Len(p)]
      BY <1>2, <1>3, <3>1
    <3> QED BY <1>3, <2>2, <3>1, <3>2
  <2> QED BY <2>1, <2>2
<1>8. \A i \in 1 .. N - 1 : At(i) \in 1 .. N
  BY <1>1
<1>9. \A i, j \in 1 .. N - 1 : i < j => At(i) < At(j)
  BY <1>1
<1> HIDE DEF At, t
<1>10. \A i \in 1 .. N - 1 : t[i].index < b
  BY <1>5, <1>7, <1>8
<1>11. \A i, j \in 1 .. N - 1 : i < j => t[i].index < t[j].index
  BY <1>5, <1>7, <1>8, <1>9
<1>12. N - 1 < N
  BY <1>1
<1> QED BY <1>4, <1>6, <1>10, <1>11, <1>12 DEF IndicesGrow, N

\* The invariant holds initially and every step preserves it.
LEMMA MerkleInvariant == MerkleSpec => []MerkleIInv
<1>1. MerkleInit => MerkleIInv
  <2> SUFFICES ASSUME MerkleInit PROVE MerkleIInv
    OBVIOUS
  <2>1. \A n \in Parties : offered[n] = <<>> /\ next[n] = 0
    BY DEF MerkleInit
  <2>2. <<>> \in Seq(MerkleHtlcs) /\ Len(<<>>) = 0
    OBVIOUS
  <2>3. MerkleTypeOK
    BY <2>2 DEF MerkleInit, MerkleTypeOK
  <2>4. IndicesGrow(<<>>, 0)
    BY <2>2 DEF IndicesGrow
  <2> QED BY <2>1, <2>2, <2>3, <2>4 DEF MerkleIInv
<1>2. MerkleIInv /\ [MerkleNext]_merkleVars => MerkleIInv'
  <2> SUFFICES ASSUME MerkleIInv, [MerkleNext]_merkleVars PROVE MerkleIInv'
    OBVIOUS
  <2>1. /\ offered \in [Parties -> Seq(MerkleHtlcs)] /\ next \in [Parties -> Nat]
        /\ \A n \in Parties : IndicesGrow(offered[n], next[n])
        /\ \A n \in Parties : MaxActive[n] = 0 => Len(offered[n]) = 0
    BY DEF MerkleIInv, MerkleTypeOK
  <2>2. ASSUME NEW n \in Parties, NEW s \in Seq(MerkleHtlcs), NEW b \in Nat,
               IndicesGrow(s, b), MaxActive[n] = 0 => Len(s) = 0,
               offered' = [offered EXCEPT ![n] = s], next' = [next EXCEPT ![n] = b]
        PROVE  MerkleIInv'
    <3>1. MerkleTypeOK'
      BY <2>1, <2>2 DEF MerkleTypeOK
    <3>2. ASSUME NEW m \in Parties
          PROVE  IndicesGrow(offered'[m], next'[m]) /\ (MaxActive[m] = 0 => Len(offered'[m]) = 0)
      <4>1. CASE m = n
        <5>1. offered'[m] = s /\ next'[m] = b
          BY <2>1, <2>2, <4>1
        <5> QED BY <2>2, <4>1, <5>1
      <4>2. CASE m # n
        <5>1. offered'[m] = offered[m] /\ next'[m] = next[m]
          BY <2>1, <2>2, <4>2
        <5> QED BY <2>1, <5>1
      <4> QED BY <4>1, <4>2
    <3> QED BY <3>1, <3>2 DEF MerkleIInv, IndicesGrow
  <2>3. ASSUME NEW n \in Parties, Offer(n) PROVE MerkleIInv'
    <3> DEFINE h == [index |-> next[n], recipient |-> Other(n)]
    <3>1. h \in MerkleHtlcs /\ h.index = next[n]
      BY <2>1, OtherParty DEF MerkleHtlcs
    <3>2. offered' = [offered EXCEPT ![n] = Append(offered[n], h)]
          /\ next' = [next EXCEPT ![n] = next[n] + 1]
      BY <2>3 DEF Offer
    <3>3. offered[n] \in Seq(MerkleHtlcs) /\ next[n] \in Nat /\ IndicesGrow(offered[n], next[n])
      BY <2>1
    <3> HIDE DEF h
    <3>4. Append(offered[n], h) \in Seq(MerkleHtlcs)
          /\ IndicesGrow(Append(offered[n], h), next[n] + 1)
      BY <3>1, <3>3, GrowAppend
    <3>5. MaxActive[n] # 0
      <4>1. Len(offered[n]) < MaxActive[n] /\ Len(offered[n]) \in Nat /\ MaxActive[n] \in Nat
        BY <2>3, <3>3, BoundsAssumption DEF Offer
      <4> QED BY <4>1
    <3>6. next[n] + 1 \in Nat /\ (MaxActive[n] = 0 => Len(Append(offered[n], h)) = 0)
      BY <3>3, <3>5
    <3> QED BY <2>2, <3>2, <3>4, <3>6
  <2>4. ASSUME NEW n \in Parties, NEW i \in 1 .. Len(offered[n]), RemoveHTLC(n, i)
        PROVE  MerkleIInv'
    <3>1. offered[n] \in Seq(MerkleHtlcs) /\ next[n] \in Nat /\ IndicesGrow(offered[n], next[n])
      BY <2>1
    <3>2. offered' = [offered EXCEPT ![n] = RemoveAt(offered[n], i)]
          /\ next' = [next EXCEPT ![n] = next[n]]
      BY <2>1, <2>4 DEF RemoveHTLC
    <3>3. RemoveAt(offered[n], i) \in Seq(MerkleHtlcs)
          /\ IndicesGrow(RemoveAt(offered[n], i), next[n])
      BY <3>1, GrowRemove
    <3>4. MaxActive[n] = 0 => FALSE
      BY <2>1, <3>1
    <3> QED BY <2>2, <3>1, <3>2, <3>3, <3>4
  <2>5. CASE UNCHANGED merkleVars
    BY <2>1, <2>5 DEF merkleVars, MerkleIInv, MerkleTypeOK
  <2> QED BY <2>3, <2>4, <2>5 DEF MerkleNext
<1> QED BY <1>1, <1>2, PTL DEF MerkleSpec

\* No node's list of the active HTLCs is ambiguous.
NoAmbiguity == \A n \in Parties : Unambiguous(buildEvmHTLCs(n))

\* What ambiguity is needed to break: without it every proof verifies, and the
\* two ends, that list the HTLCs in opposite orders, sign the same root.
LEMMA WithoutAmbiguity ==
    ASSUME MerkleTypeOK, NoAmbiguity
    PROVE  ProofsVerify /\ RootsAgree
<1>1. ASSUME NEW n \in Parties PROVE buildEvmHTLCs(n) \in Seq(MerkleHtlcs)
  <2>1. offered[n] \in Seq(MerkleHtlcs) /\ offered[Other(n)] \in Seq(MerkleHtlcs)
    BY OtherParty DEF MerkleTypeOK
  <2> QED BY <2>1 DEF buildEvmHTLCs
<1>2. ProofsVerify
  <2> SUFFICES ASSUME NEW n \in Parties, NEW i \in DOMAIN buildEvmHTLCs(n)
               PROVE  VerifyHtlcMerkleProof(
                         HtlcMerkleProof(buildEvmHTLCs(n), buildEvmHTLCs(n)[i].index),
                         HtlcsMerkleRoot(buildEvmHTLCs(n)), Leaf(buildEvmHTLCs(n)[i]))
    BY DEF ProofsVerify
  <2> DEFINE hs == buildEvmHTLCs(n)
  <2>1. hs \in Seq(MerkleHtlcs) /\ Unambiguous(hs)
    BY <1>1 DEF NoAmbiguity
  <2> HIDE DEF hs
  <2>2. i \in 1 .. Len(hs)
    BY <2>1 DEF hs
  <2>3. VerifyHtlcMerkleProof(HtlcMerkleProof(hs, hs[i].index), HtlcsMerkleRoot(hs), Leaf(hs[i]))
    BY <2>1, <2>2, ProofVerifies
  <2> QED BY <2>3 DEF hs
<1>3. RootsAgree
  <2> SUFFICES ASSUME NEW n \in Parties
               PROVE  HtlcsMerkleRoot(buildEvmHTLCs(n)) = HtlcsMerkleRoot(buildEvmHTLCs(Other(n)))
    BY DEF RootsAgree
  <2> DEFINE m == Other(n)
             hs == buildEvmHTLCs(n)
             gs == buildEvmHTLCs(m)
             a == offered[n]
             b == offered[m]
  <2>1. m \in Parties /\ Other(m) = n
    BY OtherParty
  <2>2. hs = a \o b /\ gs = b \o a
    BY <2>1 DEF buildEvmHTLCs
  <2>3. a \in Seq(MerkleHtlcs) /\ b \in Seq(MerkleHtlcs)
    BY <2>1 DEF MerkleTypeOK
  <2>4. hs \in Seq(MerkleHtlcs) /\ gs \in Seq(MerkleHtlcs) /\ Unambiguous(hs) /\ Unambiguous(gs)
    BY <1>1, <2>1 DEF NoAmbiguity
  <2> HIDE DEF m, hs, gs, a, b
  <2>5. HtlcSet(hs) = HtlcSet(a) \cup HtlcSet(b) /\ HtlcSet(gs) = HtlcSet(b) \cup HtlcSet(a)
    BY <2>2, <2>3, SetOfConcat
  <2>6. HtlcsMerkleRoot(hs) = HtlcsMerkleRoot(gs)
    BY <2>4, <2>5, SameSetSameRoot
  <2> QED BY <2>6 DEF hs, gs, m
<1> QED BY <1>2, <1>3

\* In every state without ambiguous indices, each HTLC can be proved to the
\* contract and the two ends' roots agree: duplicate indices are the only way
\* the disagreement that the run over both directions finds can arise.
THEOREM MerkleUnambiguous == MerkleSpec => [](NoAmbiguity => ProofsVerify /\ RootsAgree)
<1>1. MerkleIInv => (NoAmbiguity => ProofsVerify /\ RootsAgree)
  BY WithoutAmbiguity DEF MerkleIInv
<1> QED BY <1>1, MerkleInvariant, PTL

\* All HTLCs in flight are one end's.
SingleOfferer == \E n \in Parties : MaxActive[Other(n)] = 0

\* With one offering end, its own numbering keeps indices apart, and whatever
\* removals leave, every HTLC of the set can be proved to the contract.
THEOREM MerkleProofsVerify ==
    ASSUME SingleOfferer
    PROVE  MerkleSpec => []ProofsVerify
<1>1. MerkleIInv => ProofsVerify
  <2> SUFFICES ASSUME MerkleIInv PROVE ProofsVerify
    OBVIOUS
  <2>1. PICK p \in Parties : MaxActive[Other(p)] = 0
    BY DEF SingleOfferer
  <2>2. Other(p) \in Parties /\ Parties = {p, Other(p)} /\ Other(Other(p)) = p
    BY OtherParty
  <2>3. /\ offered[p] \in Seq(MerkleHtlcs) /\ offered[Other(p)] \in Seq(MerkleHtlcs)
        /\ IndicesGrow(offered[p], next[p]) /\ Len(offered[Other(p)]) = 0
    BY <2>1, <2>2 DEF MerkleIInv, MerkleTypeOK
  <2>4. offered[Other(p)] = <<>>
    BY <2>3
  <2>5. buildEvmHTLCs(p) = offered[p] /\ buildEvmHTLCs(Other(p)) = offered[p]
    BY <2>2, <2>3, <2>4 DEF buildEvmHTLCs
  <2>6. Unambiguous(offered[p])
    <3> DEFINE s == offered[p]
    <3>1. \A i, j \in 1 .. Len(s) : i < j => s[i].index < s[j].index
      BY <2>3 DEF IndicesGrow
    <3>2. \A i \in 1 .. Len(s) : s[i].index \in Nat
      <4>1. \A i \in 1 .. Len(s) : s[i] \in MerkleHtlcs
        BY <2>3
      <4> QED BY <4>1 DEF MerkleHtlcs
    <3>3. Len(s) \in Nat
      BY <2>3
    <3> HIDE DEF s
    <3>4. ASSUME NEW i \in 1 .. Len(s), NEW j \in 1 .. Len(s), s[i].index = s[j].index
          PROVE  i = j
      <4>1. ~ (i < j) /\ ~ (j < i)
        BY <3>1, <3>2, <3>4
      <4> QED BY <3>3, <4>1
    <3> QED BY <3>4 DEF Unambiguous, s
  <2>7. NoAmbiguity
    BY <2>2, <2>5, <2>6 DEF NoAmbiguity
  <2> QED BY <2>7, WithoutAmbiguity DEF MerkleIInv
<1> QED BY <1>1, MerkleInvariant, PTL
=============================================================================
