--------------------------- MODULE EvmCloseProofs ---------------------------
(***************************************************************************)
(* What a node publishes about an EVM channel, and what its watcher and    *)
(* settler conclude, is right for every number of updates and blocks.      *)
(***************************************************************************)
EXTENDS EvmClose, CommitProtocolProofs, FunctionTheorems

\* Block timestamps keep up with the time that SetEvmTimelockParams expects.
Timely == \A d \in BlockIntervals : d >= BlockTime /\ d >= 1

Hashes == {Sha256[p] : p \in Payloads \cup Outcomes}
LeafType == [index : Nat, amount : {1}, hashlock : Hashes,
             timelock : {evmHtlcTimelock(Cltv)}, recipient : Nodes]
StateType == [type : {"StateUpdate"}, channelId : {Chan}, nonce : Nat,
              balanceA : Int, balanceB : Int, htlcs : SUBSET LeafType]
TxType ==
    [call : {"forceClose"}, state : StateType]
    \cup [call : {"penalize"}, state : StateType]
    \cup [call : {"claim"}, htlc : LeafType, tree : SUBSET LeafType, hash : Hashes]
    \cup [call : {"timeout"}, htlc : LeafType, tree : SUBSET LeafType]
    \cup [call : {"distribute"}]
ChannelType ==
    [totalDeposited : Nat, status : CM!Status, nonce : Nat, challengeExpiry : Nat,
     broadcaster : Nodes \cup {contract}, htlcs : SUBSET LeafType,
     payoutA : Int, payoutB : Int, htlcPool : Int]
SettlerType == [tree : SUBSET LeafType, attempts : Nat, todo : SUBSET LeafType]

\* Types of the contract's storage, the chain and the nodes' watchers.
ContractTyped ==
    /\ channels \in [CM!ChannelIds -> ChannelType]
    /\ htlcResolved \in [CM!ChannelIds -> SUBSET Nat]
CloseTypeOK ==
    /\ ContractTyped
    /\ now \in Nat /\ height \in Nat
    /\ mempool \in [Nodes -> Seq(TxType)]
    /\ stopped \in [Nodes -> BOOLEAN]
    /\ dispatched \in [Nodes -> {"local", "remote", "breach", none}]
    /\ settler \in [Nodes -> SettlerType \cup {none}]
    /\ \A n \in Nodes : settler[n] # none => settler[n].todo \subseteq settler[n].tree

\* Before the close nothing is resolved and nobody has reacted; a close has a
\* broadcaster.
CloseSeen ==
    /\ channels[Chan].totalDeposited = Capacity
    /\ channels[Chan].status = "OPEN" =>
          /\ htlcResolved[Chan] = {}
          /\ \A n \in Nodes : dispatched[n] = none /\ settler[n] = none
    /\ channels[Chan].status # "OPEN" => channels[Chan].broadcaster \in Nodes

\* A node that decided on a breach holds a newer state, and holds on to it.
BreachSeen ==
    \A n \in Nodes : dispatched[n] = "breach" =>
        /\ stopped[n] /\ channels[Chan].broadcaster = Peer(n)
        /\ channels[Chan].nonce < local[n].height

CInv == IInv /\ CloseTypeOK /\ CloseSeen /\ BreachSeen

\* A published state accounts for the deposit, and for finitely many HTLCs.
Whole(tx) == tx.call = "forceClose" => Reconciles(tx.state) /\ IsFiniteSet(tx.state.htlcs)
PublishedWhole == \A n \in Nodes : \A i \in 1 .. Len(mempool[n]) : Whole(mempool[n][i])

Unresolved == {h \in channels[Chan].htlcs : h.index \notin htlcResolved[Chan]}
Closing == channels[Chan].status = "CLOSING_UNILATERAL"

\* The pool is worth the HTLCs that are not resolved.
PoolCounts ==
    /\ IsFiniteSet(channels[Chan].htlcs)
    /\ Closing /\ ~ Ambiguous => channels[Chan].htlcPool = Cardinality(Unresolved)

\* Refunds are sent when the contract accepts them.
Refund(h, tree) == [call |-> "timeout", htlc |-> h, tree |-> tree]
RefundsDue ==
    /\ now >= Genesis + height * BlockTime /\ now >= height
    /\ \A n \in Nodes : \A i \in 1 .. Len(mempool[n]) :
          mempool[n][i].call = "timeout" => now >= evmHtlcTimelock(Cltv)

\* An HTLC that a settler offered waits for its height, is on its way to the
\* contract, or is resolved.
InQueue(q, tx) == \E i \in 1 .. Len(q) : q[i] = tx
Handled(n) ==
    Closing /\ ~ Ambiguous /\ settler[n] # none /\ settler[n].tree = channels[Chan].htlcs =>
        \A h \in channels[Chan].htlcs : h.recipient # n =>
            \/ h \in settler[n].todo \/ h.index \in htlcResolved[Chan]
            \/ InQueue(mempool[n], Refund(h, settler[n].tree))
AllHandled == \A n \in Nodes : Handled(n)
-----------------------------------------------------------------------------
\* The links of a closing channel only take steps of the commitment protocol.
LEMMA LinkSteps == [EvmNext]_evmVars => [Next]_vars
<1> SUFFICES ASSUME [EvmNext]_evmVars PROVE [Next]_vars
  OBVIOUS
<1>1. UNCHANGED linkVars => UNCHANGED vars
  BY DEF linkVars, vars
<1>2. ASSUME NEW n \in Nodes, Link(n) PROVE Next
  <2>1. Request(n) \/ Handle(n) \/ updateCommitTx(n) \/ BatchTick(n)
    BY <1>2 DEF Link, Request
  <2> QED BY <2>1 DEF Next
<1>3. ASSUME NEW n \in Nodes, ForceClose(n) \/ handleEvmSpend(n) \/ Settle(n) \/ Mine(n)
      PROVE  UNCHANGED linkVars
  BY <1>3 DEF ForceClose, handleEvmSpend, Settle, resolveHtlc, distribute, Mine
<1>4. Block => UNCHANGED linkVars
  BY DEF Block
<1>5. UNCHANGED evmVars => UNCHANGED linkVars
  BY DEF evmVars
<1> QED BY <1>1, <1>2, <1>3, <1>4, <1>5 DEF EvmNext

\* So the two ends stay in step.
LEMMA EvmInStep == EvmSpec => []IInv
<1>1. EvmInit => IInv
  BY InitInv DEF EvmInit
<1>2. IInv /\ [EvmNext]_evmVars => IInv'
  BY LinkSteps, NextInv
<1> QED BY <1>1, <1>2, PTL DEF EvmSpec

\* The channel and its participants.
LEMMA ChanFacts ==
    /\ Chan \in CM!ChannelIds /\ Chan[1] = Initiator /\ Chan[2] = Responder
    /\ Initiator \in Nodes /\ Responder \in Nodes /\ Initiator # Responder
    /\ CM!Participants(Chan) = Nodes
<1>1. /\ Initiator \in Nodes /\ Responder \in Nodes /\ Initiator # Responder
      /\ Nodes = {Initiator, Responder}
  BY NodesAssumption, PeerFacts DEF Responder
<1>2. /\ Chan[1] = Initiator /\ Chan[2] = Responder
      /\ Chan \in Nodes \X Nodes \X {salt}
  BY <1>1 DEF Chan
<1> QED BY <1>1, <1>2 DEF CM!ChannelIds, CM!Participants

\* Counting entries of a log.
LEMMA CountType ==
    ASSUME NEW s, Len(s) \in Nat
    PROVE  /\ htlcCounter(s) \in Nat /\ Settled(s) \in Nat /\ FailedBack(s) \in Nat
<1>1. IsFiniteSet(1 .. Len(s))
  BY FS_Interval
<1>2. \A T \in SUBSET (1 .. Len(s)) : Cardinality(T) \in Nat
  BY <1>1, FS_Subset, FS_CardinalityType
<1> QED BY <1>2 DEF htlcCounter, Settled, FailedBack

\* The timelock is a time, and not after the one expected at the height.
LEMMA TimelockFacts ==
    /\ evmHtlcTimelock(Cltv) \in Nat
    /\ BlockTime = 0 => evmHtlcTimelock(Cltv) = Cltv
    /\ BlockTime # 0 => evmHtlcTimelock(Cltv) <= Genesis + Cltv * BlockTime
<1>1. PICK x : x = Genesis + Cltv * BlockTime
  OBVIOUS
<1>2. x \in Nat
  BY <1>1, CloseAssumption
<1>3. x % TimelockModulus \in Nat /\ x % TimelockModulus <= x
  <2>1. PICK M : M = TimelockModulus
    OBVIOUS
  <2>2. M \in Nat /\ M > 0
    BY <2>1, CloseAssumption
  <2>3. x % M \in Nat /\ x % M <= x
    BY <1>2, <2>2
  <2> QED BY <2>1, <2>3
<1> QED BY <1>1, <1>2, <1>3, CloseAssumption DEF evmHtlcTimelock

\* The leaves of one direction.
LEMMA LeavesTyped ==
    ASSUME NEW s \in Seq(UpdateType), NEW t, NEW r \in Nodes
    PROVE  EvmHTLCs(s, t, r) \in SUBSET LeafType /\ IsFiniteSet(EvmHTLCs(s, t, r))
<1> DEFINE A == Active(s, t)
           leaf(i) == [index |-> s[i].id, amount |-> 1, hashlock |-> Sha256[s[i].payload],
                       timelock |-> evmHtlcTimelock(Cltv), recipient |-> r]
           f == [i \in A |-> leaf(i)]
           T == EvmHTLCs(s, t, r)
<1>1. Len(s) \in Nat /\ \A i \in 1 .. Len(s) : s[i] \in UpdateType
  BY ElementOfSeq, LenProperties
<1>2. A \in SUBSET (1 .. Len(s)) /\ IsFiniteSet(A)
  <2>1. IsFiniteSet(1 .. Len(s))
    BY <1>1, FS_Interval
  <2> QED BY <2>1, FS_Subset DEF Active
<1>3. T = {leaf(i) : i \in A}
  BY DEF EvmHTLCs
<1>4. \A i \in A : leaf(i) \in LeafType
  <2> SUFFICES ASSUME NEW i \in A PROVE leaf(i) \in LeafType
    OBVIOUS
  <2>1. s[i].id \in Nat /\ s[i].payload \in Payloads \cup Outcomes
    BY <1>1, <1>2 DEF UpdateType
  <2>2. Sha256[s[i].payload] \in Hashes
    BY <2>1 DEF Hashes
  <2> QED BY <2>1, <2>2 DEF LeafType
<1>5. IsFiniteSet(T)
  <2> HIDE DEF A, T
  <2>1. f \in [A -> T] /\ \A x \in T : \E i \in A : f[i] = x
    BY <1>3
  <2>2. f \in Surjection(A, T)
    BY <2>1, Fun_IsSurj
  <2> QED BY <1>2, <2>2, FS_Surjection
<1> QED BY <1>3, <1>4, <1>5

\* The artifact of a commitment that the logs cover.
LEMMA StateTyped ==
    ASSUME NEW n \in Nodes, NEW c, c.height \in Nat,
           Take(log[n], c.own) \in Seq(UpdateType), Take(rlog[n], c.their) \in Seq(UpdateType)
    PROVE  /\ StateUpdateOf(n, c) \in StateType /\ IsFiniteSet(StateUpdateOf(n, c).htlcs)
           /\ StateUpdateOf(n, c).nonce = c.height
           /\ View(n, c).htlcs \in SUBSET LeafType /\ IsFiniteSet(View(n, c).htlcs)
<1>1. PICK o, t : o = Take(log[n], c.own) /\ t = Take(rlog[n], c.their)
  OBVIOUS
<1>2. /\ o \in Seq(UpdateType) /\ t \in Seq(UpdateType) /\ Len(o) \in Nat /\ Len(t) \in Nat
  BY <1>1, LenProperties
<1>3. PICK hs : hs = EvmHTLCs(o, t, Peer(n)) \cup EvmHTLCs(t, o, n)
  OBVIOUS
<1>4. hs \in SUBSET LeafType /\ IsFiniteSet(hs)
  <2>1. Peer(n) \in Nodes
    BY PeerFacts
  <2>2. /\ EvmHTLCs(o, t, Peer(n)) \in SUBSET LeafType /\ IsFiniteSet(EvmHTLCs(o, t, Peer(n)))
    BY <1>2, <2>1, LeavesTyped
  <2>3. /\ EvmHTLCs(t, o, n) \in SUBSET LeafType /\ IsFiniteSet(EvmHTLCs(t, o, n))
    BY <1>2, LeavesTyped
  <2> QED BY <1>3, <2>2, <2>3, FS_Union
<1>5. View(n, c) = [height |-> c.height, ours |-> o, theirs |-> t, htlcs |-> hs]
  BY <1>1, <1>3 DEF View, ViewOf
<1>6. Cardinality(hs) \in Nat
  BY <1>4, FS_CardinalityType
<1>7. \A s1, s2 \in {o, t} : Balance(PushAmount, s1, s2) \in Int
  <2> SUFFICES ASSUME NEW s1 \in {o, t}, NEW s2 \in {o, t} PROVE Balance(PushAmount, s1, s2) \in Int
    OBVIOUS
  <2>1. /\ htlcCounter(s1) \in Nat /\ Settled(s1) \in Nat /\ FailedBack(s2) \in Nat
    BY <1>2, CountType
  <2> QED BY <2>1, CloseAssumption DEF Balance
<1>8. PICK b, split : /\ b = IF n = Initiator THEN Balance(PushAmount, t, o) ELSE Balance(PushAmount, o, t)
                      /\ split = evmBalanceSplit(b, hs)
  OBVIOUS
<1>9. b \in Int
  BY <1>7, <1>8
<1>10. split[1] \in Int /\ split[2] \in Int
  BY <1>6, <1>8, <1>9, CloseAssumption DEF evmBalanceSplit
<1>11. StateUpdateOf(n, c) = [type |-> "StateUpdate", channelId |-> Chan, nonce |-> c.height,
                              balanceA |-> split[1], balanceB |-> split[2], htlcs |-> hs]
  BY <1>5, <1>8 DEF StateUpdateOf, buildEvmStateUpdate
<1> QED BY <1>4, <1>5, <1>10, <1>11 DEF StateType

\* The commitments a watcher looks at are covered by the logs.
LEMMA CoveredCommits ==
    ASSUME IInv, NEW n \in Nodes, NEW c \in {local[n], tail[n]}
    PROVE  /\ c.height \in Nat /\ Take(log[n], c.own) \in Seq(UpdateType)
           /\ Take(rlog[n], c.their) \in Seq(UpdateType)
<1>1. /\ c \in CommitType /\ c.height \in Nat /\ c.own \in Nat /\ c.their \in Nat
      /\ log[n] \in Seq(UpdateType) /\ rlog[n] \in Seq(UpdateType)
  BY EndFacts, CommitFacts
<1>2. c.own <= Len(log[n]) /\ c.their <= Len(rlog[n])
  <2>1. /\ local[n].own \in Nat /\ tail[n].own \in Nat /\ Tip(n).own \in Nat /\ Len(log[n]) \in Nat
        /\ local[n].their \in Nat /\ tail[n].their \in Nat /\ Tip(n).their \in Nat
        /\ Len(rlog[n]) \in Nat
    BY EndFacts, CommitFacts
  <2>2. /\ local[n].own <= tail[n].own /\ tail[n].own <= Tip(n).own /\ Tip(n).own <= Len(log[n])
        /\ tail[n].their <= Tip(n).their /\ Tip(n).their <= local[n].their
        /\ local[n].their <= Len(rlog[n])
    BY EndFacts
  <2>3. CASE c = local[n]
    BY <2>1, <2>2, <2>3
  <2>4. CASE c = tail[n]
    BY <2>1, <2>2, <2>4
  <2> QED BY <2>3, <2>4
<1>3. c.own \in 0 .. Len(log[n]) /\ c.their \in 0 .. Len(rlog[n])
  BY <1>1, <1>2
<1> QED BY <1>1, <1>3, TakeFacts
-----------------------------------------------------------------------------
\* The calls a mined transaction can make of the contract.
SameClose ==
    /\ channels'[Chan].totalDeposited = channels[Chan].totalDeposited
    /\ channels'[Chan].nonce = channels[Chan].nonce
    /\ channels'[Chan].challengeExpiry = channels[Chan].challengeExpiry
    /\ channels'[Chan].broadcaster = channels[Chan].broadcaster
    /\ channels'[Chan].htlcs = channels[Chan].htlcs
Opened(n, tx) ==
    /\ tx.call = "forceClose" /\ channels[Chan].status = "OPEN"
    /\ channels'[Chan].status = "CLOSING_UNILATERAL"
    /\ channels'[Chan].totalDeposited = channels[Chan].totalDeposited
    /\ channels'[Chan].broadcaster = n
    /\ channels'[Chan].htlcs = tx.state.htlcs
    /\ channels'[Chan].htlcPool =
          channels[Chan].totalDeposited - tx.state.balanceA - tx.state.balanceB
    /\ htlcResolved' = htlcResolved
Credited(tx) ==
    /\ tx.call \in {"claim", "timeout"}
    /\ Closing /\ channels'[Chan].status = "CLOSING_UNILATERAL" /\ SameClose
    /\ tx.htlc \in channels[Chan].htlcs /\ tx.htlc.index \notin htlcResolved[Chan]
    /\ channels'[Chan].htlcPool = channels[Chan].htlcPool - tx.htlc.amount
    /\ htlcResolved'[Chan] = htlcResolved[Chan] \cup {tx.htlc.index}
Finalized ==
    /\ Closing /\ channels'[Chan].status = "CLOSED" /\ SameClose
    /\ htlcResolved' = htlcResolved
Reverted == channels' = channels /\ htlcResolved' = htlcResolved

\* A transaction has the fields of its call.
LEMMA TxFields ==
    ASSUME NEW tx \in TxType
    PROVE  /\ tx.call \in {"forceClose", "penalize", "claim", "timeout", "distribute"}
           /\ tx.call \in {"forceClose", "penalize"} => tx.state \in StateType
           /\ tx.call \in {"claim", "timeout"} => tx.htlc \in LeafType /\ tx.tree \in SUBSET LeafType
BY DEF TxType

\* An accepted force close.
LEMMA ForceCloseCall ==
    ASSUME ContractTyped, now \in Nat, NEW n \in Nodes, NEW tx \in TxType,
           tx.call = "forceClose", CM!forceClose(n, Chan, tx.state)
    PROVE  Opened(n, tx) /\ ContractTyped'
<1>1. Chan \in CM!ChannelIds
  BY ChanFacts
<1>2. tx.state \in StateType
  BY TxFields
<1>3. /\ tx.state.nonce \in Nat /\ tx.state.balanceA \in Int /\ tx.state.balanceB \in Int
      /\ tx.state.htlcs \in SUBSET LeafType
  BY <1>2 DEF StateType
<1>4. CM!challengeWindowFor(channels[Chan].totalDeposited) = ChallengePeriod
  BY DEF CM!challengeWindowFor
<1>5. PICK r : r = [totalDeposited |-> channels[Chan].totalDeposited,
           status |-> "CLOSING_UNILATERAL",
           nonce |-> tx.state.nonce,
           broadcaster |-> n,
           htlcs |-> tx.state.htlcs,
           payoutA |-> tx.state.balanceA,
           payoutB |-> tx.state.balanceB,
           htlcPool |-> channels[Chan].totalDeposited - tx.state.balanceA - tx.state.balanceB,
           challengeExpiry |-> now + ChallengePeriod]
  OBVIOUS
<1>6. /\ channels[Chan].status = "OPEN" /\ htlcResolved' = htlcResolved
      /\ channels' = [channels EXCEPT ![Chan] = r]
  BY <1>4, <1>5 DEF CM!forceClose
<1>7. channels[Chan].totalDeposited \in Nat
  BY <1>1 DEF ContractTyped, ChannelType
<1>8. r \in ChannelType
  BY <1>3, <1>5, <1>7, CloseAssumption DEF ChannelType, CM!Status
<1>9. channels' \in [CM!ChannelIds -> ChannelType] /\ channels'[Chan] = r
  BY <1>1, <1>6, <1>8 DEF ContractTyped
<1> QED BY <1>5, <1>6, <1>9 DEF Opened, ContractTyped

\* Updates of a channel's record.
CreditOf(ch, a, b, k) == [ch EXCEPT !.payoutA = a, !.payoutB = b, !.htlcPool = k]
PenaltyOf(ch, st, k) == [ch EXCEPT !.status = st, !.htlcPool = k, !.payoutA = k, !.payoutB = k]
PayoutOf(ch, st, k) == [ch EXCEPT !.status = st, !.htlcPool = k]
OpenOf(ch, st, k) == [ch EXCEPT !.status = st, !.totalDeposited = k]

\* A credited HTLC changes payouts and pool only.
LEMMA CreditRecord ==
    ASSUME NEW ch \in ChannelType, NEW a \in Int, NEW b \in Int, NEW k \in Int,
           NEW r, r = CreditOf(ch, a, b, k)
    PROVE  /\ r \in ChannelType /\ r.status = ch.status /\ r.htlcPool = k
           /\ r.totalDeposited = ch.totalDeposited /\ r.nonce = ch.nonce
           /\ r.challengeExpiry = ch.challengeExpiry
           /\ r.broadcaster = ch.broadcaster /\ r.htlcs = ch.htlcs
<1>1. PICK S : S = CM!Status
  OBVIOUS
<1> QED BY <1>1 DEF ChannelType, CreditOf

\* A penalty leaves what was published in place.
LEMMA PenaltyRecord ==
    ASSUME NEW ch \in ChannelType, NEW st \in CM!Status, NEW k \in Int, NEW r,
           r = PenaltyOf(ch, st, k)
    PROVE  /\ r \in ChannelType /\ r.status = st
           /\ r.totalDeposited = ch.totalDeposited /\ r.nonce = ch.nonce
           /\ r.challengeExpiry = ch.challengeExpiry
           /\ r.broadcaster = ch.broadcaster /\ r.htlcs = ch.htlcs
<1>1. PICK S : S = CM!Status
  OBVIOUS
<1> QED BY <1>1 DEF ChannelType, PenaltyOf

\* So does the payout.
LEMMA PayoutRecord ==
    ASSUME NEW ch \in ChannelType, NEW st \in CM!Status, NEW k \in Int, NEW r,
           r = PayoutOf(ch, st, k)
    PROVE  /\ r \in ChannelType /\ r.status = st
           /\ r.totalDeposited = ch.totalDeposited /\ r.nonce = ch.nonce
           /\ r.challengeExpiry = ch.challengeExpiry
           /\ r.broadcaster = ch.broadcaster /\ r.htlcs = ch.htlcs
<1>1. PICK S : S = CM!Status
  OBVIOUS
<1> QED BY <1>1 DEF ChannelType, PayoutOf

\* The open, funded channel.
LEMMA OpenRecord ==
    ASSUME NEW ch \in ChannelType, NEW st \in CM!Status, NEW k \in Nat, NEW r, r = OpenOf(ch, st, k)
    PROVE  r \in ChannelType /\ r.status = st /\ r.totalDeposited = k /\ r.htlcs = ch.htlcs
<1>1. PICK S : S = CM!Status
  OBVIOUS
<1> QED BY <1>1 DEF ChannelType, OpenOf

\* An HTLC resolved on chain.
LEMMA CreditCall ==
    ASSUME ContractTyped, NEW tx \in TxType, NEW u, tx.call \in {"claim", "timeout"},
           CM!Resolvable(Chan, tx.htlc), CM!Credit(Chan, tx.htlc, u)
    PROVE  Credited(tx) /\ ContractTyped'
<1>1. Chan \in CM!ChannelIds
  BY ChanFacts
<1>2. tx.htlc \in LeafType
  BY TxFields
<1>3. tx.htlc.index \in Nat /\ tx.htlc.amount \in Int
  BY <1>2 DEF LeafType
<1>4. channels[Chan] \in ChannelType
  BY <1>1 DEF ContractTyped
<1>5. PICK ch, a, b, k, r :
          /\ ch = channels[Chan]
          /\ a = IF u = CM!participantA(Chan) THEN ch.payoutA + tx.htlc.amount ELSE ch.payoutA
          /\ b = IF u = CM!participantB(Chan) THEN ch.payoutB + tx.htlc.amount ELSE ch.payoutB
          /\ k = ch.htlcPool - tx.htlc.amount
          /\ r = [ch EXCEPT !.payoutA = a, !.payoutB = b, !.htlcPool = k]
  OBVIOUS
<1>6. /\ r \in ChannelType /\ r.status = channels[Chan].status
      /\ r.totalDeposited = channels[Chan].totalDeposited /\ r.nonce = channels[Chan].nonce
      /\ r.challengeExpiry = channels[Chan].challengeExpiry
      /\ r.broadcaster = channels[Chan].broadcaster /\ r.htlcs = channels[Chan].htlcs
      /\ r.htlcPool = channels[Chan].htlcPool - tx.htlc.amount
  <2>1. /\ ch \in ChannelType /\ ch.payoutA \in Int /\ ch.payoutB \in Int /\ ch.htlcPool \in Int
    BY <1>4, <1>5 DEF ChannelType
  <2>2. a \in Int /\ b \in Int /\ k \in Int
    BY <1>3, <1>5, <2>1
  <2>3. r = CreditOf(ch, a, b, k)
    BY <1>5 DEF CreditOf
  <2>4. /\ r \in ChannelType /\ r.status = ch.status /\ r.htlcPool = k
        /\ r.totalDeposited = ch.totalDeposited /\ r.nonce = ch.nonce
        /\ r.challengeExpiry = ch.challengeExpiry
        /\ r.broadcaster = ch.broadcaster /\ r.htlcs = ch.htlcs
    BY <2>1, <2>2, <2>3, CreditRecord
  <2> QED BY <1>5, <2>4
<1>7. channels' = [channels EXCEPT ![Chan] = r]
  BY <1>1, <1>5 DEF CM!Credit, ContractTyped
<1>8. channels' \in [CM!ChannelIds -> ChannelType] /\ channels'[Chan] = r
  BY <1>1, <1>6, <1>7 DEF ContractTyped
<1>9. /\ htlcResolved' \in [CM!ChannelIds -> SUBSET Nat]
      /\ htlcResolved'[Chan] = htlcResolved[Chan] \cup {tx.htlc.index}
  BY <1>1, <1>3 DEF CM!Credit, ContractTyped
<1>10. /\ channels[Chan].status = "CLOSING_UNILATERAL"
       /\ tx.htlc \in channels[Chan].htlcs /\ tx.htlc.index \notin htlcResolved[Chan]
  BY DEF CM!Resolvable
<1> QED BY <1>6, <1>8, <1>9, <1>10 DEF Credited, SameClose, Closing, ContractTyped

\* A penalty or a distribution pays out.
LEMMA FinalCall ==
    ASSUME ContractTyped, NEW d, CM!penalize(Chan, d) \/ CM!distributeFunds(Chan)
    PROVE  Finalized /\ ContractTyped'
<1>1. Chan \in CM!ChannelIds
  BY ChanFacts
<1>2. channels[Chan] \in ChannelType
  BY <1>1 DEF ContractTyped
<1>3. Closing /\ htlcResolved' = htlcResolved
  BY DEF CM!penalize, CM!distributeFunds, CM!Punishable, CM!Distributable, Closing
<1>4. PICK r : /\ channels' = [channels EXCEPT ![Chan] = r]
               /\ \/ r = [channels[Chan] EXCEPT !.status = "CLOSED", !.htlcPool = 0,
                                                !.payoutA = 0, !.payoutB = 0]
                  \/ r = [channels[Chan] EXCEPT !.status = "CLOSED", !.htlcPool = 0]
  BY <1>1 DEF CM!penalize, CM!distributeFunds, ContractTyped
<1>5. /\ r \in ChannelType /\ r.status = "CLOSED"
      /\ r.totalDeposited = channels[Chan].totalDeposited /\ r.nonce = channels[Chan].nonce
      /\ r.challengeExpiry = channels[Chan].challengeExpiry
      /\ r.broadcaster = channels[Chan].broadcaster /\ r.htlcs = channels[Chan].htlcs
  <2>1. PICK ch : ch = channels[Chan] /\ ch \in ChannelType
    BY <1>2
  <2>2. "CLOSED" \in CM!Status
    BY DEF CM!Status
  <2>3. PICK st, k : st = "CLOSED" /\ k = 0
    OBVIOUS
  <2>4. st \in CM!Status /\ k \in Int
    BY <2>2, <2>3
  <2>5. CASE r = PenaltyOf(ch, st, k)
    <3>1. /\ r \in ChannelType /\ r.status = st
          /\ r.totalDeposited = ch.totalDeposited /\ r.nonce = ch.nonce
          /\ r.challengeExpiry = ch.challengeExpiry
          /\ r.broadcaster = ch.broadcaster /\ r.htlcs = ch.htlcs
      BY <2>1, <2>4, <2>5, PenaltyRecord
    <3> QED BY <2>1, <2>3, <3>1
  <2>6. CASE r = PayoutOf(ch, st, k)
    <3>1. /\ r \in ChannelType /\ r.status = st
          /\ r.totalDeposited = ch.totalDeposited /\ r.nonce = ch.nonce
          /\ r.challengeExpiry = ch.challengeExpiry
          /\ r.broadcaster = ch.broadcaster /\ r.htlcs = ch.htlcs
      BY <2>1, <2>4, <2>6, PayoutRecord
    <3> QED BY <2>1, <2>3, <3>1
  <2> QED BY <1>4, <2>1, <2>3, <2>5, <2>6 DEF PenaltyOf, PayoutOf
<1>6. channels' \in [CM!ChannelIds -> ChannelType] /\ channels'[Chan] = r
  BY <1>1, <1>4, <1>5 DEF ContractTyped
<1> QED BY <1>3, <1>5, <1>6 DEF Finalized, SameClose, ContractTyped

\* What a mined transaction does.
LEMMA MineEffect ==
    ASSUME ContractTyped, now \in Nat, NEW n \in Nodes, NEW tx \in TxType,
           Mine(n), tx = Head(mempool[n])
    PROVE  /\ ContractTyped'
           /\ Opened(n, tx) \/ Credited(tx) \/ Finalized \/ Reverted
<1>1. CASE ~ Accepted(n, tx)
  BY <1>1 DEF Mine, chainVars, Reverted, ContractTyped
<1>2. CASE Accepted(n, tx)
  <2>1. Execute(n, tx)
    BY <1>2 DEF Mine
  <2>2. CASE tx.call = "forceClose" /\ CM!forceClose(n, Chan, tx.state)
    BY <2>2, ForceCloseCall
  <2>3. CASE tx.call = "penalize" /\ CM!penalize(Chan, tx.state)
    BY <2>3, FinalCall
  <2>4. ASSUME tx.call = "claim", NEW p, CM!claimHtlc(Chan, tx.htlc, p)
        PROVE  ContractTyped' /\ Credited(tx)
    <3>1. CM!Resolvable(Chan, tx.htlc) /\ CM!Credit(Chan, tx.htlc, tx.htlc.recipient)
      BY <2>4 DEF CM!claimHtlc
    <3> QED BY <2>4, <3>1, CreditCall
  <2>5. CASE tx.call = "timeout" /\ CM!timeoutHtlc(Chan, tx.htlc)
    <3>1. PICK u : CM!Resolvable(Chan, tx.htlc) /\ CM!Credit(Chan, tx.htlc, u)
      BY <2>5 DEF CM!timeoutHtlc
    <3> QED BY <2>5, <3>1, CreditCall
  <2>6. CASE tx.call = "distribute" /\ CM!distributeFunds(Chan)
    BY <2>6, FinalCall
  <2> QED BY <2>1, <2>2, <2>3, <2>4, <2>5, <2>6 DEF Execute
<1> QED BY <1>1, <1>2
-----------------------------------------------------------------------------
\* A node's transactions after one more.
LEMMA Published ==
    ASSUME mempool \in [Nodes -> Seq(TxType)], NEW n \in Nodes, NEW tx \in TxType, Publish(n, tx)
    PROVE  /\ mempool' \in [Nodes -> Seq(TxType)] /\ mempool'[n] = Append(mempool[n], tx)
           /\ \A m \in Nodes \ {n} : mempool'[m] = mempool[m]
<1>1. PICK q : q = Append(mempool[n], tx)
  OBVIOUS
<1>2. q \in Seq(TxType)
  BY <1>1, AppendFacts
<1>3. mempool' = [mempool EXCEPT ![n] = q]
  BY <1>1 DEF Publish
<1> QED BY <1>1, <1>2, <1>3

\* A link changes the commitments of its own end only.
LEMMA LinkKeeps ==
    ASSUME IInv, NEW n \in Nodes, Link(n)
    PROVE  \A m \in Nodes \ {n} : local'[m] = local[m]
<1>1. local \in [Nodes -> CommitType]
  BY DEF IInv, TypeOK
<1>2. ASSUME NEW u, NEW b, sendUpdate(n, u, b) PROVE local' = local
  BY <1>2 DEF sendUpdate, disk
<1>3. ASSUME NEW e, Fail(n, e) PROVE local' = local
  BY <1>3 DEF Fail, disk
<1>4. ASSUME NEW p, AddHTLC(n, p) PROVE local' = local
  BY <1>2, <1>4 DEF AddHTLC
<1>5. ASSUME NEW id, NEW o, RemoveHTLC(n, id, o) PROVE local' = local
  BY <1>2, <1>5 DEF RemoveHTLC
<1>6. updateCommitTx(n) \/ BatchTick(n) => local' = local
  BY DEF updateCommitTx, BatchTick, signNextCommitment, disk
<1>7. ReceiveUpdate(n) => local' = local
  BY <1>3 DEF ReceiveUpdate, disk
<1>8. ReceiveCommitSig(n) => local' = local \/ \E c : local' = [local EXCEPT ![n] = c]
  BY <1>3 DEF ReceiveCommitSig
<1>9. ReceiveRevocation(n) => local' = local
  BY <1>3 DEF ReceiveRevocation
<1>10. ProcessChanSyncMsg(n) => local' = local
  BY <1>3 DEF ProcessChanSyncMsg
<1>11. local' = local \/ \E c : local' = [local EXCEPT ![n] = c]
  BY <1>4, <1>5, <1>6, <1>7, <1>8, <1>9, <1>10 DEF Link, Handle
<1> QED BY <1>1, <1>11

\* The target of a resolution is in the settler's tree.
LEMMA TargetFacts ==
    ASSUME NEW n \in Nodes, NEW h \in settler[n].tree
    PROVE  Target(n, h) \in settler[n].tree /\ Target(n, h).index = h.index
<1>1. \E g \in settler[n].tree : g.index = h.index /\
        (g.recipient # n \/ ~ \E k \in settler[n].tree :
                                k.index = h.index /\ k.recipient # n)
  <2>1. CASE \E k \in settler[n].tree : k.index = h.index /\ k.recipient # n
    BY <2>1
  <2>2. CASE ~ \E k \in settler[n].tree : k.index = h.index /\ k.recipient # n
    BY <2>2
  <2> QED BY <2>1, <2>2
<1> QED BY <1>1 DEF Target

\* The links' steps leave the chain and the watchers alone.
LEMMA LinkClose ==
    ASSUME CInv, NEW n \in Nodes, Link(n)
    PROVE  CloseTypeOK' /\ CloseSeen' /\ BreachSeen'
<1>1. /\ UNCHANGED <<channels, htlcResolved, now, height, mempool, stopped, dispatched, settler>>
      /\ ~ stopped[n]
  BY DEF Link, chainVars, closeVars
<1>2. CloseTypeOK' /\ CloseSeen'
  BY <1>1 DEF CInv, CloseTypeOK, ContractTyped, CloseSeen
<1>3. ASSUME NEW m \in Nodes, dispatched[m] = "breach"
      PROVE  local'[m] = local[m]
  BY <1>1, <1>3, LinkKeeps DEF CInv, BreachSeen
<1>4. BreachSeen'
  BY <1>1, <1>3 DEF CInv, BreachSeen
<1> QED BY <1>2, <1>4

\* A node publishes its latest commitment.
LEMMA ForceCloseTx ==
    ASSUME CInv, NEW n \in Nodes
    PROVE  /\ [call |-> "forceClose", state |-> StateUpdateOf(n, local[n])] \in TxType
           /\ [call |-> "penalize", state |-> StateUpdateOf(n, local[n])] \in TxType
           /\ IsFiniteSet(StateUpdateOf(n, local[n]).htlcs)
<1>1. /\ StateUpdateOf(n, local[n]) \in StateType /\ IsFiniteSet(StateUpdateOf(n, local[n]).htlcs)
  BY CoveredCommits, StateTyped DEF CInv
<1> QED BY <1>1 DEF TxType

\* A force close keeps what the watchers rely on.
LEMMA ForceCloseStep ==
    ASSUME CInv, NEW n \in Nodes, ForceClose(n)
    PROVE  CloseTypeOK' /\ CloseSeen' /\ BreachSeen'
<1>1. PICK tx \in TxType : Publish(n, tx)
  BY ForceCloseTx DEF ForceClose
<1>2. /\ UNCHANGED <<channels, htlcResolved, now, height, dispatched, settler, local>>
      /\ stopped' = [stopped EXCEPT ![n] = TRUE]
  BY DEF ForceClose, chainVars, linkVars
<1>3. CloseTypeOK'
  BY <1>1, <1>2, Published DEF CInv, CloseTypeOK, ContractTyped
<1>4. CloseSeen'
  BY <1>2 DEF CInv, CloseSeen
<1>5. BreachSeen'
  BY <1>2 DEF CInv, BreachSeen, CloseTypeOK
<1> QED BY <1>3, <1>4, <1>5

\* A new settler.
LEMMA SettlerTyped ==
    ASSUME IInv, NEW n \in Nodes, NEW c \in {local[n], tail[n]}
    PROVE  /\ Settler(n, c) \in SettlerType /\ Settler(n, c).todo \subseteq Settler(n, c).tree
           /\ \A h \in Settler(n, c).tree :
                 h \in Settler(n, c).todo \/
                    (h.recipient # n /\ \E g \in Settler(n, c).tree :
                                           g.index = h.index /\ g.recipient = n)
<1>1. View(n, c).htlcs \in SUBSET LeafType
  BY CoveredCommits, StateTyped
<1> QED BY <1>1 DEF Settler, SettlerType

\* The watcher reacts to the close.
LEMMA SpendStep ==
    ASSUME CInv, NEW n \in Nodes, handleEvmSpend(n)
    PROVE  CloseTypeOK' /\ CloseSeen' /\ BreachSeen'
<1>1. /\ UNCHANGED <<channels, htlcResolved, now, height, local>>
      /\ stopped' = [stopped EXCEPT ![n] = TRUE] /\ channels[Chan].status # "OPEN"
  BY DEF handleEvmSpend, chainVars, linkVars
<1>2a. PICK how :
          /\ how = CASE channels[Chan].broadcaster = n -> "local"
                     [] channels[Chan].broadcaster # n /\ Breach(n) -> "breach"
                     [] OTHER -> "remote"
          /\ dispatched' = [dispatched EXCEPT ![n] = how]
          /\ settler' = [settler EXCEPT ![n] =
                CASE how = "local" -> Settler(n, local[n])
                  [] how = "remote" -> Settler(n, tail[n])
                  [] OTHER -> none]
          /\ IF how = "breach"
             THEN Publish(n, [call |-> "penalize", state |-> StateUpdateOf(n, local[n])])
             ELSE UNCHANGED mempool
  BY DEF handleEvmSpend
<1>2b. PICK st : st = CASE how = "local" -> Settler(n, local[n])
                        [] how = "remote" -> Settler(n, tail[n])
                        [] OTHER -> none
  OBVIOUS
<1>2. /\ how \in {"local", "remote", "breach"}
      /\ dispatched' = [dispatched EXCEPT ![n] = how] /\ settler' = [settler EXCEPT ![n] = st]
      /\ st \in {Settler(n, local[n]), Settler(n, tail[n]), none}
      /\ how = "breach" => /\ channels[Chan].broadcaster # n /\ Breach(n)
                           /\ Publish(n, [call |-> "penalize", state |-> StateUpdateOf(n, local[n])])
      /\ how # "breach" => UNCHANGED mempool
  <2>1. /\ how \in {"local", "remote", "breach"}
        /\ how = "breach" => channels[Chan].broadcaster # n /\ Breach(n)
    BY <1>2a
  <2>2. st \in {Settler(n, local[n]), Settler(n, tail[n]), none}
    BY <1>2b
  <2>3. dispatched' = [dispatched EXCEPT ![n] = how] /\ settler' = [settler EXCEPT ![n] = st]
    BY <1>2a, <1>2b
  <2>4. /\ how = "breach" => Publish(n, [call |-> "penalize", state |-> StateUpdateOf(n, local[n])])
        /\ how # "breach" => UNCHANGED mempool
    BY <1>2a
  <2> QED BY <2>1, <2>2, <2>3, <2>4
<1>3. mempool' \in [Nodes -> Seq(TxType)]
  BY <1>2, ForceCloseTx, Published DEF CInv, CloseTypeOK
<1>4. /\ st \in SettlerType \cup {none}
      /\ st # none => st.todo \subseteq st.tree
  BY <1>2, SettlerTyped DEF CInv
<1>5. CloseTypeOK'
  BY <1>1, <1>2, <1>3, <1>4 DEF CInv, CloseTypeOK, ContractTyped
<1>6. CloseSeen'
  BY <1>1 DEF CInv, CloseSeen
<1>7. ASSUME how = "breach"
      PROVE  channels[Chan].broadcaster = Peer(n) /\ channels[Chan].nonce < local[n].height
  BY <1>1, <1>2, <1>7, PeerFacts DEF CInv, CloseSeen, Breach
<1>8. ASSUME NEW m \in Nodes, dispatched'[m] = "breach"
      PROVE  /\ stopped'[m] /\ channels'[Chan].broadcaster = Peer(m)
             /\ channels'[Chan].nonce < local'[m].height
  <2>1. CASE m = n
    BY <1>1, <1>2, <1>7, <1>8, <2>1 DEF CInv, CloseTypeOK
  <2>2. CASE m # n
    BY <1>1, <1>2, <1>8, <2>2 DEF CInv, CloseTypeOK, BreachSeen
  <2> QED BY <2>1, <2>2
<1> QED BY <1>5, <1>6, <1>8 DEF BreachSeen

\* Updates of a settler's record.
TodoOf(st, td) == [st EXCEPT !.todo = td]
AttemptsOf(st, k) == [st EXCEPT !.attempts = k]

\* Crossing off an HTLC.
LEMMA TodoRecord ==
    ASSUME NEW st \in SettlerType, NEW td \in SUBSET LeafType, NEW r, r = TodoOf(st, td)
    PROVE  r \in SettlerType /\ r.tree = st.tree /\ r.todo = td
<1>1. PICK L : L = LeafType
  OBVIOUS
<1> QED BY <1>1 DEF SettlerType, TodoOf

\* Counting a distribution attempt.
LEMMA AttemptsRecord ==
    ASSUME NEW st \in SettlerType, NEW k \in Nat, NEW r, r = AttemptsOf(st, k)
    PROVE  r \in SettlerType /\ r.tree = st.tree /\ r.todo = st.todo
<1>1. PICK L : L = LeafType
  OBVIOUS
<1> QED BY <1>1 DEF SettlerType, AttemptsOf

\* What a settler's tick does: it publishes a call and crosses off one HTLC,
\* or none.
Ticked(n, tx, r) ==
    /\ Publish(n, tx) /\ tx \in TxType /\ tx.call \in {"claim", "timeout", "distribute"}
    /\ settler[n] # none /\ settler[n] \in SettlerType
    /\ settler[n].todo \subseteq settler[n].tree
    /\ r \in SettlerType /\ r.tree = settler[n].tree /\ settler' = [settler EXCEPT ![n] = r]
    /\ tx.call = "timeout" => height >= Cltv
    /\ \/ r.todo = settler[n].todo
       \/ \E h \in settler[n].todo :
             /\ r.todo = settler[n].todo \ {h}
             /\ h.recipient # n => tx = Refund(Target(n, h), settler[n].tree)
    /\ UNCHANGED <<channels, htlcResolved, now, height, stopped, dispatched, local>>

\* A resolution is such a tick.
LEMMA ResolveTick ==
    ASSUME CloseTypeOK, NEW n \in Nodes, NEW h, resolveHtlc(n, h)
    PROVE  \E tx, r : Ticked(n, tx, r)
<1>1. PICK st : st = settler[n]
  OBVIOUS
<1>2. /\ st # none /\ st \in SettlerType /\ h \in st.todo /\ st.todo \subseteq st.tree
      /\ UNCHANGED <<channels, htlcResolved, now, height, stopped, dispatched, local>>
  BY <1>1 DEF resolveHtlc, CloseTypeOK, chainVars, linkVars
<1>3. /\ h \in LeafType /\ Target(n, h) \in LeafType /\ h \in st.tree
      /\ st.tree \in SUBSET LeafType /\ h.hashlock \in Hashes
  BY <1>1, <1>2, TargetFacts DEF SettlerType, LeafType
<1>4. PICK r : r = TodoOf(st, st.todo \ {h})
  OBVIOUS
<1>5. r \in SettlerType /\ r.tree = st.tree /\ r.todo = st.todo \ {h}
  BY <1>2, <1>4, TodoRecord DEF SettlerType
<1>6. settler' = [settler EXCEPT ![n] = r]
  BY <1>1, <1>4 DEF resolveHtlc, TodoOf
<1>7. ASSUME NEW tx, Publish(n, tx), tx \in TxType, tx.call \in {"claim", "timeout"},
             tx.call = "timeout" => height >= Cltv,
             h.recipient # n => tx = Refund(Target(n, h), st.tree)
      PROVE  \E x, y : Ticked(n, x, y)
  BY <1>1, <1>2, <1>5, <1>6, <1>7 DEF Ticked
<1>8. CASE h.recipient = n /\ Publish(n, [call |-> "claim", htlc |-> Target(n, h),
                         tree |-> settler[n].tree, hash |-> h.hashlock])
  <2>1. PICK tx : tx = [call |-> "claim", htlc |-> Target(n, h),
                        tree |-> settler[n].tree, hash |-> h.hashlock]
    OBVIOUS
  <2>2. tx \in TxType /\ tx.call = "claim"
    BY <1>1, <1>3, <2>1 DEF TxType
  <2> QED BY <1>7, <1>8, <2>1, <2>2
<1>9. CASE h.recipient # n /\ height >= Cltv
           /\ Publish(n, [call |-> "timeout", htlc |-> Target(n, h), tree |-> settler[n].tree])
  <2>1. PICK tx : tx = [call |-> "timeout", htlc |-> Target(n, h), tree |-> settler[n].tree]
    OBVIOUS
  <2>2. tx \in TxType /\ tx.call = "timeout"
    BY <1>1, <1>3, <2>1 DEF TxType
  <2>3. tx = Refund(Target(n, h), st.tree)
    BY <1>1, <2>1 DEF Refund
  <2> QED BY <1>7, <1>9, <2>1, <2>2, <2>3
<1> QED BY <1>8, <1>9 DEF resolveHtlc

\* So is a distribution.
LEMMA DistributeTick ==
    ASSUME CloseTypeOK, NEW n \in Nodes, distribute(n)
    PROVE  \E tx, r : Ticked(n, tx, r)
<1>1. PICK st : st = settler[n]
  OBVIOUS
<1>2. /\ st # none /\ st \in SettlerType /\ st.todo \subseteq st.tree
      /\ UNCHANGED <<channels, htlcResolved, now, height, stopped, dispatched, local>>
  BY <1>1 DEF distribute, CloseTypeOK, chainVars, linkVars
<1>3. PICK r : r = AttemptsOf(st, st.attempts + 1)
  OBVIOUS
<1>4. r \in SettlerType /\ r.tree = st.tree /\ r.todo = st.todo
  <2>1. st.attempts + 1 \in Nat
    BY <1>2 DEF SettlerType
  <2> QED BY <1>2, <1>3, <2>1, AttemptsRecord
<1>5. settler' = [settler EXCEPT ![n] = r]
  BY <1>1, <1>3 DEF distribute, AttemptsOf
<1>6. PICK tx : tx = [call |-> "distribute"]
  OBVIOUS
<1>7. tx \in TxType /\ tx.call = "distribute" /\ Publish(n, tx)
  BY <1>6 DEF TxType, distribute
<1> QED BY <1>1, <1>2, <1>4, <1>5, <1>7 DEF Ticked

\* A settler does nothing else.
LEMMA SettleTick ==
    ASSUME CloseTypeOK, NEW n \in Nodes, Settle(n)
    PROVE  \E tx, r : Ticked(n, tx, r)
BY ResolveTick, DistributeTick DEF Settle

\* A tick keeps what the watchers rely on.
LEMMA SettleStep ==
    ASSUME CInv, NEW n \in Nodes, Settle(n)
    PROVE  CloseTypeOK' /\ CloseSeen' /\ BreachSeen'
<1>1. PICK tx, r : Ticked(n, tx, r)
  BY SettleTick DEF CInv
<1>2. /\ UNCHANGED <<channels, htlcResolved, now, height, stopped, dispatched, local>>
      /\ settler' = [settler EXCEPT ![n] = r] /\ settler[n] # none /\ r \in SettlerType
      /\ r.todo \subseteq r.tree /\ Publish(n, tx) /\ tx \in TxType
  BY <1>1 DEF Ticked
<1>3. mempool' \in [Nodes -> Seq(TxType)]
  BY <1>2, Published DEF CInv, CloseTypeOK
<1>4. CloseTypeOK'
  BY <1>2, <1>3 DEF CInv, CloseTypeOK, ContractTyped
<1>5. CloseSeen'
  BY <1>2 DEF CInv, CloseSeen, CloseTypeOK
<1>6. BreachSeen'
  BY <1>2 DEF CInv, BreachSeen
<1> QED BY <1>4, <1>5, <1>6

\* A transaction is mined.
LEMMA MineStep ==
    ASSUME CInv, NEW n \in Nodes, Mine(n)
    PROVE  CloseTypeOK' /\ CloseSeen' /\ BreachSeen'
<1>1. /\ UNCHANGED <<height, stopped, dispatched, settler, local>>
      /\ mempool[n] # <<>> /\ mempool[n] \in Seq(TxType)
      /\ mempool' = [mempool EXCEPT ![n] = Tail(mempool[n])]
      /\ ContractTyped /\ now \in Nat /\ Chan \in CM!ChannelIds
  BY ChanFacts DEF Mine, linkVars, CInv, CloseTypeOK
<1>2. PICK tx \in TxType : tx = Head(mempool[n])
  BY <1>1, TailFacts
<1>3. ContractTyped' /\ (Opened(n, tx) \/ Credited(tx) \/ Finalized \/ Reverted)
  BY <1>1, <1>2, MineEffect
<1>4. now' = now
  BY DEF Mine, chainVars, Execute, CM!forceClose, CM!penalize, CM!claimHtlc, CM!timeoutHtlc,
         CM!Credit, CM!distributeFunds
<1>5. mempool' \in [Nodes -> Seq(TxType)]
  BY <1>1, TailFacts DEF CInv, CloseTypeOK
<1>6. CloseTypeOK'
  BY <1>1, <1>3, <1>4, <1>5 DEF CInv, CloseTypeOK
<1>7. CloseSeen' /\ BreachSeen'
  <2>1. CASE Opened(n, tx)
    BY <1>1, <2>1, CloseAssumption DEF Opened, CInv, CloseSeen, BreachSeen
  <2>2. CASE Credited(tx)
    BY <1>1, <2>2 DEF Credited, SameClose, Closing, CInv, CloseSeen, BreachSeen
  <2>3. CASE Finalized
    BY <1>1, <2>3 DEF Finalized, SameClose, Closing, CInv, CloseSeen, BreachSeen
  <2>4. CASE Reverted
    BY <1>1, <2>4 DEF Reverted, CInv, CloseSeen, BreachSeen
  <2> QED BY <1>3, <2>1, <2>2, <2>3, <2>4
<1> QED BY <1>6, <1>7

\* A block.
LEMMA BlockStep ==
    ASSUME CInv, Block
    PROVE  CloseTypeOK' /\ CloseSeen' /\ BreachSeen'
<1>1. /\ UNCHANGED <<channels, htlcResolved, mempool, stopped, dispatched, settler, local>>
      /\ height' = height + 1 /\ \E d \in Nat : now' = now + d
  BY CloseAssumption DEF Block, linkVars
<1> QED BY <1>1 DEF CInv, CloseTypeOK, ContractTyped, CloseSeen, BreachSeen

\* Nothing happens.
LEMMA StillStep ==
    ASSUME CInv, UNCHANGED evmVars
    PROVE  CloseTypeOK' /\ CloseSeen' /\ BreachSeen'
<1>1. UNCHANGED <<channels, htlcResolved, now, height, mempool, stopped, dispatched, settler, local>>
  BY DEF evmVars, linkVars, chainVars, closeVars
<1> QED BY <1>1 DEF CInv, CloseTypeOK, ContractTyped, CloseSeen, BreachSeen

\* The open channel.
LEMMA CloseInit == EvmInit => CInv
<1> SUFFICES ASSUME EvmInit PROVE CInv
  OBVIOUS
<1>1. IInv
  BY InitInv DEF EvmInit
<1>2. PICK r : r = [CM!NoChannel EXCEPT !.status = "OPEN", !.totalDeposited = Capacity]
  OBVIOUS
<1>3. /\ CM!NoChannel \in ChannelType
      /\ r \in ChannelType /\ r.status = "OPEN" /\ r.totalDeposited = Capacity
  <2>1. PICK nc, st : nc = CM!NoChannel /\ st = "OPEN"
    OBVIOUS
  <2>2. nc \in ChannelType
    BY <2>1 DEF CM!NoChannel, ChannelType, CM!Status
  <2>3. st \in CM!Status /\ Capacity \in Nat
    BY <2>1, CloseAssumption DEF CM!Status
  <2>4. r = OpenOf(nc, st, Capacity)
    BY <1>2, <2>1 DEF OpenOf
  <2>5. r \in ChannelType /\ r.status = st /\ r.totalDeposited = Capacity
    BY <2>2, <2>3, <2>4, OpenRecord
  <2> QED BY <2>1, <2>2, <2>5
<1>4. /\ channels = [c \in CM!ChannelIds |-> IF c = Chan THEN r ELSE CM!NoChannel]
      /\ htlcResolved = [c \in CM!ChannelIds |-> {}]
      /\ now = Genesis /\ height = 0
      /\ mempool = [n \in Nodes |-> <<>>] /\ stopped = [n \in Nodes |-> FALSE]
      /\ dispatched = [n \in Nodes |-> none] /\ settler = [n \in Nodes |-> none]
  BY <1>2 DEF EvmInit, ChainInit
<1>5. ContractTyped /\ channels[Chan] = r /\ htlcResolved[Chan] = {}
  BY <1>3, <1>4, ChanFacts DEF ContractTyped
<1>6. CloseTypeOK
  BY <1>4, <1>5, CloseAssumption DEF CloseTypeOK
<1>7. CloseSeen /\ BreachSeen
  BY <1>3, <1>4, <1>5, CloseAssumption DEF CloseSeen, BreachSeen
<1> QED BY <1>1, <1>6, <1>7 DEF CInv

\* Every step keeps what the watchers rely on.
LEMMA CloseStep == CInv /\ [EvmNext]_evmVars => CInv'
<1> SUFFICES ASSUME CInv, [EvmNext]_evmVars PROVE CInv'
  OBVIOUS
<1>1. IInv'
  BY LinkSteps, NextInv DEF CInv
<1>2. CloseTypeOK' /\ CloseSeen' /\ BreachSeen'
  BY LinkClose, ForceCloseStep, SpendStep, SettleStep, MineStep, BlockStep, StillStep DEF EvmNext
<1> QED BY <1>1, <1>2 DEF CInv

\* The signed state a node holds stays good evidence from the moment its
\* watcher takes the close for a breach (dispatchEvmBreach) until the window
\* closes: the link is stopped, so no later commitment replaces it, and the
\* broadcaster that signed it is the one the contract recorded.
THEOREM BreachProven == EvmSpec => []BreachEvidenceAccepted
<1>1. EvmInit => CInv
  BY CloseInit
<1>2. CInv /\ [EvmNext]_evmVars => CInv'
  BY CloseStep
<1>3. CInv => BreachEvidenceAccepted
  <2> SUFFICES ASSUME CInv, NEW n \in Nodes, dispatched[n] = "breach",
                      channels[Chan].status = "CLOSING_UNILATERAL",
                      now < channels[Chan].challengeExpiry
               PROVE  CM!Punishable(Chan, StateUpdateOf(n, local[n]))
    BY DEF BreachEvidenceAccepted
  <2>1. /\ channels[Chan].broadcaster = Peer(n) /\ channels[Chan].nonce < local[n].height
        /\ local[n].height \in Nat /\ channels[Chan].nonce \in Nat
    <3>1. channels[Chan] \in ChannelType
      BY ChanFacts DEF CInv, CloseTypeOK, ContractTyped
    <3> QED BY <3>1, CoveredCommits DEF CInv, BreachSeen, ChannelType
  <2>2. StateUpdateOf(n, local[n]).nonce = local[n].height
    BY CoveredCommits, StateTyped DEF CInv
  <2>3. CM!Signed(Peer(n), StateUpdateOf(n, local[n]))
    <3>1. PICK v : v = View(n, local[n])
      OBVIOUS
    <3>2. <<n, v>> \in {<<m, View(m, local[m])>> : m \in Nodes}
      BY <3>1
    <3>3. <<n, v>>[1] = n /\ <<n, v>>[2] = v
      OBVIOUS
    <3>4. [signer |-> Peer(<<n, v>>[1]), digest |-> buildEvmStateUpdate(<<n, v>>[1], <<n, v>>[2])]
             \in Retained
      BY <3>2 DEF Retained
    <3>5. [signer |-> Peer(n), digest |-> buildEvmStateUpdate(n, v)] \in Retained
      BY <3>3, <3>4
    <3> QED BY <3>1, <3>5 DEF CM!Signed, StateUpdateOf
  <2> QED BY <2>1, <2>2, <2>3 DEF CM!Punishable
<1> QED BY <1>1, <1>2, <1>3, PTL DEF EvmSpec
-----------------------------------------------------------------------------
\* What a node's queue holds after one more transaction, and after its first
\* one is mined.
LEMMA QueueGrows ==
    ASSUME CInv, NEW n \in Nodes, NEW tx \in TxType, Publish(n, tx)
    PROVE  /\ \A m \in Nodes : \A i \in 1 .. Len(mempool'[m]) :
                 mempool'[m][i] = tx \/ \E j \in 1 .. Len(mempool[m]) : mempool'[m][i] = mempool[m][j]
           /\ \A m \in Nodes : \A x : InQueue(mempool[m], x) => InQueue(mempool'[m], x)
           /\ InQueue(mempool'[n], tx)
<1>1. mempool \in [Nodes -> Seq(TxType)]
  BY DEF CInv, CloseTypeOK
<1>2. /\ mempool'[n] = Append(mempool[n], tx)
      /\ \A m \in Nodes \ {n} : mempool'[m] = mempool[m]
  BY <1>1, Published
<1>3. PICK q, r : q = mempool[n] /\ r = mempool'[n] /\ q \in Seq(TxType) /\ Len(q) \in Nat
  BY <1>1, LenProperties
<1>4. /\ Len(r) = Len(q) + 1 /\ r[Len(q) + 1] = tx /\ \A i \in 1 .. Len(q) : r[i] = q[i]
  BY <1>2, <1>3, AppendFacts
<1>5. \A i \in 1 .. Len(r) : r[i] = tx \/ \E j \in 1 .. Len(q) : r[i] = q[j]
  BY <1>3, <1>4
<1>6. InQueue(r, tx) /\ \A x : InQueue(q, x) => InQueue(r, x)
  BY <1>3, <1>4 DEF InQueue
<1>7. ASSUME NEW m \in Nodes
      PROVE  /\ \A i \in 1 .. Len(mempool'[m]) :
                   mempool'[m][i] = tx \/ \E j \in 1 .. Len(mempool[m]) : mempool'[m][i] = mempool[m][j]
             /\ \A x : InQueue(mempool[m], x) => InQueue(mempool'[m], x)
  <2>1. CASE m = n
    BY <1>3, <1>5, <1>6, <2>1
  <2>2. CASE m # n
    BY <1>2, <2>2
  <2> QED BY <2>1, <2>2
<1> QED BY <1>3, <1>6, <1>7

\* Mining takes the first transaction off a queue.
LEMMA QueueShrinks ==
    ASSUME CInv, NEW n \in Nodes, Mine(n)
    PROVE  /\ \A m \in Nodes : \A i \in 1 .. Len(mempool'[m]) :
                 \E j \in 1 .. Len(mempool[m]) : mempool'[m][i] = mempool[m][j]
           /\ \A m \in Nodes : \A x : InQueue(mempool[m], x) =>
                 InQueue(mempool'[m], x) \/ (m = n /\ x = Head(mempool[n]))
           /\ \E j \in 1 .. Len(mempool[n]) : Head(mempool[n]) = mempool[n][j]
<1>1. mempool \in [Nodes -> Seq(TxType)]
  BY DEF CInv, CloseTypeOK
<1>2. /\ mempool'[n] = Tail(mempool[n]) /\ mempool[n] # <<>>
      /\ \A m \in Nodes \ {n} : mempool'[m] = mempool[m]
  BY <1>1 DEF Mine
<1>3. PICK q, r : q = mempool[n] /\ r = mempool'[n] /\ q \in Seq(TxType) /\ Len(q) \in Nat
  BY <1>1, LenProperties
<1>4. /\ Len(r) = Len(q) - 1 /\ Len(q) > 0 /\ Head(q) = q[1]
      /\ \A i \in 1 .. Len(q) - 1 : r[i] = q[i + 1]
  BY <1>2, <1>3, TailFacts
<1>5. \A i \in 1 .. Len(r) : \E j \in 1 .. Len(q) : r[i] = q[j]
  <2> SUFFICES ASSUME NEW i \in 1 .. Len(r) PROVE \E j \in 1 .. Len(q) : r[i] = q[j]
    OBVIOUS
  <2>1. i + 1 \in 1 .. Len(q) /\ r[i] = q[i + 1]
    BY <1>3, <1>4
  <2> QED BY <2>1
<1>6. ASSUME NEW x, InQueue(q, x) PROVE InQueue(r, x) \/ x = Head(q)
  <2>1. PICK i \in 1 .. Len(q) : q[i] = x
    BY <1>6 DEF InQueue
  <2>2. CASE i = 1
    BY <1>4, <2>1, <2>2
  <2>3. CASE i # 1
    <3>1. i - 1 \in 1 .. Len(r) /\ r[i - 1] = q[(i - 1) + 1] /\ (i - 1) + 1 = i
      BY <1>3, <1>4, <2>1, <2>3
    <3> QED BY <2>1, <3>1 DEF InQueue
  <2> QED BY <2>2, <2>3
<1>7. 1 \in 1 .. Len(q) /\ Head(q) = q[1]
  BY <1>3, <1>4
<1>8. ASSUME NEW m \in Nodes
      PROVE  /\ \A i \in 1 .. Len(mempool'[m]) :
                   \E j \in 1 .. Len(mempool[m]) : mempool'[m][i] = mempool[m][j]
             /\ \A x : InQueue(mempool[m], x) =>
                   InQueue(mempool'[m], x) \/ (m = n /\ x = Head(mempool[n]))
  <2>1. CASE m = n
    <3>1. \A x : InQueue(q, x) => InQueue(r, x) \/ x = Head(q)
      BY <1>6
    <3> QED BY <1>3, <1>5, <2>1, <3>1
  <2>2. CASE m # n
    <3>1. mempool'[m] = mempool[m]
      BY <1>2, <2>2
    <3> QED BY <3>1
  <2> QED BY <2>1, <2>2
<1> QED BY <1>3, <1>7, <1>8

\* What is new in a queue is a whole state, or due.
NewTx(x) == Whole(x) /\ (x.call = "timeout" => height >= Cltv)

\* What a step adds to a queue is whole, and no refund comes before its height.
LEMMA QueueStep ==
    ASSUME CInv, [EvmNext]_evmVars
    PROVE  \A m \in Nodes : \A i \in 1 .. Len(mempool'[m]) :
              NewTx(mempool'[m][i]) \/ \E j \in 1 .. Len(mempool[m]) : mempool'[m][i] = mempool[m][j]
<1>1. CASE mempool' = mempool
  BY <1>1
<1>2. ASSUME NEW n \in Nodes, NEW tx \in TxType, Publish(n, tx), NewTx(tx)
      PROVE  \A m \in Nodes : \A i \in 1 .. Len(mempool'[m]) :
              NewTx(mempool'[m][i]) \/ \E j \in 1 .. Len(mempool[m]) : mempool'[m][i] = mempool[m][j]
  BY <1>2, QueueGrows
<1>3. ASSUME NEW n \in Nodes, ForceClose(n)
      PROVE  \E tx \in TxType : Publish(n, tx) /\ NewTx(tx)
  <2>1. PICK tx : tx = [call |-> "forceClose", state |-> StateUpdateOf(n, local[n])]
    OBVIOUS
  <2>2. /\ tx \in TxType /\ tx.call = "forceClose" /\ tx.state = StateUpdateOf(n, local[n])
        /\ IsFiniteSet(tx.state.htlcs)
    BY <2>1, ForceCloseTx
  <2>3. Publish(n, tx) /\ Reconciles(tx.state)
    BY <1>3, <2>1, <2>2 DEF ForceClose
  <2> QED BY <2>2, <2>3 DEF NewTx, Whole
<1>4. ASSUME NEW n \in Nodes, handleEvmSpend(n)
      PROVE  mempool' = mempool \/ \E tx \in TxType : Publish(n, tx) /\ NewTx(tx)
  <2>1. PICK tx : tx = [call |-> "penalize", state |-> StateUpdateOf(n, local[n])]
    OBVIOUS
  <2>2. tx \in TxType /\ tx.call = "penalize"
    BY <2>1, ForceCloseTx
  <2>3. mempool' = mempool \/ Publish(n, tx)
    BY <1>4, <2>1 DEF handleEvmSpend
  <2> QED BY <2>2, <2>3 DEF NewTx, Whole
<1>5. ASSUME NEW n \in Nodes, Settle(n)
      PROVE  \E tx \in TxType : Publish(n, tx) /\ NewTx(tx)
  BY <1>5, SettleTick DEF CInv, Ticked, NewTx, Whole
<1>6. ASSUME NEW n \in Nodes, Mine(n)
      PROVE  \A m \in Nodes : \A i \in 1 .. Len(mempool'[m]) :
                \E j \in 1 .. Len(mempool[m]) : mempool'[m][i] = mempool[m][j]
  BY <1>6, QueueShrinks
<1>7. ASSUME NEW n \in Nodes, Link(n) PROVE mempool' = mempool
  BY <1>7 DEF Link, closeVars
<1>8. Block \/ UNCHANGED evmVars => mempool' = mempool
  BY DEF Block, evmVars, closeVars
<1>9. CASE \E n \in Nodes : Mine(n)
  BY <1>6, <1>9
<1>10. CASE mempool' = mempool \/ \E n \in Nodes, tx \in TxType : Publish(n, tx) /\ NewTx(tx)
  BY <1>1, <1>2, <1>10
<1> QED BY <1>3, <1>4, <1>5, <1>7, <1>8, <1>9, <1>10 DEF EvmNext

\* States stay whole.
LEMMA WholeStep ==
    ASSUME CInv, PublishedWhole, [EvmNext]_evmVars PROVE PublishedWhole'
<1> SUFFICES ASSUME NEW m \in Nodes, NEW i \in 1 .. Len(mempool'[m]) PROVE Whole(mempool'[m][i])
  BY DEF PublishedWhole, Whole, Reconciles
<1> QED BY QueueStep DEF PublishedWhole, NewTx

\* Chain time stays ahead of the heights, and refunds are due.
LEMMA Due ==
    ASSUME height \in Nat, now \in Nat, height >= Cltv,
           now >= Genesis + height * BlockTime, now >= height
    PROVE  now >= evmHtlcTimelock(Cltv)
<1>1. height * BlockTime >= Cltv * BlockTime
  <2>1. PICK d : d = height - Cltv
    OBVIOUS
  <2>2. d \in Nat /\ height = Cltv + d /\ d * BlockTime \in Nat
    BY <2>1, CloseAssumption
  <2>3. height * BlockTime = Cltv * BlockTime + d * BlockTime
    BY <2>2, CloseAssumption
  <2>4. Cltv * BlockTime \in Nat
    BY CloseAssumption
  <2> QED BY <2>2, <2>3, <2>4
<1>2. height * BlockTime \in Nat /\ Cltv * BlockTime \in Nat
  BY CloseAssumption
<1> QED BY <1>1, <1>2, TimelockFacts, CloseAssumption

\* Time never runs back, and keeps up with the height.
LEMMA TimeStep ==
    ASSUME CInv, Timely, RefundsDue, [EvmNext]_evmVars
    PROVE  RefundsDue' /\ now' >= now
<1>1. now \in Nat /\ height \in Nat /\ now' \in Nat
  BY CloseStep DEF CInv, CloseTypeOK
<1>2. \/ now' = now /\ height' = height
      \/ height' = height + 1 /\ \E d \in BlockIntervals : now' = now + d
  <2>1. ASSUME NEW n \in Nodes, Link(n) \/ ForceClose(n) \/ handleEvmSpend(n)
        PROVE  now' = now /\ height' = height
    BY <2>1 DEF Link, ForceClose, handleEvmSpend, chainVars, closeVars
  <2>2. ASSUME NEW n \in Nodes, Settle(n) PROVE now' = now /\ height' = height
    BY <2>2, SettleTick DEF CInv, Ticked
  <2>3. ASSUME NEW n \in Nodes, Mine(n) PROVE now' = now /\ height' = height
    BY <2>3 DEF Mine, chainVars, Execute, CM!forceClose, CM!penalize, CM!claimHtlc, CM!timeoutHtlc,
         CM!Credit, CM!distributeFunds
  <2>4. UNCHANGED evmVars => now' = now /\ height' = height
    BY DEF evmVars, chainVars, closeVars
  <2> QED BY <2>1, <2>2, <2>3, <2>4 DEF EvmNext, Block
<1>3. now' >= now /\ now' >= Genesis + height' * BlockTime /\ now' >= height'
  <2>1. CASE now' = now /\ height' = height
    BY <1>1, <2>1 DEF RefundsDue
  <2>2. ASSUME NEW d \in BlockIntervals, height' = height + 1, now' = now + d
        PROVE  now' >= now /\ now' >= Genesis + height' * BlockTime /\ now' >= height'
    <3>1. d \in Nat /\ d >= BlockTime /\ d >= 1 /\ BlockTime \in Nat /\ Genesis \in Nat
      BY CloseAssumption DEF Timely
    <3>2. PICK hb : hb = height * BlockTime /\ hb \in Nat
      BY <1>1, <3>1
    <3>3. (height + 1) * BlockTime = hb + BlockTime
      BY <1>1, <3>1, <3>2
    <3>4. now >= Genesis + hb /\ now >= height
      BY <3>2 DEF RefundsDue
    <3> QED BY <1>1, <2>2, <3>1, <3>2, <3>3, <3>4
  <2> QED BY <1>2, <2>1, <2>2
<1>4. now >= evmHtlcTimelock(Cltv) => now' >= evmHtlcTimelock(Cltv)
  BY <1>1, <1>3, TimelockFacts
<1>5. height >= Cltv => now >= evmHtlcTimelock(Cltv)
  BY <1>1, Due DEF RefundsDue
<1>6. \A m \in Nodes : \A i \in 1 .. Len(mempool'[m]) :
          mempool'[m][i].call = "timeout" => now' >= evmHtlcTimelock(Cltv)
  BY <1>4, <1>5, QueueStep DEF RefundsDue, NewTx
<1>7. evmHtlcTimelock(Cltv)' = evmHtlcTimelock(Cltv)
  BY DEF evmHtlcTimelock
<1> QED BY <1>3, <1>6, <1>7 DEF RefundsDue

\* The pool keeps counting what is not resolved.
LEMMA PoolMine ==
    ASSUME CInv, PublishedWhole, PoolCounts, NEW n \in Nodes, Mine(n)
    PROVE  PoolCounts'
<1>1. /\ mempool[n] # <<>> /\ mempool[n] \in Seq(TxType)
      /\ ContractTyped /\ now \in Nat /\ channels[Chan].totalDeposited = Capacity
  BY DEF Mine, CInv, CloseTypeOK, CloseSeen
<1>2. PICK tx \in TxType : tx = Head(mempool[n])
  BY <1>1, TailFacts
<1>3. Whole(tx)
  BY <1>2, QueueShrinks DEF PublishedWhole
<1>4. ContractTyped' /\ (Opened(n, tx) \/ Credited(tx) \/ Finalized \/ Reverted)
  BY <1>1, <1>2, MineEffect
<1>5. channels[Chan] \in ChannelType /\ channels'[Chan] \in ChannelType
  BY <1>1, <1>4, ChanFacts DEF ContractTyped
<1>6. CASE Opened(n, tx)
  <2>1. htlcResolved'[Chan] = {} /\ channels'[Chan].htlcs = tx.state.htlcs
    BY <1>6 DEF Opened, CInv, CloseSeen
  <2>2. IsFiniteSet(tx.state.htlcs) /\ Reconciles(tx.state)
    BY <1>3, <1>6 DEF Opened, Whole
  <2>3. Unresolved' = tx.state.htlcs
    BY <2>1 DEF Unresolved
  <2>4. tx.state.balanceA \in Int /\ tx.state.balanceB \in Int /\ Cardinality(tx.state.htlcs) \in Nat
    BY <1>6, <2>2, TxFields, FS_CardinalityType DEF Opened, StateType
  <2>5. channels'[Chan].htlcPool = Capacity - tx.state.balanceA - tx.state.balanceB
    BY <1>1, <1>6 DEF Opened
  <2>6. channels'[Chan].htlcPool = Cardinality(tx.state.htlcs)
    BY <2>2, <2>4, <2>5, CloseAssumption DEF Reconciles
  <2> QED BY <2>1, <2>2, <2>3, <2>6 DEF PoolCounts
<1>7. CASE Credited(tx)
  <2>1. /\ channels'[Chan].htlcs = channels[Chan].htlcs /\ IsFiniteSet(channels[Chan].htlcs)
        /\ Closing
    BY <1>7 DEF Credited, SameClose, PoolCounts
  <2>2. ASSUME ~ Ambiguous' PROVE channels'[Chan].htlcPool = Cardinality(Unresolved')
    <3>1. ~ Ambiguous
      BY <2>1, <2>2 DEF Ambiguous, SharedIndex
    <3>2. /\ tx.htlc \in Unresolved /\ tx.htlc.amount = 1
          /\ channels'[Chan].htlcPool = channels[Chan].htlcPool - tx.htlc.amount
      BY <1>7, TxFields DEF Credited, Unresolved, LeafType
    <3>3. Unresolved' = Unresolved \ {tx.htlc}
      BY <1>7, <2>1, <3>1 DEF Credited, Unresolved, Ambiguous, SharedIndex
    <3>4. IsFiniteSet(Unresolved)
      BY <2>1, FS_Subset DEF Unresolved
    <3>5. channels[Chan].htlcPool = Cardinality(Unresolved)
      BY <2>1, <3>1 DEF PoolCounts
    <3>6. Cardinality(Unresolved') = Cardinality(Unresolved) - 1
      BY <3>2, <3>3, <3>4, FS_RemoveElement
    <3> QED BY <3>2, <3>5, <3>6
  <2> QED BY <2>1, <2>2 DEF PoolCounts
<1>8. CASE Finalized
  BY <1>8 DEF Finalized, SameClose, PoolCounts, Closing
<1>9. CASE Reverted
  BY <1>9 DEF Reverted, PoolCounts, Closing, Ambiguous, Unresolved
<1> QED BY <1>4, <1>6, <1>7, <1>8, <1>9

\* Only mining changes the contract.
LEMMA ChainStill ==
    ASSUME CInv, [EvmNext]_evmVars
    PROVE  UNCHANGED <<channels, htlcResolved>> \/ \E n \in Nodes : Mine(n)
<1>1. ASSUME NEW n \in Nodes, Settle(n) PROVE UNCHANGED <<channels, htlcResolved>>
  BY <1>1, SettleTick DEF CInv, Ticked
<1> QED BY <1>1 DEF EvmNext, Link, ForceClose, handleEvmSpend, Block, evmVars, chainVars

\* The pool keeps counting the unresolved HTLCs.
LEMMA PoolStep ==
    ASSUME CInv, PublishedWhole, PoolCounts, [EvmNext]_evmVars PROVE PoolCounts'
<1>1. CASE UNCHANGED <<channels, htlcResolved>>
  BY <1>1 DEF PoolCounts, Closing, Ambiguous, Unresolved
<1> QED BY <1>1, PoolMine, ChainStill

\* Under unique indices a settler resolves the HTLC it means to.
LEMMA UniqueTarget ==
    ASSUME NEW n \in Nodes, NEW h \in settler[n].tree,
           settler[n].tree = channels[Chan].htlcs, ~ Ambiguous
    PROVE  Target(n, h) = h
BY TargetFacts DEF Ambiguous, SharedIndex

\* The conclusion of Handled for one HTLC.
Tended(n, h) ==
    \/ h \in settler[n].todo \/ h.index \in htlcResolved[Chan]
    \/ InQueue(mempool[n], Refund(h, settler[n].tree))

\* A settler crosses off a refund only by publishing it.
LEMMA TickHandled ==
    ASSUME CInv, AllHandled, NEW n \in Nodes, Settle(n)
    PROVE  AllHandled'
<1>1. PICK tx, r : Ticked(n, tx, r)
  BY SettleTick DEF CInv
<1>2. /\ UNCHANGED <<channels, htlcResolved>> /\ settler' = [settler EXCEPT ![n] = r]
      /\ settler[n] # none /\ r.tree = settler[n].tree
      /\ settler[n].todo \subseteq settler[n].tree
      /\ Publish(n, tx) /\ tx \in TxType
  BY <1>1 DEF Ticked
<1>3. /\ \A m \in Nodes : \A x : InQueue(mempool[m], x) => InQueue(mempool'[m], x)
      /\ InQueue(mempool'[n], tx)
  BY <1>2, QueueGrows
<1>4. /\ settler'[n] = r /\ \A m \in Nodes \ {n} : settler'[m] = settler[m]
  BY <1>2 DEF CInv, CloseTypeOK
<1>5. (Closing' <=> Closing) /\ (Ambiguous' <=> Ambiguous)
  BY <1>2 DEF Closing, Ambiguous
<1>6. ASSUME NEW m \in Nodes, Closing, ~ Ambiguous, settler'[m] # none,
             settler'[m].tree = channels[Chan].htlcs, NEW h \in channels[Chan].htlcs, h.recipient # m
      PROVE  \/ h \in settler'[m].todo \/ h.index \in htlcResolved[Chan]
             \/ InQueue(mempool'[m], Refund(h, settler'[m].tree))
  <2>1. settler[m] # none /\ settler[m].tree = settler'[m].tree
    BY <1>2, <1>4, <1>6
  <2>2. Tended(m, h)
    BY <1>6, <2>1 DEF AllHandled, Handled, Tended
  <2>3. CASE h \in settler[m].todo
    <3>1. CASE h \in settler'[m].todo
      BY <3>1
    <3>2. CASE h \notin settler'[m].todo
      <4>1. m = n /\ r.todo # settler[n].todo
        BY <1>4, <2>3, <3>2
      <4>2. PICK g \in settler[n].todo : /\ r.todo = settler[n].todo \ {g}
                                         /\ g.recipient # n => tx = Refund(Target(n, g), settler[n].tree)
        BY <1>1, <4>1 DEF Ticked
      <4>3. g = h
        BY <1>4, <2>3, <3>2, <4>1, <4>2
      <4>4. Target(n, h) = h
        BY <1>2, <1>6, <2>1, <4>1, <4>2, <4>3, UniqueTarget
      <4>5. tx = Refund(h, settler'[m].tree)
        BY <1>6, <2>1, <4>1, <4>2, <4>3, <4>4
      <4> QED BY <1>3, <4>1, <4>5
    <3> QED BY <3>1, <3>2
  <2>4. CASE InQueue(mempool[m], Refund(h, settler[m].tree))
    BY <1>3, <2>1, <2>4
  <2> QED BY <2>2, <2>3, <2>4 DEF Tended
<1> QED BY <1>2, <1>5, <1>6 DEF AllHandled, Handled, Refund

\* A refund whose turn comes is accepted: its HTLC is then resolved.
LEMMA RefundAccepted ==
    ASSUME CInv, PoolCounts, RefundsDue, NEW n \in Nodes, Mine(n), Closing, ~ Ambiguous,
           NEW h \in channels[Chan].htlcs, h.index \notin htlcResolved[Chan],
           Head(mempool[n]) = Refund(h, channels[Chan].htlcs)
    PROVE  h.index \in htlcResolved'[Chan]
<1>1. PICK tx : tx = Head(mempool[n])
  OBVIOUS
<1>2. tx.call = "timeout" /\ tx.htlc = h /\ tx.tree = channels[Chan].htlcs
  BY <1>1 DEF Refund
<1>3. channels[Chan] \in ChannelType /\ ContractTyped
  BY ChanFacts DEF CInv, CloseTypeOK, ContractTyped
<1>4. h \in LeafType
  BY <1>3 DEF ChannelType
<1>5. h.recipient \in Nodes /\ h.amount = 1 /\ h.timelock = evmHtlcTimelock(Cltv)
  BY <1>4 DEF LeafType
<1>6. h.recipient \in CM!Participants(Chan)
  BY <1>5, ChanFacts
<1>7. h.amount <= channels[Chan].htlcPool
  <2>1. h \in Unresolved
    BY DEF Unresolved
  <2>2. IsFiniteSet(Unresolved) /\ channels[Chan].htlcPool = Cardinality(Unresolved)
    BY FS_Subset DEF PoolCounts, Unresolved
  <2>3. Cardinality(Unresolved) \in Nat /\ Cardinality(Unresolved) # 0
    BY <2>1, <2>2, FS_CardinalityType, FS_EmptySet
  <2> QED BY <1>5, <2>2, <2>3
<1>8. now >= tx.htlc.timelock
  BY <1>1, <1>2, <1>5, QueueShrinks DEF RefundsDue
<1>9. CM!Resolvable(Chan, tx.htlc) /\ Proven(tx)
  BY <1>2, <1>6, <1>7 DEF CM!Resolvable, Closing, Proven
<1>10. Accepted(n, tx)
  BY <1>2, <1>8, <1>9 DEF Accepted
<1>11. CM!timeoutHtlc(Chan, tx.htlc)
  BY <1>1, <1>2, <1>10 DEF Mine, Execute
<1>12. htlcResolved' = [htlcResolved EXCEPT ![Chan] = @ \cup {tx.htlc.index}]
  BY <1>11 DEF CM!timeoutHtlc, CM!Credit
<1> QED BY <1>2, <1>3, <1>12, ChanFacts DEF ContractTyped

\* A refund leaves the queue only by resolving its HTLC.
LEMMA MineHandled ==
    ASSUME CInv, PoolCounts, RefundsDue, AllHandled, NEW n \in Nodes, Mine(n)
    PROVE  AllHandled'
<1>1. /\ settler' = settler /\ mempool[n] # <<>> /\ mempool[n] \in Seq(TxType)
      /\ ContractTyped /\ now \in Nat
  BY DEF Mine, CInv, CloseTypeOK
<1>2. PICK tx \in TxType : tx = Head(mempool[n])
  BY <1>1, TailFacts
<1>3. Opened(n, tx) \/ Credited(tx) \/ Finalized \/ Reverted
  BY <1>1, <1>2, MineEffect
<1> SUFFICES ASSUME NEW m \in Nodes, Closing', ~ Ambiguous', settler[m] # none,
                    settler[m].tree = channels'[Chan].htlcs,
                    NEW h \in channels'[Chan].htlcs, h.recipient # m
             PROVE  \/ h \in settler[m].todo \/ h.index \in htlcResolved'[Chan]
                    \/ InQueue(mempool'[m], Refund(h, settler[m].tree))
  BY <1>1 DEF AllHandled, Handled, Refund
<1>4. ~ Opened(n, tx) /\ ~ Finalized
  BY DEF Opened, Finalized, Closing, CInv, CloseSeen
<1>5. /\ Closing /\ channels'[Chan].htlcs = channels[Chan].htlcs
      /\ htlcResolved[Chan] \subseteq htlcResolved'[Chan]
  BY <1>3, <1>4 DEF Credited, SameClose, Reverted, Closing
<1>6. ~ Ambiguous
  BY <1>5 DEF Ambiguous
<1>7. Tended(m, h)
  BY <1>5, <1>6 DEF AllHandled, Handled, Tended
<1>8. CASE InQueue(mempool[m], Refund(h, settler[m].tree))
  <2>1. \/ InQueue(mempool'[m], Refund(h, settler[m].tree))
        \/ m = n /\ Refund(h, settler[m].tree) = Head(mempool[n])
    BY <1>8, QueueShrinks
  <2> QED BY <1>5, <1>6, <2>1, RefundAccepted
<1> QED BY <1>5, <1>7, <1>8 DEF Tended

\* A new settler has everything before it.
LEMMA SpendHandled ==
    ASSUME CInv, AllHandled, NEW n \in Nodes, handleEvmSpend(n)
    PROVE  AllHandled'
<1>1. /\ UNCHANGED <<channels, htlcResolved>> /\ settler \in [Nodes -> SettlerType \cup {none}]
  BY DEF handleEvmSpend, chainVars, CInv, CloseTypeOK
<1>2. PICK st : /\ settler' = [settler EXCEPT ![n] = st]
                /\ st \in {Settler(n, local[n]), Settler(n, tail[n]), none}
  <2>1. CASE channels[Chan].broadcaster = n
    BY <2>1 DEF handleEvmSpend
  <2>2. CASE channels[Chan].broadcaster # n /\ Breach(n)
    BY <2>2 DEF handleEvmSpend
  <2>3. CASE channels[Chan].broadcaster # n /\ ~ Breach(n)
    BY <2>3 DEF handleEvmSpend
  <2> QED BY <2>1, <2>2, <2>3
<1>3. settler'[n] = st /\ \A m \in Nodes \ {n} : settler'[m] = settler[m]
  BY <1>1, <1>2
<1>4. \A m \in Nodes : \A x : InQueue(mempool[m], x) => InQueue(mempool'[m], x)
  <2>1. PICK tx : tx = [call |-> "penalize", state |-> StateUpdateOf(n, local[n])]
    OBVIOUS
  <2>2. tx \in TxType
    BY <2>1, ForceCloseTx
  <2>3. mempool' = mempool \/ Publish(n, tx)
    BY <2>1 DEF handleEvmSpend
  <2> QED BY <2>2, <2>3, QueueGrows
<1>5. (Closing' <=> Closing) /\ (Ambiguous' <=> Ambiguous)
  BY <1>1 DEF Closing, Ambiguous
<1>6. ASSUME NEW m \in Nodes, Closing, ~ Ambiguous, settler'[m] # none,
             settler'[m].tree = channels[Chan].htlcs, NEW h \in channels[Chan].htlcs, h.recipient # m
      PROVE  \/ h \in settler'[m].todo \/ h.index \in htlcResolved[Chan]
             \/ InQueue(mempool'[m], Refund(h, settler'[m].tree))
  <2>1. CASE m = n
    <3>1. st \in {Settler(n, local[n]), Settler(n, tail[n])} /\ st.tree = channels[Chan].htlcs
      BY <1>2, <1>3, <1>6, <2>1
    <3>2. \A g \in st.tree : g \in st.todo \/
              (g.recipient # n /\ \E k \in st.tree : k.index = g.index /\ k.recipient = n)
      BY <3>1, SettlerTyped DEF CInv
    <3>3. h \in st.todo
      BY <1>6, <2>1, <3>1, <3>2 DEF Ambiguous, SharedIndex
    <3> QED BY <1>3, <2>1, <3>3
  <2>2. CASE m # n
    <3>1. settler'[m] = settler[m]
      BY <1>3, <2>2
    <3>2. Tended(m, h)
      BY <1>6, <3>1 DEF AllHandled, Handled, Tended
    <3> QED BY <1>4, <3>1, <3>2 DEF Tended
  <2> QED BY <2>1, <2>2
<1> QED BY <1>1, <1>5, <1>6 DEF AllHandled, Handled, Refund

\* Steps that leave settler, contract and queue alone.
LEMMA RestHandled ==
    ASSUME CInv, AllHandled, UNCHANGED <<channels, htlcResolved, settler>>,
           \A m \in Nodes : \A x : InQueue(mempool[m], x) => InQueue(mempool'[m], x)
    PROVE  AllHandled'
BY DEF AllHandled, Handled, Refund, Closing, Ambiguous

\* Together: what the settlers rely on.
SInv == CInv /\ PublishedWhole /\ PoolCounts /\ RefundsDue /\ AllHandled

\* No step loses an HTLC a settler offered.
LEMMA HandledStep == SInv /\ [EvmNext]_evmVars => AllHandled'
<1> SUFFICES ASSUME SInv, [EvmNext]_evmVars PROVE AllHandled'
  OBVIOUS
<1> USE DEF SInv
<1>1. ASSUME NEW n \in Nodes, ForceClose(n) PROVE AllHandled'
  <2>1. PICK tx \in TxType : Publish(n, tx)
    BY <1>1, ForceCloseTx DEF ForceClose
  <2>2. UNCHANGED <<channels, htlcResolved, settler>>
    BY <1>1 DEF ForceClose, chainVars
  <2> QED BY <2>1, <2>2, QueueGrows, RestHandled
<1>2. ASSUME UNCHANGED <<channels, htlcResolved, settler, mempool>> PROVE AllHandled'
  BY <1>2, RestHandled
<1>3. ASSUME NEW n \in Nodes, Link(n) PROVE AllHandled'
  BY <1>2, <1>3 DEF Link, chainVars, closeVars
<1>4. Block \/ UNCHANGED evmVars => AllHandled'
  BY <1>2 DEF Block, evmVars, chainVars, closeVars
<1> QED BY <1>1, <1>3, <1>4, TickHandled, MineHandled, SpendHandled DEF EvmNext

\* Every HTLC a settler offered and has crossed off was refunded by then or
\* claimed, as long as block timestamps keep up with the block time the
\* timelocks were computed from and no two HTLCs share an index: a refund is
\* never sent before the contract accepts it, so forgetting what was handed to
\* the network (resolveHtlc) loses nothing.
THEOREM SettlersLeaveNothing == Timely => (EvmSpec => []NothingPendingMeansResolved)
<1> SUFFICES ASSUME Timely PROVE EvmSpec => []NothingPendingMeansResolved
  OBVIOUS
<1>1. EvmInit => SInv
  <2> SUFFICES ASSUME EvmInit PROVE SInv
    OBVIOUS
  <2>1. CInv
    BY CloseInit
  <2>2. \A n \in Nodes : mempool[n] = <<>> /\ settler[n] = none
    BY DEF EvmInit, ChainInit
  <2>3. PublishedWhole /\ AllHandled
    BY <2>2 DEF PublishedWhole, AllHandled, Handled
  <2>4. /\ channels[Chan].htlcs = {} /\ channels[Chan].status = "OPEN"
    BY ChanFacts DEF EvmInit, ChainInit, CM!NoChannel
  <2>5. PoolCounts
    BY <2>4, FS_EmptySet DEF PoolCounts, Closing
  <2>6. RefundsDue
    BY <2>2, CloseAssumption DEF RefundsDue, EvmInit, ChainInit
  <2> QED BY <2>1, <2>3, <2>5, <2>6 DEF SInv
<1>2. SInv /\ [EvmNext]_evmVars => SInv'
  BY CloseStep, WholeStep, PoolStep, TimeStep, HandledStep DEF SInv
<1>3. SInv => NothingPendingMeansResolved
  BY DEF SInv, AllHandled, Handled, NothingPendingMeansResolved, InQueue, Closing
<1> QED BY <1>1, <1>2, <1>3, PTL DEF EvmSpec
-----------------------------------------------------------------------------
\* An end never spends more than it has: on no beginning of its own log, with
\* the peer's updates it has acked, and on no commitment it has signed.
Afford(n, own, their) ==
    Balance(Start(n), Take(log[n], own), Take(rlog[n], their)) >= 0
FundedAt(n) ==
    /\ \A i \in 1 .. Len(log[n]) : log[n][i].kind = "rm" => log[n][i].payload \in Outcomes
    /\ \A k \in 0 .. Len(log[n]) : Afford(n, k, local[n].their)
    /\ Afford(n, tail[n].own, tail[n].their)
    /\ Afford(n, Tip(n).own, Tip(n).their)
Funded == \A n \in Nodes : FundedAt(n)

\* The entries a count is over.
AddsOf(s) == {i \in 1 .. Len(s) : s[i].kind = "add"}
SettlesOf(s) == {i \in 1 .. Len(s) : s[i].kind = "rm" /\ s[i].payload = "settle"}
FailsOf(s) == {i \in 1 .. Len(s) : s[i].kind = "rm" /\ s[i].payload = "fail"}

\* The counts of a log are cardinalities of finite sets.
LEMMA Counts ==
    ASSUME NEW s, Len(s) \in Nat
    PROVE  /\ htlcCounter(s) = Cardinality(AddsOf(s)) /\ IsFiniteSet(AddsOf(s))
           /\ Settled(s) = Cardinality(SettlesOf(s)) /\ IsFiniteSet(SettlesOf(s))
           /\ FailedBack(s) = Cardinality(FailsOf(s)) /\ IsFiniteSet(FailsOf(s))
           /\ htlcCounter(s) \in Nat /\ Settled(s) \in Nat /\ FailedBack(s) \in Nat
<1>1. IsFiniteSet(1 .. Len(s))
  BY FS_Interval
<1>2. \A T \in SUBSET (1 .. Len(s)) : IsFiniteSet(T)
  BY <1>1, FS_Subset
<1>3. IsFiniteSet(AddsOf(s)) /\ IsFiniteSet(SettlesOf(s)) /\ IsFiniteSet(FailsOf(s))
  BY <1>2 DEF AddsOf, SettlesOf, FailsOf
<1>4. /\ htlcCounter(s) = Cardinality(AddsOf(s)) /\ Settled(s) = Cardinality(SettlesOf(s))
      /\ FailedBack(s) = Cardinality(FailsOf(s))
  BY DEF htlcCounter, Settled, FailedBack, AddsOf, SettlesOf, FailsOf
<1> QED BY <1>3, <1>4, FS_CardinalityType

\* More acked updates credit no less.
LEMMA CountTake ==
    ASSUME NEW s \in Seq(UpdateType), NEW k \in 0 .. Len(s), NEW m \in 0 .. Len(s), k <= m
    PROVE  FailedBack(Take(s, k)) <= FailedBack(Take(s, m))
<1>1. Len(s) \in Nat /\ k \in Nat /\ m \in Nat
  BY LenProperties
<1>2. PICK a, b : a = Take(s, k) /\ b = Take(s, m)
  OBVIOUS
<1>3. /\ Len(a) = k /\ \A i \in 1 .. k : a[i] = s[i]
      /\ Len(b) = m /\ \A i \in 1 .. m : b[i] = s[i]
  BY <1>2, TakeFacts
<1>4. FailsOf(a) \in SUBSET FailsOf(b)
  BY <1>1, <1>3 DEF FailsOf
<1>5. Cardinality(FailsOf(a)) <= Cardinality(FailsOf(b))
  BY <1>1, <1>3, <1>4, Counts, FS_Subset
<1> QED BY <1>1, <1>2, <1>3, <1>5, Counts

\* One more update.
LEMMA CountAppend ==
    ASSUME NEW s \in Seq(UpdateType), NEW u \in UpdateType
    PROVE  /\ htlcCounter(Append(s, u)) = htlcCounter(s) + (IF u.kind = "add" THEN 1 ELSE 0)
           /\ Settled(Append(s, u)) >= Settled(s)
<1>1. PICK t, L : t = Append(s, u) /\ L = Len(s) /\ L \in Nat
  BY LenProperties
<1>2. /\ Len(t) = L + 1 /\ t[L + 1] = u /\ \A i \in 1 .. L : t[i] = s[i]
  BY <1>1, AppendFacts
<1>3. AddsOf(t) = IF u.kind = "add" THEN AddsOf(s) \cup {L + 1} ELSE AddsOf(s)
  <2>1. ASSUME NEW i \in 1 .. L + 1
        PROVE  i \in AddsOf(t) <=> (i \in AddsOf(s) \/ (i = L + 1 /\ u.kind = "add"))
    BY <1>1, <1>2 DEF AddsOf
  <2>2. AddsOf(t) \subseteq 1 .. L + 1 /\ AddsOf(s) \subseteq 1 .. L + 1 /\ L + 1 \in 1 .. L + 1
    BY <1>1, <1>2 DEF AddsOf
  <2> QED BY <2>1, <2>2
<1>4. L + 1 \notin AddsOf(s)
  BY <1>1 DEF AddsOf
<1>5. Cardinality(AddsOf(t)) = Cardinality(AddsOf(s)) + (IF u.kind = "add" THEN 1 ELSE 0)
  <2>1. IsFiniteSet(AddsOf(s)) /\ Cardinality(AddsOf(s)) \in Nat
    BY <1>1, Counts, FS_CardinalityType
  <2>2. CASE u.kind = "add"
    <3>1. AddsOf(t) = AddsOf(s) \cup {L + 1}
      BY <1>3, <2>2
    <3>2. Cardinality(AddsOf(s) \cup {L + 1}) = Cardinality(AddsOf(s)) + 1
      BY <1>4, <2>1, FS_AddElement
    <3> QED BY <2>2, <3>1, <3>2
  <2>3. CASE u.kind # "add"
    BY <1>3, <2>1, <2>3
  <2> QED BY <2>2, <2>3
<1>6. SettlesOf(s) \in SUBSET SettlesOf(t)
  BY <1>1, <1>2 DEF SettlesOf
<1>7. Len(t) \in Nat
  BY <1>1, <1>2
<1>8. Cardinality(SettlesOf(s)) <= Cardinality(SettlesOf(t))
  BY <1>6, <1>7, Counts, FS_Subset
<1> QED BY <1>1, <1>5, <1>7, <1>8, Counts

\* The commitments of an end are covered by its logs.
LEMMA InRange ==
    ASSUME IInv, NEW n \in Nodes
    PROVE  /\ tail[n].own \in 0 .. Len(log[n]) /\ Tip(n).own \in 0 .. Len(log[n])
           /\ local[n].own \in 0 .. Len(log[n])
           /\ tail[n].their \in 0 .. Len(rlog[n]) /\ Tip(n).their \in 0 .. Len(rlog[n])
           /\ local[n].their \in 0 .. Len(rlog[n])
           /\ log[n] \in Seq(UpdateType) /\ rlog[n] \in Seq(UpdateType)
           /\ Len(log[n]) \in Nat /\ Len(rlog[n]) \in Nat
<1>1. /\ local[n].own \in Nat /\ tail[n].own \in Nat /\ Tip(n).own \in Nat /\ Len(log[n]) \in Nat
      /\ local[n].their \in Nat /\ tail[n].their \in Nat /\ Tip(n).their \in Nat
      /\ Len(rlog[n]) \in Nat /\ log[n] \in Seq(UpdateType) /\ rlog[n] \in Seq(UpdateType)
  BY EndFacts, CommitFacts
<1>2. /\ local[n].own <= tail[n].own /\ tail[n].own <= Tip(n).own /\ Tip(n).own <= Len(log[n])
      /\ tail[n].their <= Tip(n).their /\ Tip(n).their <= local[n].their
      /\ local[n].their <= Len(rlog[n])
  BY EndFacts
<1>3. /\ tail[n].own \in 0 .. Len(log[n]) /\ Tip(n).own \in 0 .. Len(log[n])
      /\ local[n].own \in 0 .. Len(log[n])
  BY <1>1, <1>2
<1>4. local[n].their \in 0 .. Len(rlog[n])
  BY <1>1, <1>2
<1>5. Tip(n).their \in 0 .. Len(rlog[n])
  BY <1>1, <1>2
<1>6. tail[n].their \in 0 .. Len(rlog[n])
  BY <1>1, <1>2
<1> QED BY <1>1, <1>3, <1>4, <1>5, <1>6

\* What a link's step does to the logs and commitments of its end.
Sent(a, u) ==
    /\ u \in UpdateType /\ log' = [log EXCEPT ![a] = Append(@, u)]
    /\ u.kind = "add" => Balance(Start(a), log[a], Take(rlog[a], local[a].their)) > 0
    /\ u.kind = "rm" => u.payload \in Outcomes
    /\ UNCHANGED <<rlog, local, tail, pending>>
Got(a, u) ==
    /\ u \in UpdateType /\ rlog' = [rlog EXCEPT ![a] = Append(@, u)]
    /\ UNCHANGED <<log, local, tail, pending>>
Acked(a, c) ==
    /\ Receives(a, "commit_sig")
    /\ c.height = local[a].height + 1 /\ c.own = tail[a].own /\ c.their = Len(rlog[a])
    /\ local' = [local EXCEPT ![a] = c]
    /\ UNCHANGED <<log, rlog, tail, pending>>
Advanced(a) ==
    /\ pending[a] # none /\ tail' = [tail EXCEPT ![a] = pending[a]]
    /\ pending' = [pending EXCEPT ![a] = none] /\ UNCHANGED <<log, rlog, local>>
SignedNext(a) ==
    /\ pending' = [pending EXCEPT ![a] = NextCommit(a)] /\ UNCHANGED <<log, rlog, local, tail>>
Idle == UNCHANGED <<log, rlog, local, tail, pending>>

\* A link does nothing else to them.
LEMMA LinkEffect ==
    ASSUME IInv, NEW a \in Nodes, Link(a)
    PROVE  \/ \E u : Sent(a, u) \/ Got(a, u) \/ Acked(a, u)
           \/ Advanced(a) \/ SignedNext(a) \/ Idle
<1>1. ASSUME NEW e, Fail(a, e) PROVE Idle
  BY <1>1 DEF Fail, disk, Idle
<1>2. ASSUME NEW p \in Payloads, AddHTLC(a, p),
             Balance(Start(a), log[a], Take(rlog[a], local[a].their)) > 0
      PROVE  \E u : Sent(a, u)
  <2>1. PICK u : u = [kind |-> "add", id |-> htlcCounter(log[a]), payload |-> p]
    OBVIOUS
  <2>2. htlcCounter(log[a]) \in Nat
    BY EndFacts, CounterType
  <2>3. u \in UpdateType /\ u.kind = "add"
    BY <2>1, <2>2 DEF UpdateType
  <2>4. log' = [log EXCEPT ![a] = Append(@, u)] /\ UNCHANGED <<rlog, local, tail, pending>>
    BY <1>2, <2>1 DEF AddHTLC, sendUpdate, disk
  <2> QED BY <1>2, <2>3, <2>4 DEF Sent
<1>3. ASSUME NEW id \in 0 .. MaxUpdates, NEW o \in Outcomes, RemoveHTLC(a, id, o)
      PROVE  \E u : Sent(a, u)
  <2>1. PICK u : u = [kind |-> "rm", id |-> id, payload |-> o]
    OBVIOUS
  <2>2. u \in UpdateType /\ u.kind = "rm" /\ u.payload = o
    BY <2>1, BoundsAssumption DEF UpdateType
  <2>3. log' = [log EXCEPT ![a] = Append(@, u)] /\ UNCHANGED <<rlog, local, tail, pending>>
    BY <1>3, <2>1 DEF RemoveHTLC, sendUpdate, disk
  <2> QED BY <2>2, <2>3 DEF Sent
<1>4. updateCommitTx(a) \/ BatchTick(a) => SignedNext(a) \/ Idle
  BY DEF updateCommitTx, BatchTick, signNextCommitment, disk, SignedNext, Idle
<1>5. ReceiveUpdate(a) => Idle \/ \E u : Got(a, u)
  <2> SUFFICES ASSUME ReceiveUpdate(a) PROVE Idle \/ \E u : Got(a, u)
    OBVIOUS
  <2>1. net[a] \in Seq(MessageType) /\ net[a] # <<>> /\ Head(net[a]).type = "update"
    BY EndFacts DEF ReceiveUpdate, Receives
  <2>2. PICK msg \in MessageType : msg = Head(net[a])
    BY <2>1, TailFacts
  <2>3. msg.update \in UpdateType
    BY <2>1, <2>2 DEF MessageType
  <2>4. CASE Fail(a, "ErrInvalidUpdate")
    BY <1>1, <2>4
  <2>5. CASE /\ rlog' = [rlog EXCEPT ![a] = Append(@, msg.update)]
             /\ UNCHANGED <<log, disk, mustSign, synced, up, drops, failed>>
    BY <2>3, <2>5 DEF Got, disk
  <2> QED BY <2>2, <2>4, <2>5 DEF ReceiveUpdate
<1>6. ReceiveCommitSig(a) => Idle \/ \E c : Acked(a, c)
  <2> SUFFICES ASSUME ReceiveCommitSig(a) PROVE Idle \/ \E c : Acked(a, c)
    OBVIOUS
  <2>1. PICK c : c = Commit(local[a].height + 1, tail[a].own, Len(rlog[a]))
    OBVIOUS
  <2>2. /\ c.height = local[a].height + 1 /\ c.own = tail[a].own /\ c.their = Len(rlog[a])
        /\ Receives(a, "commit_sig")
    BY <2>1 DEF Commit, ReceiveCommitSig
  <2>3. CASE Fail(a, "ErrInvalidCommitment")
    BY <1>1, <2>3
  <2>4. CASE local' = [local EXCEPT ![a] = c] /\ UNCHANGED <<log, rlog, tail, pending>>
    BY <2>2, <2>4 DEF Acked
  <2> QED BY <2>1, <2>3, <2>4 DEF ReceiveCommitSig
<1>7. ReceiveRevocation(a) => Advanced(a) \/ Idle
  BY <1>1 DEF ReceiveRevocation, Advanced
<1>8. ProcessChanSyncMsg(a) => SignedNext(a) \/ Idle
  BY <1>1 DEF ProcessChanSyncMsg, SignedNext, Idle
<1>9. \/ \E p \in Payloads : /\ AddHTLC(a, p)
                             /\ Balance(Start(a), log[a], Take(rlog[a], local[a].their)) > 0
      \/ \E id \in 0 .. MaxUpdates, o \in Outcomes : RemoveHTLC(a, id, o)
      \/ Handle(a) \/ updateCommitTx(a) \/ BatchTick(a)
  BY DEF Link
<1> QED BY <1>2, <1>3, <1>4, <1>5, <1>6, <1>7, <1>8, <1>9 DEF Handle

\* What a commitment includes of a log stays the same while the log grows.
LEMMA PrefixKept ==
    ASSUME IInv, NEW n \in Nodes, NEW own \in 0 .. Len(log[n]), NEW their \in 0 .. Len(rlog[n]),
           \/ log'[n] = log[n] \/ \E u \in UpdateType : log'[n] = Append(log[n], u),
           \/ rlog'[n] = rlog[n] \/ \E u \in UpdateType : rlog'[n] = Append(rlog[n], u)
    PROVE  /\ Take(log'[n], own) = Take(log[n], own)
           /\ Take(rlog'[n], their) = Take(rlog[n], their)
<1>1. log[n] \in Seq(UpdateType) /\ rlog[n] \in Seq(UpdateType)
  BY EndFacts
<1>2. Take(log'[n], own) = Take(log[n], own)
  <2>1. ASSUME NEW u \in UpdateType, log'[n] = Append(log[n], u)
        PROVE  Take(log'[n], own) = Take(log[n], own)
    <3>1. \A j \in 0 .. Len(log[n]) : Take(Append(log[n], u), j) = Take(log[n], j)
      BY <1>1, AppendFacts
    <3> QED BY <2>1, <3>1
  <2>2. CASE log'[n] = log[n]
    BY <2>2
  <2> QED BY <2>1, <2>2
<1>3. Take(rlog'[n], their) = Take(rlog[n], their)
  <2>1. ASSUME NEW u \in UpdateType, rlog'[n] = Append(rlog[n], u)
        PROVE  Take(rlog'[n], their) = Take(rlog[n], their)
    <3>1. \A j \in 0 .. Len(rlog[n]) : Take(Append(rlog[n], u), j) = Take(rlog[n], j)
      BY <1>1, AppendFacts
    <3> QED BY <2>1, <3>1
  <2>2. CASE rlog'[n] = rlog[n]
    BY <2>2
  <2> QED BY <2>1, <2>2
<1> QED BY <1>2, <1>3

\* An end whose logs only grew affords what it afforded.
LEMMA AffordKept ==
    ASSUME IInv, NEW n \in Nodes, NEW own \in 0 .. Len(log[n]), NEW their \in 0 .. Len(rlog[n]),
           \/ log'[n] = log[n] \/ \E u \in UpdateType : log'[n] = Append(log[n], u),
           \/ rlog'[n] = rlog[n] \/ \E u \in UpdateType : rlog'[n] = Append(rlog[n], u),
           Afford(n, own, their)
    PROVE  Balance(Start(n), Take(log'[n], own), Take(rlog'[n], their)) >= 0
BY PrefixKept DEF Afford

\* An HTLC is added out of a positive balance, a removal costs nothing.
LEMMA SentFunded ==
    ASSUME IInv, Funded, NEW a \in Nodes, NEW u, Sent(a, u)
    PROVE  FundedAt(a)'
<1>1. PICK s, t, L : /\ s = log[a] /\ t = Take(rlog[a], local[a].their) /\ L = Len(s)
                     /\ s \in Seq(UpdateType) /\ L \in Nat /\ t \in Seq(UpdateType) /\ Len(t) \in Nat
  <2>1. /\ log[a] \in Seq(UpdateType) /\ rlog[a] \in Seq(UpdateType) /\ Len(log[a]) \in Nat
        /\ local[a].their \in 0 .. Len(rlog[a]) /\ local[a].their \in Nat
    BY InRange
  <2>2. /\ Take(rlog[a], local[a].their) \in Seq(UpdateType)
        /\ Len(Take(rlog[a], local[a].their)) = local[a].their
    BY <2>1, TakeFacts
  <2> QED BY <2>1, <2>2
<1>2. /\ u \in UpdateType /\ log'[a] = Append(s, u) /\ rlog' = rlog /\ local' = local
      /\ tail' = tail /\ pending' = pending
  BY <1>1 DEF Sent, IInv, TypeOK
<1>3. PICK r : /\ r = log'[a] /\ Len(r) = L + 1 /\ r[L + 1] = u
               /\ \A i \in 1 .. L : r[i] = s[i]
               /\ Take(r, L + 1) = Append(s, u)
  <2>1. /\ Append(s, u) \in Seq(UpdateType) /\ Len(Append(s, u)) = L + 1
        /\ Append(s, u)[L + 1] = u /\ \A i \in 1 .. L : Append(s, u)[i] = s[i]
    BY <1>1, <1>2, AppendFacts
  <2>2. Take(Append(s, u), Len(Append(s, u))) = Append(s, u)
    BY <2>1, TakeAll
  <2> QED BY <1>2, <2>1, <2>2
<1>4. \A i \in 1 .. Len(r) : r[i].kind = "rm" => r[i].payload \in Outcomes
  <2>1. \A i \in 1 .. L : s[i].kind = "rm" => s[i].payload \in Outcomes
    BY <1>1 DEF Funded, FundedAt
  <2>2. \A i \in 1 .. Len(r) : i \in 1 .. L \/ i = L + 1
    BY <1>1, <1>3
  <2> QED BY <1>3, <2>1, <2>2 DEF Sent
<1>5. Start(a) \in Int
  BY CloseAssumption DEF Start
<1>6. /\ htlcCounter(s) \in Nat /\ Settled(s) \in Nat /\ FailedBack(t) \in Nat
      /\ Settled(Append(s, u)) \in Nat
      /\ htlcCounter(Append(s, u)) = htlcCounter(s) + (IF u.kind = "add" THEN 1 ELSE 0)
      /\ Settled(Append(s, u)) >= Settled(s)
  <2>1. Len(Append(s, u)) \in Nat
    BY <1>1, <1>2, AppendFacts
  <2> QED BY <1>1, <1>2, <2>1, Counts, CountAppend
<1>7. Balance(Start(a), Append(s, u), t) >= 0
  <2>1. Balance(Start(a), s, t) >= 0
    <3>1. L \in 0 .. L /\ Take(s, L) = s
      BY <1>1, TakeAll
    <3> QED BY <1>1, <3>1 DEF Funded, FundedAt, Afford
  <2>2. CASE u.kind = "add"
    <3>1. Balance(Start(a), s, t) > 0
      BY <1>1, <2>2 DEF Sent
    <3> QED BY <1>5, <1>6, <2>2, <3>1 DEF Balance
  <2>3. CASE u.kind # "add"
    BY <1>5, <1>6, <2>1, <2>3 DEF Balance
  <2> QED BY <2>2, <2>3
<1>8. ASSUME NEW k \in 0 .. Len(r)
      PROVE  Balance(Start(a), Take(log'[a], k), Take(rlog'[a], local'[a].their)) >= 0
  <2>1. CASE k = L + 1
    BY <1>1, <1>2, <1>3, <1>7, <2>1
  <2>2. CASE k # L + 1
    <3>1. k \in 0 .. Len(log[a])
      BY <1>1, <1>3, <2>2
    <3>2. Afford(a, k, local[a].their)
      BY <3>1 DEF Funded, FundedAt
    <3> QED BY <1>1, <1>2, <3>1, <3>2, InRange, AffordKept
  <2> QED BY <2>1, <2>2
<1>9. \A c \in {tail[a], Tip(a)} : Balance(Start(a), Take(log'[a], c.own), Take(rlog'[a], c.their)) >= 0
  <2> SUFFICES ASSUME NEW c \in {tail[a], Tip(a)}
               PROVE  Balance(Start(a), Take(log'[a], c.own), Take(rlog'[a], c.their)) >= 0
    OBVIOUS
  <2>1. /\ c.own \in 0 .. Len(log[a]) /\ c.their \in 0 .. Len(rlog[a]) /\ Afford(a, c.own, c.their)
    BY InRange DEF Funded, FundedAt
  <2> QED BY <1>1, <1>2, <2>1, AffordKept
<1>10. tail'[a] = tail[a] /\ Tip(a)' = Tip(a)
  BY <1>2 DEF Tip
<1> QED BY <1>3, <1>4, <1>8, <1>9, <1>10 DEF FundedAt, Afford, Start, Balance

\* The other steps of a link, and the end that takes none.
LEMMA OtherFunded ==
    ASSUME IInv, Funded, NEW n \in Nodes, log'[n] = log[n],
           \/ rlog'[n] = rlog[n] \/ \E u \in UpdateType : rlog'[n] = Append(rlog[n], u),
           local'[n].their = local[n].their \/ (local'[n].their = Len(rlog[n]) /\ rlog'[n] = rlog[n]),
           tail'[n] \in {tail[n], Tip(n)},
           Tip(n)' = Tip(n) \/ (Tip(n)'.own = Len(log[n]) /\ Tip(n)'.their = local[n].their)
    PROVE  FundedAt(n)'
<1>1. FundedAt(n)
  BY DEF Funded
<1>2. \A c \in {tail[n], Tip(n)} : Balance(Start(n), Take(log'[n], c.own), Take(rlog'[n], c.their)) >= 0
  <2> SUFFICES ASSUME NEW c \in {tail[n], Tip(n)}
               PROVE  Balance(Start(n), Take(log'[n], c.own), Take(rlog'[n], c.their)) >= 0
    OBVIOUS
  <2>1. /\ c.own \in 0 .. Len(log[n]) /\ c.their \in 0 .. Len(rlog[n]) /\ Afford(n, c.own, c.their)
    BY <1>1, InRange DEF FundedAt
  <2> QED BY <2>1, AffordKept
<1>3. ASSUME NEW k \in 0 .. Len(log[n])
      PROVE  Balance(Start(n), Take(log'[n], k), Take(rlog'[n], local[n].their)) >= 0
  <2>1. Afford(n, k, local[n].their) /\ local[n].their \in 0 .. Len(rlog[n])
    BY <1>1, InRange DEF FundedAt
  <2> QED BY <2>1, AffordKept
<1>4. ASSUME NEW k \in 0 .. Len(log[n]), local'[n].their = Len(rlog[n]), rlog'[n] = rlog[n]
      PROVE  Balance(Start(n), Take(log'[n], k), Take(rlog'[n], local'[n].their)) >= 0
  <2>1. PICK m, x : m = local[n].their /\ x = rlog[n]
    OBVIOUS
  <2>2. /\ m \in 0 .. Len(x) /\ x \in Seq(UpdateType) /\ Len(x) \in Nat /\ m \in Nat
        /\ log[n] \in Seq(UpdateType)
    BY <2>1, InRange
  <2>3. FailedBack(Take(x, m)) <= FailedBack(Take(x, Len(x)))
    BY <2>2, CountTake
  <2>4. /\ Len(Take(log[n], k)) \in Nat /\ Len(Take(x, m)) \in Nat /\ Len(Take(x, Len(x))) \in Nat
    <3>1. Len(x) \in 0 .. Len(x) /\ k \in Nat
      BY <2>2
    <3> QED BY <2>2, <3>1, TakeFacts
  <2>5. /\ htlcCounter(Take(log[n], k)) \in Nat /\ Settled(Take(log[n], k)) \in Nat
        /\ FailedBack(Take(x, m)) \in Nat /\ FailedBack(Take(x, Len(x))) \in Nat
    BY <2>4, Counts
  <2>6. Balance(Start(n), Take(log[n], k), Take(x, m)) >= 0
    BY <1>3, <1>4, <2>1
  <2>7. Start(n) \in Int
    BY CloseAssumption DEF Start
  <2>8. Balance(Start(n), Take(log[n], k), Take(x, Len(x))) >= 0
    BY <2>3, <2>5, <2>6, <2>7 DEF Balance
  <2> QED BY <1>4, <2>1, <2>8
<1>5. \A k \in 0 .. Len(log'[n]) : Balance(Start(n), Take(log'[n], k), Take(rlog'[n], local'[n].their)) >= 0
  BY <1>3, <1>4
<1>6. /\ Balance(Start(n), Take(log'[n], tail'[n].own), Take(rlog'[n], tail'[n].their)) >= 0
  BY <1>2
<1>7. Balance(Start(n), Take(log'[n], Tip(n)'.own), Take(rlog'[n], Tip(n)'.their)) >= 0
  <2>1. CASE Tip(n)' = Tip(n)
    BY <1>2, <2>1
  <2>2. CASE Tip(n)'.own = Len(log[n]) /\ Tip(n)'.their = local[n].their
    <3>1. Len(log[n]) \in 0 .. Len(log[n])
      BY InRange
    <3> QED BY <1>3, <2>2, <3>1
  <2> QED BY <2>1, <2>2
<1>8. \A i \in 1 .. Len(log'[n]) : log'[n][i].kind = "rm" => log'[n][i].payload \in Outcomes
  BY <1>1 DEF FundedAt
<1> QED BY <1>5, <1>6, <1>7, <1>8 DEF FundedAt, Afford, Start, Balance

\* No step overspends.
LEMMA FundedStep == IInv /\ Funded /\ [EvmNext]_evmVars => Funded'
<1> SUFFICES ASSUME IInv, Funded, [EvmNext]_evmVars, NEW n \in Nodes PROVE FundedAt(n)'
  BY DEF Funded
<1>1. /\ log \in [Nodes -> Seq(UpdateType)] /\ rlog \in [Nodes -> Seq(UpdateType)]
      /\ local \in [Nodes -> CommitType] /\ tail \in [Nodes -> CommitType]
      /\ pending \in [Nodes -> CommitType \cup {none}]
  BY DEF IInv, TypeOK
<1>2. ASSUME UNCHANGED <<log, rlog, local, tail, pending>> PROVE FundedAt(n)'
  <2>1. Tip(n)' = Tip(n)
    BY <1>2 DEF Tip
  <2> QED BY <1>2, <2>1, OtherFunded
<1>3. ASSUME NEW a \in Nodes, Link(a) PROVE FundedAt(n)'
  <2>1. CASE Idle
    BY <1>2, <2>1 DEF Idle
  <2>2. ASSUME NEW u, Sent(a, u) PROVE FundedAt(n)'
    <3>1. CASE n = a
      BY <2>2, <3>1, SentFunded
    <3>2. CASE n # a
      <4>1. log'[n] = log[n] /\ rlog'[n] = rlog[n] /\ local'[n] = local[n] /\ tail'[n] = tail[n]
            /\ Tip(n)' = Tip(n)
        BY <1>1, <2>2, <3>2 DEF Sent, Tip
      <4> QED BY <4>1, OtherFunded
    <3> QED BY <3>1, <3>2
  <2>3. ASSUME NEW u, Got(a, u) PROVE FundedAt(n)'
    <3>1. /\ log'[n] = log[n] /\ local'[n] = local[n] /\ tail'[n] = tail[n] /\ Tip(n)' = Tip(n)
          /\ rlog'[n] = rlog[n] \/ rlog'[n] = Append(rlog[n], u)
          /\ u \in UpdateType
      BY <1>1, <2>3 DEF Got, Tip
    <3> QED BY <3>1, OtherFunded
  <2>4. ASSUME NEW c, Acked(a, c) PROVE FundedAt(n)'
    <3>1. /\ log'[n] = log[n] /\ rlog'[n] = rlog[n] /\ tail'[n] = tail[n] /\ Tip(n)' = Tip(n)
          /\ local'[n].their = local[n].their \/ local'[n].their = Len(rlog[n])
      BY <1>1, <2>4 DEF Acked, Tip
    <3> QED BY <3>1, OtherFunded
  <2>5. CASE Advanced(a)
    <3>1. /\ log'[n] = log[n] /\ rlog'[n] = rlog[n] /\ local'[n] = local[n]
          /\ tail'[n] \in {tail[n], Tip(n)} /\ Tip(n)' = Tip(n)
      BY <1>1, <2>5 DEF Advanced, Tip
    <3> QED BY <3>1, OtherFunded
  <2>6. CASE SignedNext(a)
    <3>1. NextCommit(a).own = Len(log[a]) /\ NextCommit(a).their = local[a].their /\ NextCommit(a) # none
      <4>1. /\ tail[a].height + 1 \in Nat /\ Len(log[a]) \in Nat /\ local[a].their \in Nat
        BY EndFacts, CommitFacts
      <4>2. PICK h, l, k, c : /\ h = tail[a].height + 1 /\ l = Len(log[a]) /\ k = local[a].their
                              /\ c = Commit(h, l, k)
        OBVIOUS
      <4>3. c \in CommitType /\ c.own = l /\ c.their = k
        <5>1. h \in Nat /\ l \in Nat /\ k \in Nat
          BY <4>1, <4>2
        <5>2. c = Commit(h, l, k)
          BY <4>2
        <5> QED BY <5>1, <5>2, CommitMade
      <4>4. c # none
        BY <4>3, CommitFacts
      <4> QED BY <4>2, <4>3, <4>4 DEF NextCommit
    <3>2. /\ log'[n] = log[n] /\ rlog'[n] = rlog[n] /\ local'[n] = local[n] /\ tail'[n] = tail[n]
      BY <2>6 DEF SignedNext
    <3>3. Tip(n)' = Tip(n) \/ (Tip(n)'.own = Len(log[n]) /\ Tip(n)'.their = local[n].their)
      BY <1>1, <2>6, <3>1 DEF SignedNext, Tip
    <3> QED BY <3>2, <3>3, OtherFunded
  <2> QED BY <1>3, <2>1, <2>2, <2>3, <2>4, <2>5, <2>6, LinkEffect
<1>4. ASSUME NEW a \in Nodes, ForceClose(a) \/ handleEvmSpend(a) \/ Settle(a) \/ Mine(a)
      PROVE  UNCHANGED linkVars
  BY <1>4 DEF ForceClose, handleEvmSpend, Settle, resolveHtlc, distribute, Mine
<1>5. Block \/ UNCHANGED evmVars => UNCHANGED linkVars
  BY DEF Block, evmVars
<1>6. UNCHANGED linkVars => UNCHANGED <<log, rlog, local, tail, pending>>
  BY DEF linkVars
<1> QED BY <1>2, <1>3, <1>4, <1>5, <1>6 DEF EvmNext

\* The channel opens with what each end put in.
LEMMA FundedInit == EvmInit => Funded
<1> SUFFICES ASSUME EvmInit, NEW n \in Nodes PROVE FundedAt(n)
  BY DEF Funded
<1>1. IInv
  BY InitInv DEF EvmInit
<1>2. /\ log[n] = <<>> /\ rlog[n] = <<>> /\ local[n] = Commit(0, 0, 0) /\ tail[n] = Commit(0, 0, 0)
      /\ pending[n] = none
  BY DEF EvmInit, Init
<1>3. Len(log[n]) = 0 /\ Tip(n) = tail[n]
  BY <1>2, EmptySeq DEF Tip
<1>4. /\ local[n].own = 0 /\ local[n].their = 0 /\ tail[n].own = 0 /\ tail[n].their = 0
  BY <1>2 DEF Commit
<1>5. Take(log[n], 0) = <<>> /\ Take(rlog[n], 0) = <<>>
  <2>1. <<>> \in Seq(UpdateType) /\ Len(<<>>) = 0
    BY EmptySeq
  <2>2. Take(<<>>, Len(<<>>)) = <<>>
    BY <2>1, TakeAll
  <2> QED BY <1>2, <2>1, <2>2
<1>6. htlcCounter(<<>>) = 0 /\ Settled(<<>>) = 0 /\ FailedBack(<<>>) = 0
  <2>1. Len(<<>>) = 0
    BY EmptySeq
  <2>2. AddsOf(<<>>) = {} /\ SettlesOf(<<>>) = {} /\ FailsOf(<<>>) = {}
    BY <2>1 DEF AddsOf, SettlesOf, FailsOf
  <2> QED BY <2>1, <2>2, Counts, FS_EmptySet
<1>7. Start(n) >= 0 /\ Start(n) \in Int
  BY CloseAssumption DEF Start
<1>8. Afford(n, 0, 0)
  BY <1>5, <1>6, <1>7 DEF Afford, Balance
<1>9. \A k \in 0 .. Len(log[n]) : k = 0
  BY <1>3
<1> QED BY <1>3, <1>4, <1>8, <1>9 DEF FundedAt
-----------------------------------------------------------------------------
\* Two logs of one commitment: every HTLC has an id of its own, and every
\* removal names an HTLC that was offered, each a different one.
Consistent(o, t) ==
    /\ \A i, j \in AddsOf(o) : o[i].id = o[j].id => i = j
    /\ \A i, j \in 1 .. Len(t) :
          t[i].kind = "rm" /\ t[j].kind = "rm" /\ t[i].id = t[j].id => i = j
    /\ \A i \in 1 .. Len(t) : t[i].kind = "rm" => Offered(o, t[i].id) /\ t[i].payload \in Outcomes

RemovalsOf(t) == {j \in 1 .. Len(t) : t[j].kind = "rm"}

\* As many removals as removed HTLCs.
LEMMA RemovalCount ==
    ASSUME NEW o, NEW t, Len(o) \in Nat, Len(t) \in Nat, Consistent(o, t)
    PROVE  /\ IsFiniteSet(Active(o, t))
           /\ Cardinality(Active(o, t)) = htlcCounter(o) - Settled(t) - FailedBack(t)
<1>1. PICK A, R, G : A = AddsOf(o) /\ R = RemovalsOf(t) /\ G = {i \in A : Removed(t, o[i].id)}
  OBVIOUS
<1>2. IsFiniteSet(A) /\ IsFiniteSet(R) /\ IsFiniteSet(G) /\ Cardinality(A) = htlcCounter(o)
  <2>1. IsFiniteSet(A) /\ Cardinality(A) = htlcCounter(o)
    BY <1>1, Counts
  <2>2. IsFiniteSet(1 .. Len(t)) /\ R \in SUBSET (1 .. Len(t))
    BY <1>1, FS_Interval DEF RemovalsOf
  <2>3. G \in SUBSET A
    BY <1>1
  <2> QED BY <2>1, <2>2, <2>3, FS_Subset
<1>3. Cardinality(R) = Settled(t) + FailedBack(t)
  <2>1. R = SettlesOf(t) \cup FailsOf(t) /\ SettlesOf(t) \cap FailsOf(t) = {}
    BY <1>1 DEF RemovalsOf, SettlesOf, FailsOf, Consistent, Outcomes
  <2>2. /\ IsFiniteSet(SettlesOf(t)) /\ IsFiniteSet(FailsOf(t))
        /\ Settled(t) = Cardinality(SettlesOf(t)) /\ FailedBack(t) = Cardinality(FailsOf(t))
        /\ Settled(t) \in Nat /\ FailedBack(t) \in Nat
    BY Counts
  <2>3. Cardinality(SettlesOf(t) \cup FailsOf(t)) =
          Cardinality(SettlesOf(t)) + Cardinality(FailsOf(t)) - Cardinality(SettlesOf(t) \cap FailsOf(t))
    BY <2>2, FS_Union
  <2>4. Cardinality(SettlesOf(t) \cap FailsOf(t)) = 0
    BY <2>1, FS_EmptySet
  <2> QED BY <2>1, <2>2, <2>3, <2>4
<1>4. Cardinality(R) = Cardinality(G)
  <2>1. PICK f : f = [j \in R |-> CHOOSE i \in A : o[i].id = t[j].id]
    OBVIOUS
  <2>2. \A j \in R : f[j] \in A /\ o[f[j]].id = t[j].id
    <3> SUFFICES ASSUME NEW j \in R PROVE f[j] \in A /\ o[f[j]].id = t[j].id
      OBVIOUS
    <3>1. \E i \in A : o[i].id = t[j].id
      BY <1>1 DEF RemovalsOf, AddsOf, Consistent, Offered
    <3> QED BY <2>1, <3>1
  <2>3. \A j \in R : f[j] \in G
    BY <1>1, <2>2 DEF RemovalsOf, Removed
  <2>4. \A i \in G : \E j \in R : f[j] = i
    <3> SUFFICES ASSUME NEW i \in G PROVE \E j \in R : f[j] = i
      OBVIOUS
    <3>1. PICK j \in R : t[j].id = o[i].id
      BY <1>1 DEF RemovalsOf, Removed
    <3>2. f[j] = i
      BY <1>1, <2>2, <3>1 DEF Consistent
    <3> QED BY <3>2
  <2>5. \A j, k \in R : f[j] = f[k] => j = k
    BY <1>1, <2>2 DEF RemovalsOf, Consistent
  <2>6. f \in [R -> G]
    BY <2>1, <2>3
  <2>7. f \in Bijection(R, G)
    BY <2>4, <2>5, <2>6, Fun_IsBij
  <2>8. ExistsBijection(R, G)
    BY <2>7 DEF ExistsBijection
  <2> QED BY <1>2, <2>8, FS_Bijection
<1>5. Active(o, t) = A \ G /\ A \cap G = G
  BY <1>1 DEF Active, AddsOf
<1>6. /\ IsFiniteSet(A \ G) /\ Cardinality(A \ G) = Cardinality(A) - Cardinality(A \cap G)
  BY <1>2, FS_Difference
<1>7. htlcCounter(o) \in Nat /\ Settled(t) \in Nat /\ FailedBack(t) \in Nat
  BY Counts
<1>8. Cardinality(A \ G) = htlcCounter(o) - Cardinality(G)
  BY <1>2, <1>5, <1>6
<1>9. Cardinality(G) = Settled(t) + FailedBack(t)
  BY <1>3, <1>4
<1>10. Cardinality(A \ G) = htlcCounter(o) - Settled(t) - FailedBack(t)
  BY <1>7, <1>8, <1>9
<1> QED BY <1>5, <1>6, <1>10

\* One leaf per active HTLC.
LEMMA LeafCount ==
    ASSUME NEW o, NEW t, NEW r, Len(o) \in Nat, Len(t) \in Nat, Consistent(o, t)
    PROVE  /\ IsFiniteSet(EvmHTLCs(o, t, r))
           /\ Cardinality(EvmHTLCs(o, t, r)) = htlcCounter(o) - Settled(t) - FailedBack(t)
           /\ \A h \in EvmHTLCs(o, t, r) : h.recipient = r
<1> DEFINE leaf(i) == [index |-> o[i].id, amount |-> 1, hashlock |-> Sha256[o[i].payload],
                       timelock |-> evmHtlcTimelock(Cltv), recipient |-> r]
           A == Active(o, t)
           T == EvmHTLCs(o, t, r)
           f == [i \in A |-> leaf(i)]
<1>1. T = {leaf(i) : i \in A}
  BY DEF EvmHTLCs
<1>2. \A i \in A : leaf(i).index = o[i].id /\ leaf(i).recipient = r
  OBVIOUS
<1>3. \A i, j \in A : leaf(i) = leaf(j) => i = j
  <2> SUFFICES ASSUME NEW i \in A, NEW j \in A, leaf(i) = leaf(j) PROVE i = j
    OBVIOUS
  <2>1. o[i].id = o[j].id
    <3>1. leaf(i).index = leaf(j).index
      OBVIOUS
    <3> QED BY <1>2, <3>1
  <2>2. i \in AddsOf(o) /\ j \in AddsOf(o)
    BY DEF Active, AddsOf
  <2> QED BY <2>1, <2>2 DEF Consistent
<1>4. IsFiniteSet(A) /\ Cardinality(A) = htlcCounter(o) - Settled(t) - FailedBack(t)
  BY RemovalCount
<1> HIDE DEF A, T, leaf
<1>5. /\ f \in [A -> T] /\ \A x \in T : \E i \in A : f[i] = x
      /\ \A i, j \in A : f[i] = f[j] => i = j
  BY <1>1, <1>3
<1> HIDE DEF f
<1>6. f \in Bijection(A, T)
  BY <1>5, Fun_IsBij
<1>7. ExistsBijection(A, T)
  BY <1>6 DEF ExistsBijection
<1>8. IsFiniteSet(T) /\ Cardinality(T) = Cardinality(A)
  BY <1>4, <1>7, FS_Bijection
<1>9. \A h \in T : h.recipient = r
  BY <1>1, <1>2
<1> QED BY <1>4, <1>8, <1>9 DEF T

\* A log's HTLCs have different ids, and no HTLC is removed twice.
LEMMA LogIds ==
    ASSUME IInv, NEW n \in Nodes
    PROVE  /\ \A i, j \in AddsOf(log[n]) : log[n][i].id = log[n][j].id => i = j
           /\ \A i, j \in 1 .. Len(log[n]) :
                 log[n][i].kind = "rm" /\ log[n][j].kind = "rm" /\ log[n][i].id = log[n][j].id => i = j
           /\ \A i \in 1 .. Len(log[n]) : log[n][i].kind = "rm" =>
                 Offered(Take(rlog[n], tail[n].their), log[n][i].id)
<1>1. PICK s : s = log[n] /\ s \in Seq(UpdateType) /\ Len(s) \in Nat
  BY EndFacts
<1>2. ASSUME NEW k \in 1 .. Len(s)
      PROVE  /\ s[k].kind = "add" => s[k].id = htlcCounter(Take(s, k - 1))
             /\ s[k].kind = "rm" => Offered(fwd[n], s[k].id) /\ ~ Removed(Take(s, k - 1), s[k].id)
  BY <1>1 DEF IInv, EndInv, UpdateInv
<1>3. ASSUME NEW i \in 1 .. Len(s), NEW j \in 1 .. Len(s), i < j
      PROVE  /\ i \in AddsOf(s) /\ j \in AddsOf(s) => s[i].id # s[j].id
             /\ s[i].kind = "rm" /\ s[j].kind = "rm" => s[i].id # s[j].id
  <2>1. PICK a, b : a = Take(s, i - 1) /\ b = Take(s, j - 1)
    OBVIOUS
  <2>2. i - 1 \in 0 .. Len(s) /\ j - 1 \in 0 .. Len(s) /\ i \in 1 .. j - 1
    BY <1>1, <1>3
  <2>3. /\ Len(a) = i - 1 /\ \A x \in 1 .. i - 1 : a[x] = s[x]
        /\ Len(b) = j - 1 /\ \A x \in 1 .. j - 1 : b[x] = s[x]
    BY <1>1, <2>1, <2>2, TakeFacts
  <2>4. ASSUME i \in AddsOf(s), j \in AddsOf(s) PROVE s[i].id # s[j].id
    <3>1. s[i].kind = "add" /\ s[j].kind = "add"
      BY <2>4 DEF AddsOf
    <3>2. s[i].id = htlcCounter(a) /\ s[j].id = htlcCounter(b)
      BY <1>2, <2>1, <3>1
    <3>3. AddsOf(a) \in SUBSET AddsOf(b) /\ i \in AddsOf(b) /\ i \notin AddsOf(a)
      BY <2>2, <2>3, <3>1 DEF AddsOf
    <3>4. Len(a) \in Nat /\ Len(b) \in Nat
      BY <2>2, <2>3
    <3>5. Cardinality(AddsOf(b)) # Cardinality(AddsOf(a))
      BY <3>3, <3>4, Counts, FS_Subset
    <3> QED BY <3>2, <3>4, <3>5, Counts
  <2>5. ASSUME s[i].kind = "rm", s[j].kind = "rm" PROVE s[i].id # s[j].id
    <3>1. ~ Removed(b, s[j].id)
      BY <1>2, <2>1, <2>5
    <3>2. i \in 1 .. Len(b) /\ b[i] = s[i]
      BY <2>2, <2>3
    <3> QED BY <2>5, <3>1, <3>2 DEF Removed
  <2> QED BY <2>4, <2>5
<1>4. ASSUME NEW i \in 1 .. Len(s), NEW j \in 1 .. Len(s), i # j
      PROVE  /\ i \in AddsOf(s) /\ j \in AddsOf(s) => s[i].id # s[j].id
             /\ s[i].kind = "rm" /\ s[j].kind = "rm" => s[i].id # s[j].id
  <2>1. i < j \/ j < i
    BY <1>1, <1>4
  <2> QED BY <1>3, <2>1
<1>5. \A i, j \in AddsOf(s) : s[i].id = s[j].id => i = j
  BY <1>4 DEF AddsOf
<1>6. ASSUME NEW id, Offered(fwd[n], id) PROVE Offered(Take(rlog[n], tail[n].their), id)
  <2>1. PICK t : t = Take(rlog[n], tail[n].their) /\ t \in Seq(UpdateType)
    BY InRange, TakeFacts
  <2>2. fwd[n] = Forwarded(t)
    BY <2>1 DEF IInv, EndInv, ForwardInv
  <2>3. \A i \in 1 .. Len(Forwarded(t)) : \E j \in 1 .. Len(t) : Forwarded(t)[i] = t[j]
    BY <2>1, ForwardedElements
  <2>4. PICK i \in 1 .. Len(Forwarded(t)) : Forwarded(t)[i].kind = "add" /\ Forwarded(t)[i].id = id
    BY <1>6, <2>2 DEF Offered
  <2>5. PICK j \in 1 .. Len(t) : t[j].kind = "add" /\ t[j].id = id
    BY <2>3, <2>4
  <2> QED BY <2>1, <2>5 DEF Offered
<1>7. \A i \in 1 .. Len(s) : s[i].kind = "rm" => Offered(Take(rlog[n], tail[n].their), s[i].id)
  BY <1>2, <1>6
<1> QED BY <1>1, <1>4, <1>5, <1>7

\* TakeFacts, for every log and length.
LEMMA Beginning ==
    \A s \in Seq(UpdateType) : \A k \in 0 .. Len(s) :
        /\ Take(s, k) \in Seq(UpdateType) /\ Len(Take(s, k)) = k /\ k \in Nat
        /\ \A i \in 1 .. k : Take(s, k)[i] = s[i]
<1> SUFFICES ASSUME NEW s \in Seq(UpdateType), NEW k \in 0 .. Len(s)
             PROVE  /\ Take(s, k) \in Seq(UpdateType) /\ Len(Take(s, k)) = k /\ k \in Nat
                    /\ \A i \in 1 .. k : Take(s, k)[i] = s[i]
  OBVIOUS
<1> QED BY TakeFacts

\* The updates a commitment includes fit together.
LEMMA ConsistentTake ==
    ASSUME IInv, Funded, NEW n \in Nodes, NEW own \in 0 .. Len(log[n]),
           NEW x \in Seq(UpdateType),
           NEW m \in 0 .. Len(rlog[n]), tail[n].their <= m, x = Take(rlog[n], m),
           \A i, j \in AddsOf(x) : x[i].id = x[j].id => i = j
    PROVE  Consistent(x, Take(log[n], own))
<1>1. /\ log[n] \in Seq(UpdateType) /\ Len(log[n]) \in Nat /\ own \in Nat
      /\ rlog[n] \in Seq(UpdateType) /\ Len(rlog[n]) \in Nat /\ m \in Nat
      /\ tail[n].their \in 0 .. Len(rlog[n]) /\ tail[n].their \in Nat
  BY InRange
<1>2. PICK t : /\ t = Take(log[n], own) /\ Len(t) = own
               /\ \A i \in 1 .. own : t[i] = log[n][i] /\ i \in 1 .. Len(log[n])
  <2>1. Len(Take(log[n], own)) = own /\ \A i \in 1 .. own : Take(log[n], own)[i] = log[n][i]
    BY <1>1, Beginning
  <2>2. \A i \in 1 .. own : i \in 1 .. Len(log[n])
    BY <1>1
  <2> QED BY <2>1, <2>2
<1>3. \A i, j \in 1 .. Len(t) : t[i].kind = "rm" /\ t[j].kind = "rm" /\ t[i].id = t[j].id => i = j
  BY <1>2, LogIds
<1>4. ASSUME NEW id, Offered(Take(rlog[n], tail[n].their), id) PROVE Offered(x, id)
  <2>1. PICK r, l : r = rlog[n] /\ l = tail[n].their
    OBVIOUS
  <2>2. /\ Len(Take(r, l)) = l /\ \A i \in 1 .. l : Take(r, l)[i] = r[i]
    <3>1. r \in Seq(UpdateType) /\ l \in 0 .. Len(r)
      BY <1>1, <2>1
    <3> QED BY <3>1, Beginning
  <2>3. /\ Len(x) = m /\ \A i \in 1 .. m : x[i] = r[i]
    BY <1>1, <2>1, Beginning
  <2>4. PICK i \in 1 .. l : r[i].kind = "add" /\ r[i].id = id
    BY <1>4, <2>1, <2>2 DEF Offered
  <2>5. i \in 1 .. m
    BY <1>1, <2>1, <2>4
  <2> QED BY <2>3, <2>4, <2>5 DEF Offered
<1>5. \A i \in 1 .. Len(t) : t[i].kind = "rm" => Offered(x, t[i].id) /\ t[i].payload \in Outcomes
  <2> SUFFICES ASSUME NEW i \in 1 .. Len(t), t[i].kind = "rm"
               PROVE  Offered(x, t[i].id) /\ t[i].payload \in Outcomes
    OBVIOUS
  <2>1. i \in 1 .. Len(log[n]) /\ log[n][i] = t[i]
    BY <1>1, <1>2
  <2>2. Offered(Take(rlog[n], tail[n].their), t[i].id)
    BY <2>1, LogIds
  <2>3. t[i].payload \in Outcomes
    BY <2>1 DEF Funded, FundedAt
  <2> QED BY <1>4, <2>2, <2>3
<1> QED BY <1>2, <1>3, <1>5 DEF Consistent

\* The beginning of a log has ids as different.
LEMMA PrefixIds ==
    ASSUME IInv, NEW n \in Nodes
    PROVE  \A k \in 0 .. Len(log[n]) :
             /\ Take(log[n], k) \in Seq(UpdateType) /\ Len(Take(log[n], k)) \in Nat
             /\ \A i, j \in AddsOf(Take(log[n], k)) :
                   Take(log[n], k)[i].id = Take(log[n], k)[j].id => i = j
<1> SUFFICES ASSUME NEW k \in 0 .. Len(log[n])
             PROVE  /\ Take(log[n], k) \in Seq(UpdateType) /\ Len(Take(log[n], k)) \in Nat
                    /\ \A i, j \in AddsOf(Take(log[n], k)) :
                          Take(log[n], k)[i].id = Take(log[n], k)[j].id => i = j
  OBVIOUS
<1>1. log[n] \in Seq(UpdateType) /\ Len(log[n]) \in Nat /\ k \in Nat
  BY InRange
<1>2. PICK x : /\ x = Take(log[n], k)
               /\ x \in Seq(UpdateType) /\ Len(x) = k /\ \A i \in 1 .. k : x[i] = log[n][i]
  BY <1>1, Beginning
<1>3. \A i \in AddsOf(x) : i \in AddsOf(log[n]) /\ x[i] = log[n][i]
  BY <1>1, <1>2 DEF AddsOf
<1> QED BY <1>1, <1>2, <1>3, LogIds

\* The two logs of a local commitment fit together, both ways.
LEMMA Fitting ==
    ASSUME IInv, Funded, NEW n \in Nodes, NEW o, NEW t,
           o = Take(log[n], local[n].own), t = Take(rlog[n], local[n].their)
    PROVE  /\ Consistent(o, t) /\ Consistent(t, o) /\ Len(o) \in Nat /\ Len(t) \in Nat
<1>1. PICK p \in Nodes : p = Peer(n)
  BY PeerFacts
<1>2. PICK c \in {tail[p], Tip(p)} :
             /\ c.own = local[n].their /\ c.their = local[n].own
             /\ Take(log[p], c.own) = t /\ Take(rlog[p], c.their) = o
  BY <1>1, Mirrored
<1>3. /\ c.own \in 0 .. Len(log[p]) /\ c.their \in 0 .. Len(rlog[p])
      /\ local[n].own \in 0 .. Len(log[n]) /\ local[n].their \in 0 .. Len(rlog[n])
  BY <1>2, InRange
<1>4. /\ o \in Seq(UpdateType) /\ Len(o) \in Nat
      /\ \A i, j \in AddsOf(o) : o[i].id = o[j].id => i = j
  BY <1>3, PrefixIds
<1>5. /\ t \in Seq(UpdateType) /\ Len(t) \in Nat
      /\ \A i, j \in AddsOf(t) : t[i].id = t[j].id => i = j
  <2>1. PICK k : k = c.own /\ k \in 0 .. Len(log[p]) /\ t = Take(log[p], k)
    BY <1>2, <1>3
  <2> QED BY <2>1, PrefixIds
<1>6. tail[p].their <= c.their
  <2>1. tail[p].their \in Nat /\ tail[p].their <= Tip(p).their
    BY EndFacts, CommitFacts
  <2> QED BY <1>2, <2>1
<1>7. tail[n].their <= local[n].their
  <2>1. /\ tail[n].their \in Nat /\ Tip(n).their \in Nat /\ local[n].their \in Nat
    BY EndFacts, CommitFacts
  <2>2. tail[n].their <= Tip(n).their /\ Tip(n).their <= local[n].their
    BY EndFacts
  <2> QED BY <2>1, <2>2
<1>8. Consistent(o, Take(log[p], c.own))
  BY <1>2, <1>3, <1>4, <1>6, ConsistentTake
<1>9. Consistent(t, Take(log[n], local[n].own))
  BY <1>3, <1>5, <1>7, ConsistentTake
<1> QED BY <1>2, <1>4, <1>5, <1>8, <1>9

\* The artifact of a commitment that includes the updates x of the initiator
\* and y of the responder, whichever end derives it.
Leaves(x, y) == EvmHTLCs(x, y, Responder) \cup EvmHTLCs(y, x, Initiator)
UpdateFor(h, x, y) ==
    [type |-> "StateUpdate", channelId |-> Chan, nonce |-> h,
     balanceA |-> evmBalanceSplit(Balance(PushAmount, y, x), Leaves(x, y))[1],
     balanceB |-> evmBalanceSplit(Balance(PushAmount, y, x), Leaves(x, y))[2],
     htlcs |-> Leaves(x, y)]

\* Either end derives that artifact from its own view.
LEMMA ArtifactOf ==
    ASSUME NEW n \in Nodes, NEW h, NEW o, NEW t
    PROVE  /\ ViewOf(n, h, o, t).htlcs = IF n = Initiator THEN Leaves(o, t) ELSE Leaves(t, o)
           /\ buildEvmStateUpdate(n, ViewOf(n, h, o, t)) =
                 IF n = Initiator THEN UpdateFor(h, o, t) ELSE UpdateFor(h, t, o)
<1>1. Initiator \in Nodes /\ Responder = Peer(Initiator)
  BY NodesAssumption DEF Responder
<1>2. CASE n = Initiator
  <2>1. EvmHTLCs(o, t, Peer(n)) \cup EvmHTLCs(t, o, n) = Leaves(o, t)
    BY <1>1, <1>2 DEF Leaves
  <2> QED BY <1>2, <2>1 DEF buildEvmStateUpdate, ViewOf, UpdateFor
<1>3. CASE n # Initiator
  <2>1. n = Responder /\ Peer(n) = Initiator
    BY <1>1, <1>3, PeerFacts
  <2>2. EvmHTLCs(o, t, Peer(n)) \cup EvmHTLCs(t, o, n) = Leaves(t, o)
    BY <2>1 DEF Leaves
  <2> QED BY <1>3, <2>2 DEF buildEvmStateUpdate, ViewOf, UpdateFor
<1> QED BY <1>2, <1>3

\* So the two ends derive the same one, over the same leaves.
LEMMA SameView ==
    ASSUME NEW n \in Nodes, NEW h, NEW o, NEW t
    PROVE  /\ ViewOf(Peer(n), h, t, o).htlcs = ViewOf(n, h, o, t).htlcs
           /\ buildEvmStateUpdate(Peer(n), ViewOf(Peer(n), h, t, o)) =
                 buildEvmStateUpdate(n, ViewOf(n, h, o, t))
<1>1. /\ Peer(n) \in Nodes /\ Peer(n) # n /\ Initiator \in Nodes
      /\ n = Initiator \/ Peer(n) = Initiator
  BY PeerFacts, NodesAssumption
<1> QED BY <1>1, ArtifactOf

\* Without a shared index the two ends sort the leaves alike.
LEMMA SameRoot ==
    ASSUME NEW n, NEW m, NEW hs, ~ SharedIndex(hs)
    PROVE  RootOf(n, hs) = RootOf(m, hs)
<1> DEFINE Before(k, h) == {g \in hs : \/ g.index < h.index
                                       \/ /\ g.index = h.index
                                          /\ g.recipient # k /\ h.recipient = k}
<1>1. ASSUME NEW h \in hs PROVE Before(n, h) = Before(m, h)
  BY <1>1 DEF SharedIndex
<1>2. Position(n, hs) = Position(m, hs)
  BY <1>1 DEF Position
<1> QED BY <1>2 DEF RootOf

\* What the initiator has, what the responder has and the HTLCs make up the
\* deposit, and none of them is negative.
LEMMA ArtifactWhole ==
    ASSUME NEW h, NEW x, NEW y, Len(x) \in Nat, Len(y) \in Nat, Consistent(x, y), Consistent(y, x),
           Balance(Start(Initiator), x, y) >= 0
    PROVE  Reconciles(UpdateFor(h, x, y))
<1>1. PICK P, Q : P = EvmHTLCs(x, y, Responder) /\ Q = EvmHTLCs(y, x, Initiator)
  OBVIOUS
<1>2. /\ IsFiniteSet(P) /\ Cardinality(P) = htlcCounter(x) - Settled(y) - FailedBack(y)
      /\ \A g \in P : g.recipient = Responder
  BY <1>1, LeafCount
<1>3. /\ IsFiniteSet(Q) /\ Cardinality(Q) = htlcCounter(y) - Settled(x) - FailedBack(x)
      /\ \A g \in Q : g.recipient = Initiator
  BY <1>1, LeafCount
<1>4. P \cap Q = {}
  <2>1. Initiator # Responder
    BY ChanFacts
  <2> QED BY <1>2, <1>3, <2>1
<1>5. Cardinality(P \cup Q) = Cardinality(P) + Cardinality(Q) - Cardinality(P \cap Q)
  BY <1>2, <1>3, FS_Union
<1>6. Cardinality(P \cap Q) = 0
  BY <1>4, FS_EmptySet
<1>7. PICK ax, sx, fx, ay, sy, fy :
        /\ ax = htlcCounter(x) /\ sx = Settled(x) /\ fx = FailedBack(x)
        /\ ay = htlcCounter(y) /\ sy = Settled(y) /\ fy = FailedBack(y)
        /\ ax \in Nat /\ sx \in Nat /\ fx \in Nat /\ ay \in Nat /\ sy \in Nat /\ fy \in Nat
  BY Counts
<1>8. PICK C : C = Cardinality(Leaves(x, y)) /\ C = (ax - sy - fy) + (ay - sx - fx)
  <2>1. Leaves(x, y) = P \cup Q
    BY <1>1 DEF Leaves
  <2>2. Cardinality(P) \in Int /\ Cardinality(Q) \in Int
    BY <1>2, <1>3, FS_CardinalityType
  <2>3. Cardinality(P \cup Q) = Cardinality(P) + Cardinality(Q)
    BY <1>5, <1>6, <2>2
  <2> QED BY <1>2, <1>3, <1>7, <2>1, <2>3
<1>9. PICK b : b = Balance(PushAmount, y, x) /\ b = PushAmount - ay + sy + fx
  BY <1>7 DEF Balance
<1>10. Capacity - PushAmount - ax + sx + fy >= 0
  BY <1>7 DEF Balance, Start
<1>11. PushAmount \in Nat /\ Capacity \in Nat
  BY CloseAssumption
<1>12. ax \in Int /\ sx \in Int /\ fx \in Int /\ ay \in Int /\ sy \in Int /\ fy \in Int
  BY <1>7
<1>13. C \in Int /\ b \in Int
  <2>1. ax - sy - fy \in Int /\ ay - sx - fx \in Int
    BY <1>7
  <2>2. (ax - sy - fy) + (ay - sx - fx) \in Int
    BY <2>1
  <2>3. PushAmount - ay + sy + fx \in Int
    BY <1>11, <1>12
  <2> QED BY <1>8, <1>9, <2>2, <2>3
<1>14. Capacity - b - C = Capacity - PushAmount - ax + sx + fy
  <2>1. Capacity - (PushAmount - ay + sy + fx) - ((ax - sy - fy) + (ay - sx - fx))
          = Capacity - PushAmount - ax + sx + fy
    BY <1>11, <1>12
  <2> QED BY <1>8, <1>9, <2>1
<1>15. Capacity - b - C >= 0 /\ b \in Int /\ C \in Int /\ Capacity - b - C \in Int
  BY <1>10, <1>11, <1>14, <1>13
<1>16. evmBalanceSplit(b, Leaves(x, y)) = <<Capacity - b - C, b>>
  <2>1. ~ (Capacity - b - C < 0)
    BY <1>15
  <2> QED BY <1>8, <2>1 DEF evmBalanceSplit
<1>17. PICK d, split : d = UpdateFor(h, x, y) /\ split = evmBalanceSplit(b, Leaves(x, y))
  OBVIOUS
<1>18. d.balanceA = Capacity - b - C /\ d.balanceB = b /\ Cardinality(d.htlcs) = C
  <2>1. d.balanceA = split[1] /\ d.balanceB = split[2] /\ d.htlcs = Leaves(x, y)
    BY <1>9, <1>17 DEF UpdateFor
  <2>2. split[1] = Capacity - b - C /\ split[2] = b
    BY <1>16, <1>17
  <2> QED BY <1>8, <2>1, <2>2
<1>19. (Capacity - b - C) + b + C = Capacity
  BY <1>11, <1>15
<1> QED BY <1>17, <1>18, <1>19 DEF Reconciles

\* Both ends compute the same root for what an end could publish.
RootsAgree ==
    \A n \in Nodes : LET hs == View(n, local[n]).htlcs
                     IN  RootOf(Peer(n), hs) = RootOf(n, hs)

\* The contents of a signature are those of the commitment it is checked
\* against: the artifact is the same, and so is the root over its leaves,
\* where the two ends sort them alike.
LEMMA SameContents ==
    ASSUME IInv, NEW n \in Nodes, Receives(n, "commit_sig")
    PROVE  /\ Signed(n, Head(net[n])).update = Derived(n).update
           /\ Signed(n, Head(net[n])).htlcsHash = RootOf(Peer(n), Derived(n).update.htlcs)
           /\ Derived(n).htlcsHash = RootOf(n, Derived(n).update.htlcs)
           /\ Derived(n).update.htlcs =
                 ViewOf(n, local[n].height + 1, Take(log[n], tail[n].own), rlog[n]).htlcs
<1>1. /\ Head(net[n]).height = local[n].height + 1 /\ Head(net[n]).offered = rlog[n]
      /\ Head(net[n]).received = Take(log[n], tail[n].own)
  BY SigContents
<1>2. PICK h, o, t : h = local[n].height + 1 /\ o = Take(log[n], tail[n].own) /\ t = rlog[n]
  OBVIOUS
<1>3. PICK p, v, w : p = Peer(n) /\ v = ViewOf(n, h, o, t) /\ w = ViewOf(p, h, t, o)
  OBVIOUS
<1>4. /\ Signed(n, Head(net[n])) = [update |-> buildEvmStateUpdate(p, w),
                                    htlcsHash |-> RootOf(p, w.htlcs)]
      /\ Derived(n) = [update |-> buildEvmStateUpdate(n, v), htlcsHash |-> RootOf(n, v.htlcs)]
  BY <1>1, <1>2, <1>3 DEF Signed, Derived, Artifact
<1>5. buildEvmStateUpdate(p, w) = buildEvmStateUpdate(n, v) /\ w.htlcs = v.htlcs
  BY <1>3, SameView
<1>6. buildEvmStateUpdate(n, v).htlcs = v.htlcs
  BY DEF buildEvmStateUpdate
<1> QED BY <1>2, <1>3, <1>4, <1>5, <1>6

\* The leaves of a node's commitment change only when it accepts a signature.
LEMMA ViewStep ==
    ASSUME IInv, [EvmNext]_evmVars, NEW n \in Nodes
    PROVE  \/ View(n, local[n])'.htlcs = View(n, local[n]).htlcs
           \/ /\ Receives(n, "commit_sig") /\ ~ Refuses(n)
              /\ View(n, local[n])'.htlcs = Derived(n).update.htlcs
<1>1. /\ log \in [Nodes -> Seq(UpdateType)] /\ rlog \in [Nodes -> Seq(UpdateType)]
      /\ local \in [Nodes -> CommitType]
      /\ local[n].own \in 0 .. Len(log[n]) /\ local[n].their \in 0 .. Len(rlog[n])
  BY InRange DEF IInv, TypeOK
<1>2. ASSUME local'[n] = local[n],
             log'[n] = log[n] \/ \E u \in UpdateType : log'[n] = Append(log[n], u),
             rlog'[n] = rlog[n] \/ \E u \in UpdateType : rlog'[n] = Append(rlog[n], u)
      PROVE  View(n, local[n])'.htlcs = View(n, local[n]).htlcs
  <2>1. /\ Take(log'[n], local[n].own) = Take(log[n], local[n].own)
        /\ Take(rlog'[n], local[n].their) = Take(rlog[n], local[n].their)
    BY <1>1, <1>2, PrefixKept
  <2> QED BY <1>2, <2>1 DEF View
<1>3. ASSUME NEW a \in Nodes, Link(a)
      PROVE  \/ View(n, local[n])'.htlcs = View(n, local[n]).htlcs
             \/ /\ Receives(n, "commit_sig") /\ ~ Refuses(n)
                /\ View(n, local[n])'.htlcs = Derived(n).update.htlcs
  <2>1. ASSUME NEW u, Sent(a, u)
        PROVE  local'[n] = local[n] /\ rlog'[n] = rlog[n] /\ u \in UpdateType
               /\ (log'[n] = log[n] \/ log'[n] = Append(log[n], u))
    BY <1>1, <2>1 DEF Sent
  <2>2. ASSUME NEW u, Got(a, u)
        PROVE  local'[n] = local[n] /\ log'[n] = log[n] /\ u \in UpdateType
               /\ (rlog'[n] = rlog[n] \/ rlog'[n] = Append(rlog[n], u))
    BY <1>1, <2>2 DEF Got
  <2>3. Advanced(a) \/ SignedNext(a) \/ Idle =>
            local'[n] = local[n] /\ log'[n] = log[n] /\ rlog'[n] = rlog[n]
    BY DEF Advanced, SignedNext, Idle
  <2>4. ASSUME NEW c, Acked(a, c), n # a
        PROVE  local'[n] = local[n] /\ log'[n] = log[n] /\ rlog'[n] = rlog[n]
    BY <1>1, <2>4 DEF Acked
  <2>5. ASSUME NEW c, Acked(a, c), n = a
        PROVE  /\ Receives(n, "commit_sig") /\ ~ Refuses(n)
               /\ View(n, local[n])'.htlcs = Derived(n).update.htlcs
    <3>1. /\ Receives(n, "commit_sig") /\ log' = log /\ rlog' = rlog /\ local'[n] = c
          /\ c.height = local[n].height + 1 /\ c.own = tail[n].own /\ c.their = Len(rlog[n])
      BY <1>1, <2>5 DEF Acked
    <3>2. ~ Refuses(n)
      BY <1>3, <2>5 DEF Link
    <3>3. Take(rlog[n], Len(rlog[n])) = rlog[n]
      BY <1>1, TakeAll
    <3>4. View(n, local[n])' = ViewOf(n, local[n].height + 1, Take(log[n], tail[n].own), rlog[n])
      BY <3>1, <3>3 DEF View, ViewOf, EvmHTLCs, Active, Removed
    <3> QED BY <3>1, <3>2, <3>4, SameContents
  <2> QED BY <1>2, <1>3, <2>1, <2>2, <2>3, <2>4, <2>5, LinkEffect
<1>4. ASSUME NEW a \in Nodes, ForceClose(a) \/ handleEvmSpend(a) \/ Settle(a) \/ Mine(a)
      PROVE  UNCHANGED linkVars
  BY <1>4 DEF ForceClose, handleEvmSpend, Settle, resolveHtlc, distribute, Mine
<1>5. Block \/ UNCHANGED evmVars => UNCHANGED linkVars
  BY DEF Block, evmVars
<1>6. UNCHANGED linkVars => View(n, local[n])'.htlcs = View(n, local[n]).htlcs
  BY <1>2 DEF linkVars
<1> QED BY <1>3, <1>4, <1>5, <1>6 DEF EvmNext

LEMMA RootsStep == IInv /\ RootsAgree /\ [EvmNext]_evmVars => RootsAgree'
<1> SUFFICES ASSUME IInv, RootsAgree, [EvmNext]_evmVars, NEW n \in Nodes
             PROVE  RootOf(Peer(n), View(n, local[n])'.htlcs) = RootOf(n, View(n, local[n])'.htlcs)
  BY DEF RootsAgree
<1>1. CASE View(n, local[n])'.htlcs = View(n, local[n]).htlcs
  BY <1>1 DEF RootsAgree
<1>2. CASE /\ Receives(n, "commit_sig") /\ ~ Refuses(n)
           /\ View(n, local[n])'.htlcs = Derived(n).update.htlcs
  <2>1. Signed(n, Head(net[n])) = Derived(n)
    BY <1>2 DEF Refuses
  <2> QED BY <1>2, <2>1, SameContents
<1> QED BY <1>1, <1>2, ViewStep

LEMMA RootsInit == EvmInit => RootsAgree
<1> SUFFICES ASSUME EvmInit, NEW n \in Nodes
             PROVE  RootOf(Peer(n), View(n, local[n]).htlcs) = RootOf(n, View(n, local[n]).htlcs)
  BY DEF RootsAgree
<1>1. /\ log[n] = <<>> /\ rlog[n] = <<>> /\ local[n] = Commit(0, 0, 0)
  BY DEF EvmInit, Init
<1>2. View(n, local[n]).htlcs = {}
  <2>1. <<>> \in Seq(UpdateType) /\ Len(<<>>) = 0
    BY EmptySeq
  <2>2. Take(<<>>, 0) = <<>>
    BY <2>1, TakeAll
  <2>3. \A r \in Nodes : EvmHTLCs(<<>>, <<>>, r) = {}
    BY <2>1 DEF EvmHTLCs, Active
  <2> QED BY <1>1, <2>2, <2>3, PeerFacts DEF View, ViewOf, Commit
<1>3. ~ SharedIndex(View(n, local[n]).htlcs)
  BY <1>2 DEF SharedIndex
<1> QED BY <1>3, SameRoot

\* The three invariants give the property.
LEMMA Agreed == IInv /\ Funded /\ RootsAgree => SameArtifact
<1> SUFFICES ASSUME IInv, Funded, RootsAgree, NEW n \in Nodes
             PROVE  /\ Reconciles(StateUpdateOf(n, local[n]))
                    /\ \E c \in {tail[Peer(n)], Tip(Peer(n))} :
                          Artifact(Peer(n), View(Peer(n), c)) = Artifact(n, View(n, local[n]))
                    /\ Refuses(n) => SharedIndex(Derived(n).update.htlcs)
  BY DEF SameArtifact
<1>1. PICK p \in Nodes : p = Peer(n) /\ n = Peer(p) /\ p # n /\ \A m \in Nodes : m = n \/ m = p
  BY PeerFacts
<1>2. PICK h, o, t : /\ h = local[n].height
                     /\ o = Take(log[n], local[n].own) /\ t = Take(rlog[n], local[n].their)
  OBVIOUS
<1>3. PICK c \in {tail[p], Tip(p)} :
             /\ c.height = h
             /\ c.own = local[n].their /\ c.their = local[n].own
             /\ Take(log[p], c.own) = t /\ Take(rlog[p], c.their) = o
  BY <1>1, <1>2, Mirrored
<1>4. View(n, local[n]) = ViewOf(n, h, o, t) /\ View(p, c) = ViewOf(p, h, t, o)
  BY <1>2, <1>3 DEF View
<1>5. Artifact(p, View(p, c)) = Artifact(n, View(n, local[n]))
  <2>1. /\ View(p, c).htlcs = View(n, local[n]).htlcs
        /\ buildEvmStateUpdate(p, View(p, c)) = buildEvmStateUpdate(n, View(n, local[n]))
    BY <1>1, <1>4, SameView
  <2>2. RootOf(p, View(n, local[n]).htlcs) = RootOf(n, View(n, local[n]).htlcs)
    BY <1>1 DEF RootsAgree
  <2> QED BY <2>1, <2>2 DEF Artifact
<1>6. StateUpdateOf(n, local[n]) = IF n = Initiator THEN UpdateFor(h, o, t) ELSE UpdateFor(h, t, o)
  BY <1>4, ArtifactOf DEF StateUpdateOf
<1>7. /\ Consistent(o, t) /\ Consistent(t, o) /\ Len(o) \in Nat /\ Len(t) \in Nat
  BY <1>2, Fitting
<1>8. Reconciles(StateUpdateOf(n, local[n]))
  <2>1. CASE n = Initiator
    <3>1. local[n].own \in 0 .. Len(log[n])
      BY InRange
    <3>2. Balance(Start(n), o, t) >= 0
      BY <1>2, <3>1 DEF Funded, FundedAt, Afford
    <3>3. Reconciles(UpdateFor(h, o, t))
      BY <1>7, <2>1, <3>2, ArtifactWhole
    <3> QED BY <1>6, <2>1, <3>3
  <2>2. CASE p = Initiator
    <3>1. Balance(Start(p), t, o) >= 0
      BY <1>3 DEF Funded, FundedAt, Afford
    <3>2. Reconciles(UpdateFor(h, t, o))
      BY <1>7, <2>2, <3>1, ArtifactWhole
    <3> QED BY <1>1, <1>6, <2>2, <3>2
  <2>3. n = Initiator \/ p = Initiator
    BY <1>1, NodesAssumption
  <2> QED BY <2>1, <2>2, <2>3
<1>9. ASSUME Refuses(n), ~ SharedIndex(Derived(n).update.htlcs) PROVE FALSE
  <2>1. Receives(n, "commit_sig") /\ Signed(n, Head(net[n])) # Derived(n)
    BY <1>9 DEF Refuses
  <2>2. Signed(n, Head(net[n])).htlcsHash = Derived(n).htlcsHash
    BY <1>9, <2>1, SameContents, SameRoot
  <2>3. Signed(n, Head(net[n])).update = Derived(n).update
    BY <2>1, SameContents
  <2> QED BY <2>1, <2>2, <2>3 DEF Signed, Derived, Artifact
<1> QED BY <1>1, <1>5, <1>8, <1>9

\* The artifact an end could publish is the one its peer signed, root included,
\* and it accounts for the whole deposit: no balance is ever clamped.  Of the
\* signatures a peer sends none is refused, unless HTLCs of the two directions
\* share an index, and so may come in another order at either end.
THEOREM ArtifactAgreed == EvmSpec => []SameArtifact
<1>1. EvmInit => IInv /\ Funded /\ RootsAgree
  BY InitInv, FundedInit, RootsInit DEF EvmInit
<1>2. IInv /\ Funded /\ RootsAgree /\ [EvmNext]_evmVars => IInv' /\ Funded' /\ RootsAgree'
  BY LinkSteps, NextInv, FundedStep, RootsStep
<1> QED BY <1>1, <1>2, Agreed, PTL DEF EvmSpec
=============================================================================
