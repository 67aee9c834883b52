------------------------------ MODULE EvmClose ------------------------------
(***************************************************************************)
(* Force-closing an EVM channel, end to end: the commitment protocol of    *)
(* two nodes (CommitProtocol) produces the co-signed StateUpdates that     *)
(* lnwallet/evm_commitment.go derives from commitments, a node publishes   *)
(* its latest one to the ChannelManager contract (ChannelManager), and     *)
(* each node's chain watcher (contractcourt/evm_close.go) and settlement   *)
(* worker (contractcourt/evm_settler.go) react.                            *)
(*                                                                         *)
(* Every HTLC is worth one base unit; its payload stands for the preimage. *)
(* Both nodes are honest: they only ever publish their latest commitment.  *)
(***************************************************************************)
EXTENDS CommitProtocol, EvmMerkle

CONSTANTS
    contract,           \* the ChannelManager's address
    salt,
    PushAmount,         \* the non-funder's balance when the channel opens
    Capacity,           \* the whole deposit
    Sha256,             \* payment hash of each payload
    Known,              \* payloads whose preimage the recipient can look up
    Cltv,               \* CLTV expiry of every HTLC, a block height
    Genesis, BlockTime, \* SetEvmTimelockParams
    TimelockModulus,    \* 2^32: timelocks are uint32
    BlockIntervals,     \* seconds that may pass between two blocks
    ChallengePeriod, EmergencyDelay,
    CloseBy,            \* bound on the height of the force close
    MaxHeight           \* bound on the chain's height

VARIABLES
    channels, htlcResolved, token, now, \* the contract, see ChannelManager
    height,     \* block height, as block epochs report it
    mempool,    \* transactions a node published that are not yet mined, in
                \* the order of its account's nonces
    stopped,    \* the node's link for this channel is gone
    dispatched, \* what the chain watcher made of the close event, or none
    settler     \* settlement worker: [tree, todo, attempts], or none

\* Amounts, heights and times are unsigned; the contract is not a node.
ASSUME CloseAssumption ==
    /\ contract \notin Nodes
    /\ none \notin {"local", "remote", "breach"}
    /\ PushAmount \in Nat /\ Capacity \in Nat /\ PushAmount <= Capacity
    /\ Cltv \in Nat /\ Genesis \in Nat /\ BlockTime \in Nat
    /\ TimelockModulus \in Nat \ {0} /\ BlockIntervals \subseteq Nat
    /\ ChallengePeriod \in Nat /\ EmergencyDelay \in Nat

linkVars == <<log, rlog, local, tail, pending, lastWasRevoke, fwd, mustSign,
              synced, net, up, drops, failed>>
chainVars == <<channels, htlcResolved, token, now>>
closeVars == <<height, mempool, stopped, dispatched, settler>>
evmVars == <<linkVars, chainVars, closeVars>>

Responder == Peer(Initiator)
Chan == <<Initiator, Responder, salt>>

\* evmHtlcTimelock: the block.timestamp expected at a CLTV height, which
\* the code computes in uint64 and truncates to uint32.
evmHtlcTimelock(cltv) ==
    IF BlockTime = 0 THEN cltv ELSE (Genesis + cltv * BlockTime) % TimelockModulus

\* HTLCs of x's log that the peer's updates have not removed.
Active(offered, received) ==
    {i \in 1 .. Len(offered) : /\ offered[i].kind = "add"
                               /\ ~ Removed(received, offered[i].id)}

\* buildEvmHTLCs, evmHTLCsFromDiskCommit: one leaf per active HTLC, keyed by
\* its HtlcIndex, with the receiving end as recipient.
EvmHTLCs(offered, received, recipient) ==
    {[index |-> offered[i].id, amount |-> 1,
      hashlock |-> Sha256[offered[i].payload],
      timelock |-> evmHtlcTimelock(Cltv), recipient |-> recipient] :
        i \in Active(offered, received)}

\* The balance, net of HTLCs, that LND tracks for the end that sent `mine' and
\* received `theirs': adds are debited, settles and failed adds credited.
Settled(s) ==
    Cardinality({i \in 1 .. Len(s) : s[i].kind = "rm" /\ s[i].payload = "settle"})
FailedBack(s) ==
    Cardinality({i \in 1 .. Len(s) : s[i].kind = "rm" /\ s[i].payload = "fail"})
Balance(start, mine, theirs) ==
    start - htlcCounter(mine) + Settled(mine) + FailedBack(theirs)

\* A commitment as node n sees it: the updates it includes, by who sent them.
ViewOf(n, commitHeight, ours, theirs) ==
    [height |-> commitHeight, ours |-> ours, theirs |-> theirs,
     htlcs |-> EvmHTLCs(ours, theirs, Peer(n)) \cup EvmHTLCs(theirs, ours, n)]
View(n, c) == ViewOf(n, c.height, Take(log[n], c.own), Take(rlog[n], c.their))

\* Where the sort by index puts each HTLC.  n lists the HTLCs it offered before
\* those it received, and equal indices keep that order.
Position(n, htlcs) ==
    [h \in htlcs |->
        Cardinality({g \in htlcs : \/ g.index < h.index
                                   \/ /\ g.index = h.index
                                      /\ g.recipient # n /\ h.recipient = n}) + 1]
InOrder(position) ==
    [k \in 1 .. Cardinality(DOMAIN position) |->
        CHOOSE h \in DOMAIN position : position[h] = k]

\* The Merkle root that n computes over a set of HTLCs.
RootOf(n, htlcs) == HtlcsMerkleRoot(InOrder(Position(n, htlcs)))

\* Two HTLCs, one in each direction, have the same index.
SharedIndex(htlcs) == \E g, h \in htlcs : g # h /\ g.index = h.index

\* evmBalanceSplit: B's balance is scaled, A absorbs the remainder.
evmBalanceSplit(balanceB, htlcs) ==
    LET rest == Capacity - balanceB - Cardinality(htlcs)
    IN  <<IF rest < 0 THEN 0 ELSE rest, balanceB>>

\* Mutant: B's balance is taken as the remote one whoever is the funder.
buildEvmStateUpdate_RemoteIsB(n, v) ==
    LET split == evmBalanceSplit(Balance(PushAmount, v.theirs, v.ours), v.htlcs)
    IN  [type |-> "StateUpdate", channelId |-> Chan, nonce |-> v.height,
         balanceA |-> split[1], balanceB |-> split[2], htlcs |-> v.htlcs]

\* buildEvmStateUpdate, evmStateUpdateFromDiskCommit: the channel-absolute
\* artifact, whose nonce is the commitment height.  As in ChannelManager, the
\* leaves stand for the root.
buildEvmStateUpdate(n, v) ==
    LET bBalance == IF n = Initiator
                    THEN Balance(PushAmount, v.theirs, v.ours)
                    ELSE Balance(PushAmount, v.ours, v.theirs)
        split == evmBalanceSplit(bBalance, v.htlcs)
    IN  [type |-> "StateUpdate", channelId |-> Chan, nonce |-> v.height,
         balanceA |-> split[1], balanceB |-> split[2], htlcs |-> v.htlcs]

StateUpdateOf(n, c) == buildEvmStateUpdate(n, View(n, c))

\* What n signs and verifies: the artifact with the root n computes itself.
Artifact(n, v) ==
    [update |-> buildEvmStateUpdate(n, v), htlcsHash |-> RootOf(n, v.htlcs)]

\* verifyEvmCommitment: what the peer signed, over its view of the contents the
\* message names, against what n derives for its next commitment.
Signed(n, msg) ==
    Artifact(Peer(n), ViewOf(Peer(n), msg.height, msg.offered, msg.received))
Derived(n) ==
    Artifact(n, ViewOf(n, local[n].height + 1, Take(log[n], tail[n].own), rlog[n]))
Refuses(n) == Receives(n, "commit_sig") /\ Signed(n, Head(net[n])) # Derived(n)

\* The counterparty's signatures a node retains: over its latest commitment.
Retained == {[signer |-> Peer(x[1]), digest |-> buildEvmStateUpdate(x[1], x[2])] :
                x \in {<<n, View(n, local[n])>> : n \in Nodes}}

CM == INSTANCE ChannelManager WITH
        Users <- Nodes, Manager <- contract, Salts <- {salt},
        Preimages <- Payloads, Digests <- {}, Fundings <- {},
        InitialTokens <- [n \in Nodes |-> 0],
        MaxChallengePeriod <- ChallengePeriod, FullScaleDeposit <- 0,
        MaxTime <- MaxHeight * (BlockTime + 1), signatures <- Retained

\* The channel is open and funded, and nobody has closed it.
ChainInit ==
    /\ channels = [c \in CM!ChannelIds |->
                     IF c = Chan THEN [CM!NoChannel EXCEPT !.status = "OPEN",
                                                    !.totalDeposited = Capacity]
                                 ELSE CM!NoChannel]
    /\ htlcResolved = [c \in CM!ChannelIds |-> {}]
    /\ token = [u \in Nodes \cup {contract} |-> IF u = contract THEN Capacity ELSE 0]
    /\ now = Genesis /\ height = 0
    /\ mempool = [n \in Nodes |-> <<>>]
    /\ stopped = [n \in Nodes |-> FALSE]
    /\ dispatched = [n \in Nodes |-> none]
    /\ settler = [n \in Nodes |-> none]

\* Nothing has been exchanged.
EvmInit == Init /\ ChainInit

-----------------------------------------------------------------------------
Start(n) == IF n = Initiator THEN Capacity - PushAmount ELSE PushAmount

\* A preimage is known for the HTLC with this id that n was handed.
CanSettle(n, id) ==
    \E i \in 1 .. Len(fwd[n]) : /\ fwd[n][i].kind = "add" /\ fwd[n][i].id = id
                                /\ fwd[n][i].payload \in Known

\* The links run the commitment protocol until the channel is closed; an HTLC
\* is offered only out of a positive balance (validateCommitmentSanity).  A
\* link that refuses a signature fails, for a force close
\* (LinkFailureForceClose): it never gets past the message.
Link(n) ==
    /\ ~stopped[n] /\ ~Refuses(n)
    /\ \/ /\ Balance(Start(n), log[n], Take(rlog[n], local[n].their)) > 0
          /\ \E p \in Payloads : AddHTLC(n, p)
       \/ \E id \in 0 .. MaxUpdates, o \in Outcomes :
             (o = "settle" => CanSettle(n, id)) /\ RemoveHTLC(n, id, o)
       \/ Handle(n) \/ updateCommitTx(n) \/ BatchTick(n)
    /\ UNCHANGED <<chainVars, closeVars>>

\* PublishTransaction: the node's next call, in the order of account nonces.
Publish(n, tx) == mempool' = [mempool EXCEPT ![n] = Append(@, tx)]

\* ForceClose, evmLocalForceCloseCarrier: publish the latest local commitment,
\* unless it does not reconcile to the deposit (evmAssertConservation).
Reconciles(d) ==
    d.balanceA + d.balanceB + Cardinality(d.htlcs) = Capacity

ForceClose(n) ==
    /\ ~stopped[n] /\ height <= CloseBy
    /\ Reconciles(StateUpdateOf(n, local[n]))
    /\ Publish(n, [call |-> "forceClose", state |-> StateUpdateOf(n, local[n])])
    /\ stopped' = [stopped EXCEPT ![n] = TRUE]
    /\ UNCHANGED <<linkVars, chainVars, height, dispatched, settler>>

\* launchEvmSettler: the HTLCs of the commitment it is given, in a map keyed by
\* HtlcIndex.  A persisted commitment lists outgoing HTLCs before incoming
\* ones: the map keeps the last of two equal indices.
Settler(n, c) ==
    LET hs == View(n, c).htlcs
    IN  [tree |-> hs, attempts |-> 0,
         todo |-> {h \in hs : h.recipient = n \/
                     ~ \E g \in hs : g.index = h.index /\ g.recipient = n}]

\* Mutant: the comparison admits the nonce the node itself would broadcast.
Breach_OrEqual(n) == channels[Chan].nonce <= local[n].height

\* The remote broadcast is older than the state this node holds a signature for.
Breach(n) == channels[Chan].nonce < local[n].height

\* handleEvmSpend on UnilateralCloseInitiated, with dispatchEvmBreach.
handleEvmSpend(n) ==
    LET ch == channels[Chan]
        how == CASE ch.broadcaster = n -> "local"
                 [] ch.broadcaster # n /\ Breach(n) -> "breach"
                 [] OTHER -> "remote"
    IN  /\ ch.status # "OPEN" /\ dispatched[n] = none
        /\ dispatched' = [dispatched EXCEPT ![n] = how]
        /\ stopped' = [stopped EXCEPT ![n] = TRUE]
        /\ settler' = [settler EXCEPT ![n] =
              CASE how = "local" -> Settler(n, local[n])
                [] how = "remote" -> Settler(n, tail[n])
                [] OTHER -> none]
        /\ IF how = "breach"
           THEN Publish(n, [call |-> "penalize",
                            state |-> StateUpdateOf(n, local[n])])
           ELSE UNCHANGED mempool
        /\ UNCHANGED <<linkVars, chainVars, height>>

\* EvmHtlcResolutionTx resolves the first HTLC listed with the index.
Target(n, h) ==
    CHOOSE g \in settler[n].tree : g.index = h.index /\
        (g.recipient # n \/ ~ \E k \in settler[n].tree :
                                k.index = h.index /\ k.recipient # n)

\* Mutant: the refund is attempted one block early.
resolveHtlc_Early(n, h) ==
    /\ settler[n] # none /\ h \in settler[n].todo
    /\ channels[Chan].status # "CLOSED"
    /\ h.recipient # n /\ height + 1 >= Cltv
    /\ Publish(n, [call |-> "timeout", htlc |-> Target(n, h),
                   tree |-> settler[n].tree])
    /\ settler' = [settler EXCEPT ![n].todo = @ \ {h}]
    /\ UNCHANGED <<linkVars, chainVars, height, stopped, dispatched>>

\* One resolution of a settler tick: claim an incoming HTLC whose preimage is
\* known, reclaim an outgoing one at its expiry height.  What was handed to
\* the network is forgotten, whether the contract accepts it or not.
resolveHtlc(n, h) ==
    /\ settler[n] # none /\ h \in settler[n].todo
    /\ channels[Chan].status # "CLOSED"
    /\ \/ /\ h.recipient = n
          /\ \E p \in Known : Sha256[p] = h.hashlock
          /\ Publish(n, [call |-> "claim", htlc |-> Target(n, h),
                         tree |-> settler[n].tree, hash |-> h.hashlock])
       \/ /\ h.recipient # n /\ height >= Cltv
          /\ Publish(n, [call |-> "timeout", htlc |-> Target(n, h),
                         tree |-> settler[n].tree])
    /\ settler' = [settler EXCEPT ![n].todo = @ \ {h}]
    /\ UNCHANGED <<linkVars, chainVars, height, stopped, dispatched>>

evmDistributeAttempts == 3

\* Mutant: a settler without HTLCs is taken for one that has nothing to do.
distribute_NoHtlcs(n) ==
    /\ settler[n] # none /\ settler[n].todo = {} /\ settler[n].tree # {}
    /\ channels[Chan].status # "CLOSED"
    /\ settler[n].attempts < evmDistributeAttempts
    /\ now >= channels[Chan].challengeExpiry + 1
    /\ ~ Contains(mempool[n], [call |-> "distribute"])
    /\ Publish(n, [call |-> "distribute"])
    /\ settler' = [settler EXCEPT ![n].attempts = @ + 1]
    /\ UNCHANGED <<linkVars, chainVars, height, stopped, dispatched>>

\* Nothing is left to resolve and chain time has passed the deadline.  The
\* retry delay lets the previous attempt be mined first.
distribute(n) ==
    /\ settler[n] # none /\ settler[n].todo = {}
    /\ channels[Chan].status # "CLOSED"
    /\ settler[n].attempts < evmDistributeAttempts
    /\ now >= channels[Chan].challengeExpiry + 1
    /\ ~ Contains(mempool[n], [call |-> "distribute"])
    /\ Publish(n, [call |-> "distribute"])
    /\ settler' = [settler EXCEPT ![n].attempts = @ + 1]
    /\ UNCHANGED <<linkVars, chainVars, height, stopped, dispatched>>

\* A node's next transaction is mined: the contract executes the call or
\* reverts it.  A Merkle proof is accepted when it was built over the
\* committed tree.
Proven(tx) == tx.tree = channels[Chan].htlcs

Execute(n, tx) ==
    \/ tx.call = "forceClose" /\ CM!forceClose(n, Chan, tx.state)
    \/ tx.call = "penalize" /\ CM!penalize(Chan, tx.state)
    \/ /\ tx.call = "claim" /\ Proven(tx)
       /\ \E p \in Known : Sha256[p] = tx.hash /\ CM!claimHtlc(Chan, tx.htlc, p)
    \/ tx.call = "timeout" /\ Proven(tx) /\ CM!timeoutHtlc(Chan, tx.htlc)
    \/ tx.call = "distribute" /\ CM!distributeFunds(Chan)

Accepted(n, tx) ==
    CASE tx.call = "forceClose" -> channels[Chan].status = "OPEN"
      [] tx.call = "penalize" -> CM!Punishable(Chan, tx.state)
      [] tx.call = "claim" -> /\ Proven(tx) /\ CM!Resolvable(Chan, tx.htlc)
                              /\ tx.hash = tx.htlc.hashlock
      [] tx.call = "timeout" -> /\ Proven(tx) /\ CM!Resolvable(Chan, tx.htlc)
                                /\ now >= tx.htlc.timelock
      [] tx.call = "distribute" -> CM!Distributable(Chan)

Mine(n) ==
    /\ mempool[n] # <<>>
    /\ mempool' = [mempool EXCEPT ![n] = Tail(@)]
    /\ UNCHANGED <<linkVars, height, stopped, dispatched, settler>>
    /\ IF Accepted(n, Head(mempool[n]))
       THEN Execute(n, Head(mempool[n]))
       ELSE UNCHANGED chainVars

\* A block: heights count blocks, timestamps advance unevenly.  A close is
\* mined before the chain outgrows the bound on it.
Block ==
    /\ height < MaxHeight
    /\ height >= CloseBy =>
          \A n \in Nodes : channels[Chan].status = "OPEN" => mempool[n] = <<>>
    /\ height' = height + 1
    /\ \E d \in BlockIntervals : now' = now + d
    /\ UNCHANGED <<linkVars, channels, htlcResolved, token, mempool, stopped,
                   dispatched, settler>>

Settle(n) == \/ settler[n] # none /\ \E h \in settler[n].todo : resolveHtlc(n, h)
             \/ distribute(n)

EvmNext ==
    \/ \E n \in Nodes : \/ Link(n) \/ ForceClose(n) \/ handleEvmSpend(n)
                        \/ Settle(n) \/ Mine(n)
    \/ Block

\* Notifiers deliver the close event, settlers keep ticking, and the chain
\* keeps producing blocks that include what was published.  Nobody is obliged
\* to close.
EvmFairness ==
    /\ WF_evmVars(Block)
    /\ \A n \in Nodes : /\ WF_evmVars(handleEvmSpend(n))
                        /\ WF_evmVars(Settle(n))
                        /\ WF_evmVars(Mine(n))

EvmSpec == EvmInit /\ [][EvmNext]_evmVars
EvmFairSpec == EvmSpec /\ EvmFairness

-----------------------------------------------------------------------------
\* The artifact a node would publish or penalize with is the one its peer
\* signed, root included, and accounts for the whole deposit, so that its HTLCs
\* drain the pool; and no signature over the right contents is refused, from
\* whichever end's mirrored view the artifact is built, except where HTLCs of
\* the two directions share an index.
SameArtifact ==
    \A n \in Nodes :
        /\ Reconciles(StateUpdateOf(n, local[n]))
        /\ \E c \in {tail[Peer(n)], Tip(Peer(n))} :
              Artifact(Peer(n), View(Peer(n), c)) = Artifact(n, View(n, local[n]))
        /\ Refuses(n) => SharedIndex(Derived(n).update.htlcs)

\* When the watcher decides on a breach, the state it holds is evidence the
\* contract accepts, for as long as the window is open.
BreachEvidenceAccepted ==
    \A n \in Nodes :
        (/\ dispatched[n] = "breach"
         /\ channels[Chan].status = "CLOSING_UNILATERAL"
         /\ now < channels[Chan].challengeExpiry)
        => CM!Punishable(Chan, StateUpdateOf(n, local[n]))

\* Two HTLCs of the published state have the same index, by which the settler
\* and the contract tell HTLCs apart.
Ambiguous == SharedIndex(channels[Chan].htlcs)

\* A settler of a remote close holds the remote chain's tail where the pending
\* tip was published: "commit is the persisted commitment matching the
\* broadcast state" (launchEvmSettler) does not hold, and its proofs fail.
Mismatched ==
    \E n \in Nodes : settler[n] # none /\ settler[n].tree # channels[Chan].htlcs

\* A penalty that comes after the window is reverted, and dispatchEvmBreach has
\* launched no settler for the HTLCs.
PenaltyMissed ==
    \E n \in Nodes : dispatched[n] = "breach" /\ now >= channels[Chan].challengeExpiry

\* Each settler waits for the preimage of an HTLC it received, also when the
\* HTLC has been timed out on chain, and so never gets to distributeFunds.
Unclaimed ==
    \A n \in Nodes :
        settler[n] # none /\ \E h \in settler[n].todo :
            h.recipient = n /\ \A p \in Known : Sha256[p] # h.hashlock

\* A close that reaches the contract ends with the deposit paid out: somebody
\* resolves every HTLC and distributes, although each settler gives up after
\* three attempts and forgets the transactions it has handed over.  Apart from
\* the four cases above, from which the two nodes do not recover.
CloseFinalized ==
    channels[Chan].status = "CLOSING_UNILATERAL"
        ~> (channels[Chan].status = "CLOSED"
            \/ Ambiguous \/ Mismatched \/ PenaltyMissed \/ Unclaimed)

\* "Once nothing is pending on our side" (evmSettle): a settler that has
\* crossed off every HTLC, with its transactions mined, has left none of the
\* HTLCs it offered unresolved on chain, unless the deposit has been paid out.
NothingPendingMeansResolved ==
    \A n \in Nodes :
        (/\ settler[n] # none /\ mempool[n] = <<>> /\ settler[n].todo = {}
         /\ channels[Chan].status = "CLOSING_UNILATERAL"
         /\ settler[n].tree = channels[Chan].htlcs /\ ~ Ambiguous)
        => \A h \in settler[n].tree :
              h.recipient # n => h.index \in htlcResolved[Chan]

\* "A strictly-higher nonce proves the broadcast state was revoked"
\* (penalize): a node that published its latest commitment is not punished.
HonestNotPunished ==
    \A n \in Nodes : \A i \in 1 .. Len(mempool[n]) :
        LET tx == mempool[n][i]
        IN  tx.call = "penalize" => ~ CM!Punishable(Chan, tx.state)
=============================================================================
