--------------------------- MODULE CommitProtocol ---------------------------
(***************************************************************************)
(* The commitment protocol of one channel: LightningChannel (lnwallet/     *)
(* channel.go) driven by the two ends' links (htlcswitch/link.go), over a  *)
(* connection that may drop at any moment.                                 *)
(*                                                                         *)
(* A commitment is what it covers: its height and how many updates of each *)
(* end's log it includes, so its contents (balances, HTLC outputs) are two *)
(* prefixes of update logs.  A commitment signature carries the contents   *)
(* its signer sees; it verifies when the receiver derives the same ones.   *)
(* Log compaction only forgets updates both chains have dropped, and is    *)
(* invisible at this level.                                                *)
(***************************************************************************)
EXTENDS Integers, FiniteSets, Sequences, SequencesExt, TLC

CONSTANTS
    Nodes,        \* the two ends of the channel
    Initiator,    \* the end that pays fees and may send UpdateFee
    Payloads,     \* what tells apart two HTLCs offered with the same id
    BatchSize,    \* pending updates at which a link signs without waiting
    MaxUpdates,   \* bound on the length of an update log
    MaxDrops,     \* bound on the number of lost connections
    none          \* no commitment, no error

VARIABLES
    log,          \* updateLogs.Local: updates this end has sent
    rlog,         \* updateLogs.Remote: updates this end has received
    local,        \* commitChains.Local.tail(): latest unrevoked own commitment
    tail,         \* commitChains.Remote.tail()
    pending,      \* the signed, unrevoked remote tip (CommitDiff) or none
    lastWasRevoke,\* persisted order of the last revocation and signature
    fwd,          \* updates handed to the switch in forwarding packages
    mustSign,     \* the running handler has still to call updateCommitTx
    synced,       \* the link has processed the peer's ChannelReestablish
    net,          \* messages in flight to each end, in order
    up,           \* the connection is up
    drops,        \* connections lost so far
    failed        \* the error a link failed with, or none

disk == <<local, tail, pending, lastWasRevoke, fwd>>
vars == <<log, rlog, local, tail, pending, lastWasRevoke, fwd, mustSign,
          synced, net, up, drops, failed>>

ASSUME NodesAssumption == Initiator \in Nodes /\ \E m, n \in Nodes :
                              m # n /\ Nodes = {m, n}
ASSUME BoundsAssumption == /\ BatchSize \in Nat /\ MaxUpdates \in Nat
                           /\ MaxDrops \in Nat

Peer(n) == CHOOSE m \in Nodes : m # n
Take(s, k) == SubSeq(s, 1, k)

\* The number of HTLCs ever offered in a log: the id of the next one.
htlcCounter(s) == Cardinality({i \in 1 .. Len(s) : s[i].kind = "add"})
\* Settles and fails (malformed fails too) remove an HTLC; fee updates stay
\* local to the channel and are never forwarded.
Forwarded(s) ==
    LET kept[i \in 0 .. Len(s)] ==
            IF i = 0 THEN <<>>
            ELSE IF s[i].kind = "fee" THEN kept[i - 1] ELSE Append(kept[i - 1], s[i])
    IN  kept[Len(s)]
Removed(s, id) == \E i \in 1 .. Len(s) : s[i].kind = "rm" /\ s[i].id = id
Offered(s, id) == \E i \in 1 .. Len(s) : s[i].kind = "add" /\ s[i].id = id

Commit(h, own, their) == [height |-> h, own |-> own, their |-> their]
CommitType == [height : Nat, own : Nat, their : Nat]
ASSUME NoneAssumption == none \notin CommitType

\* commitChains.Remote.tip()
Tip(n) == IF pending[n] = none THEN tail[n] ELSE pending[n]

\* oweCommitment(lntypes.Local): own updates, or updates already acked on the
\* local commitment, are missing from the newest remote commitment.
OweCommitment(n) ==
    \/ Len(log[n]) # Tip(n).own
    \/ local[n].their # Tip(n).their

NumPendingUpdates(n) == Len(log[n]) - Tip(n).own

\* The contents of a commitment of n's peer, as n signs them.
CommitSig(n, c) == [type |-> "commit_sig", height |-> c.height,
                    offered |-> Take(log[n], c.own),
                    received |-> Take(rlog[n], c.their)]
Update(u) == [type |-> "update", update |-> u]
Revoke(h) == [type |-> "revoke_and_ack", height |-> h]
\* ChanSyncMsg: computed from the persisted commitments.
Reestablish(n) == [type |-> "channel_reestablish",
                   next |-> local[n].height + 1, tail |-> tail[n].height]

Send(n, msgs) == net' = [net EXCEPT ![Peer(n)] = @ \o msgs]
Reply(n, msgs) == net' = [net EXCEPT ![n] = Tail(@), ![Peer(n)] = @ \o msgs]

Init ==
    /\ log = [n \in Nodes |-> <<>>]
    /\ rlog = [n \in Nodes |-> <<>>]
    /\ local = [n \in Nodes |-> Commit(0, 0, 0)]
    /\ tail = [n \in Nodes |-> Commit(0, 0, 0)]
    /\ pending = [n \in Nodes |-> none]
    /\ lastWasRevoke = [n \in Nodes |-> FALSE]
    /\ fwd = [n \in Nodes |-> <<>>]
    /\ mustSign = [n \in Nodes |-> FALSE]
    /\ synced = [n \in Nodes |-> TRUE]
    /\ net = [n \in Nodes |-> <<>>]
    /\ up = TRUE
    /\ drops = 0
    /\ failed = [n \in Nodes |-> none]

-----------------------------------------------------------------------------
\* The link's event loop runs one handler at a time.
Ready(n) == up /\ synced[n] /\ ~mustSign[n] /\ failed[n] = none

\* A link fails: it stops processing (LinkFailureError).
Fail(n, e) ==
    /\ failed' = [failed EXCEPT ![n] = e]
    /\ UNCHANGED <<log, rlog, disk, mustSign, synced, net, up, drops>>

\* Append u to the local log and send it.  The handler goes on to sign when it
\* removes an HTLC, or when the batch is full.
sendUpdate(n, u, signNow) ==
    /\ Ready(n) /\ Len(log[n]) < MaxUpdates
    /\ log' = [log EXCEPT ![n] = Append(@, u)]
    /\ Send(n, <<Update(u)>>)
    /\ mustSign' = [mustSign EXCEPT ![n] = signNow]
    /\ UNCHANGED <<rlog, disk, synced, up, drops, failed>>

AddHTLC(n, p) ==
    sendUpdate(n, [kind |-> "add", id |-> htlcCounter(log[n]), payload |-> p],
               NumPendingUpdates(n) + 1 >= BatchSize)

\* SettleHTLC, FailHTLC, MalformedFailHTLC: the switch answers an HTLC it was
\* handed, once; the link signs at once.
RemoveHTLC(n, id, outcome) ==
    /\ Offered(fwd[n], id)
    /\ ~ Removed(log[n], id)
    /\ sendUpdate(n, [kind |-> "rm", id |-> id, payload |-> outcome], TRUE)

UpdateFee(n, p) ==
    /\ n = Initiator
    /\ sendUpdate(n, [kind |-> "fee", id |-> 0, payload |-> p], TRUE)

-----------------------------------------------------------------------------
\* SignNextCommitment: sign the peer's next commitment over every own update
\* and the peer's updates acked by the local commitment, and persist it as
\* the pending tip before it is sent.  Without a free revocation window
\* (ErrNoWindow) nothing is signed.
NextCommit(n) == Commit(tail[n].height + 1, Len(log[n]), local[n].their)

signNextCommitment(n) ==
    /\ pending[n] = none
    /\ pending' = [pending EXCEPT ![n] = NextCommit(n)]
    /\ lastWasRevoke' = [lastWasRevoke EXCEPT ![n] = FALSE]
    /\ Send(n, <<CommitSig(n, NextCommit(n))>>)
    /\ UNCHANGED <<local, tail, fwd>>

\* The trailing updateCommitTx of a handler.  It is a step of its own because
\* the connection can drop, or the link be stopped, after what the handler
\* has already persisted and sent.
updateCommitTx(n) ==
    /\ up /\ mustSign[n] /\ failed[n] = none
    /\ mustSign' = [mustSign EXCEPT ![n] = FALSE]
    /\ IF OweCommitment(n) /\ pending[n] = none
       THEN signNextCommitment(n)
       ELSE UNCHANGED <<disk, net>>
    /\ UNCHANGED <<log, rlog, synced, up, drops, failed>>

\* The batch ticker runs while local updates wait for a signature.
BatchTick(n) ==
    /\ Ready(n) /\ NumPendingUpdates(n) > 0
    /\ signNextCommitment(n)
    /\ UNCHANGED <<log, rlog, mustSign, synced, up, drops, failed>>

Receives(n, type) ==
    /\ Ready(n) /\ net[n] # <<>> /\ Head(net[n]).type = type

\* ReceiveHTLC, ReceiveHTLCSettle, ReceiveFailHTLC, ReceiveUpdateFee: an add
\* must carry the next HTLC id, a removal must name an HTLC this end offered
\* that is not being removed already, a fee must come from the initiator.
ValidUpdate(n, u) ==
    CASE u.kind = "add" -> u.id = htlcCounter(rlog[n])
      [] u.kind = "rm" -> Offered(log[n], u.id) /\ ~ Removed(rlog[n], u.id)
      [] u.kind = "fee" -> n # Initiator

ReceiveUpdate(n) ==
    LET u == Head(net[n]).update
    IN  /\ Receives(n, "update")
        /\ IF ValidUpdate(n, u)
           THEN /\ rlog' = [rlog EXCEPT ![n] = Append(@, u)]
                /\ Reply(n, <<>>)
                /\ UNCHANGED <<log, disk, mustSign, synced, up, drops, failed>>
           ELSE Fail(n, "ErrInvalidUpdate")

\* ReceiveNewCommitment then RevokeCurrentCommitment: check the signature
\* against the commitment this end derives from its whole remote log and the
\* local updates the peer has acked, make it the local tail, persist, and send
\* the revocation of the old one.
ReceiveCommitSig(n) ==
    LET next == Commit(local[n].height + 1, tail[n].own, Len(rlog[n]))
        msg == Head(net[n])
    IN  /\ Receives(n, "commit_sig")
        /\ IF /\ msg.height = next.height
              /\ msg.offered = rlog[n]
              /\ msg.received = Take(log[n], next.own)
           THEN /\ local' = [local EXCEPT ![n] = next]
                /\ lastWasRevoke' = [lastWasRevoke EXCEPT ![n] = TRUE]
                /\ Reply(n, <<Revoke(local[n].height)>>)
                /\ mustSign' = [mustSign EXCEPT ![n] = TRUE]
                /\ UNCHANGED <<log, rlog, tail, pending, fwd, synced, up,
                               drops, failed>>
           ELSE Fail(n, "ErrInvalidCommitment")

\* ReceiveRevocation: the pending tip becomes the tail, and the peer's updates
\* it adds to the tail, already on the local commitment, are handed on.
\* Mutant: handed on as soon as they are on the local commitment.
Locked_Early(n) == SubSeq(rlog[n], tail[n].their + 1, local[n].their)
Locked(n) ==
    SubSeq(Take(rlog[n], local[n].their), tail[n].their + 1, pending[n].their)

\* Mutant: no signature follows an accepted revocation.
ReceiveRevocation_NoReply(n) ==
    /\ Receives(n, "revoke_and_ack")
    /\ IF pending[n] # none /\ Head(net[n]).height = tail[n].height
       THEN /\ fwd' = [fwd EXCEPT ![n] = @ \o Forwarded(Locked(n))]
            /\ tail' = [tail EXCEPT ![n] = pending[n]]
            /\ pending' = [pending EXCEPT ![n] = none]
            /\ Reply(n, <<>>)
            /\ UNCHANGED <<log, rlog, local, lastWasRevoke, mustSign, synced, up,
                           drops, failed>>
       ELSE Fail(n, "ErrInvalidRevocation")

ReceiveRevocation(n) ==
    /\ Receives(n, "revoke_and_ack")
    /\ IF pending[n] # none /\ Head(net[n]).height = tail[n].height
       THEN /\ fwd' = [fwd EXCEPT ![n] = @ \o Forwarded(Locked(n))]
            /\ tail' = [tail EXCEPT ![n] = pending[n]]
            /\ pending' = [pending EXCEPT ![n] = none]
            /\ Reply(n, <<>>)
            /\ mustSign' = [mustSign EXCEPT ![n] = TRUE]
            /\ UNCHANGED <<log, rlog, local, lastWasRevoke, synced, up, drops,
                           failed>>
       ELSE Fail(n, "ErrInvalidRevocation")

-----------------------------------------------------------------------------
\* The connection drops: messages in flight are lost.  Each end rebuilds its
\* channel from disk for the next connection (restoreStateLogs), where its own
\* updates survive up to the newest remote commitment and the peer's up to the
\* local commitment.
Restart ==
    /\ log' = [n \in Nodes |-> Take(log[n], Tip(n).own)]
    /\ rlog' = [n \in Nodes |-> Take(rlog[n], local[n].their)]
    /\ mustSign' = [n \in Nodes |-> FALSE]
    /\ synced' = [n \in Nodes |-> FALSE]
    /\ net' = [n \in Nodes |-> <<>>]

\* Mutant: the commit diff was sent before it was persisted.
Disconnect_LosesDiff ==
    /\ up /\ drops < MaxDrops
    /\ up' = FALSE
    /\ drops' = drops + 1
    /\ Restart
    /\ pending' = [n \in Nodes |-> none]
    /\ UNCHANGED <<local, tail, lastWasRevoke, fwd, failed>>

Disconnect ==
    /\ up /\ drops < MaxDrops
    /\ up' = FALSE
    /\ drops' = drops + 1
    /\ Restart
    /\ UNCHANGED <<disk, failed>>

\* Both links start and send ChannelReestablish first.
Reconnect ==
    /\ ~up
    /\ up' = TRUE
    /\ net' = [n \in Nodes |-> <<Reestablish(Peer(n))>>]
    /\ UNCHANGED <<log, rlog, disk, mustSign, synced, drops, failed>>

\* What a reestablishment may have to send again: the revocation of the
\* commitment before the local tail, and the pending commitment with the
\* updates it added, in the order in which they were first sent.
\* Mutants: the secret of the current commitment is revealed; the persisted
\* commitment is not sent again; LastWasRevoke is ignored.
OwedRevocation_Current(n) == Revoke(local[n].height)
OwedRevocation(n) == Revoke(local[n].height - 1)

CommitDiff_Dropped(n) == <<>>
CommitDiff(n) ==
    LET diff == SubSeq(log[n], tail[n].own + 1, pending[n].own)
    IN  [i \in 1 .. Len(diff) |-> Update(diff[i])]
            \o <<CommitSig(n, pending[n])>>

Resent_RevokeFirst(n, revs, sigs) == revs \o sigs
Resent(n, revs, sigs) ==
    IF lastWasRevoke[n] THEN sigs \o revs ELSE revs \o sigs

\* ProcessChanSyncMsg: compare the peer's heights with both chains, and send
\* what it has not seen.  A signature this end owes goes with a revocation.
SyncError(n, msg) ==
    IF msg.tail > local[n].height THEN "ErrCommitSyncLocalDataLoss"
    ELSE IF msg.tail + 1 < local[n].height THEN "ErrCommitSyncRemoteDataLoss"
    ELSE IF msg.next > Tip(n).height + 1 THEN "ErrCannotSyncCommitChains"
    ELSE IF msg.next <= tail[n].height THEN "ErrCommitSyncRemoteDataLoss"
    ELSE none

ProcessChanSyncMsg(n) ==
    LET msg == Head(net[n])
        oweRevoke == msg.tail + 1 = local[n].height
        oweDiff == msg.next = Tip(n).height
        signs == oweRevoke /\ OweCommitment(n) /\ pending[n] = none
        revs == IF oweRevoke THEN <<OwedRevocation(n)>> ELSE <<>>
        new == IF signs THEN <<CommitSig(n, NextCommit(n))>> ELSE <<>>
    IN  /\ up /\ ~synced[n] /\ failed[n] = none /\ net[n] # <<>>
        /\ IF SyncError(n, msg) # none THEN Fail(n, SyncError(n, msg))
           ELSE /\ synced' = [synced EXCEPT ![n] = TRUE]
                /\ Reply(n, IF oweDiff THEN Resent(n, revs, CommitDiff(n))
                            ELSE revs \o new)
                /\ IF signs
                   THEN /\ pending' = [pending EXCEPT ![n] = NextCommit(n)]
                        /\ lastWasRevoke' = [lastWasRevoke EXCEPT ![n] = FALSE]
                   ELSE UNCHANGED <<pending, lastWasRevoke>>
                /\ UNCHANGED <<log, rlog, local, tail, fwd, mustSign, up,
                               drops, failed>>

-----------------------------------------------------------------------------
Outcomes == {"settle", "fail"}

\* What the switch, the registry and the fee estimator ask a link to send.
Request(n) ==
    \/ \E p \in Payloads : AddHTLC(n, p)
    \/ \E id \in 0 .. MaxUpdates, o \in Outcomes : RemoveHTLC(n, id, o)
    \/ \E p \in Payloads : UpdateFee(n, p)

Handle(n) ==
    \/ ReceiveUpdate(n)
    \/ ReceiveCommitSig(n)
    \/ ReceiveRevocation(n)
    \/ ProcessChanSyncMsg(n)

Next ==
    \/ \E n \in Nodes : Request(n) \/ Handle(n) \/ updateCommitTx(n) \/ BatchTick(n)
    \/ Disconnect
    \/ Reconnect

\* A link that has a message, a tick or a handler to finish eventually does so,
\* and the connection manager retries.  Nobody is obliged to ask for updates,
\* and the connection drops finitely often.
Fairness ==
    /\ WF_vars(Reconnect)
    /\ \A n \in Nodes : /\ WF_vars(Handle(n))
                        /\ WF_vars(updateCommitTx(n))
                        /\ WF_vars(BatchTick(n))

Spec == Init /\ [][Next]_vars
FairSpec == Spec /\ Fairness

-----------------------------------------------------------------------------
UpdateType == [kind : {"add", "rm", "fee"}, id : Nat,
               payload : Payloads \cup Outcomes]
MessageType ==
    [type : {"update"}, update : UpdateType]
    \cup [type : {"commit_sig"}, height : Nat, offered : Seq(UpdateType),
          received : Seq(UpdateType)]
    \cup [type : {"revoke_and_ack"}, height : Nat]
    \cup [type : {"channel_reestablish"}, next : Nat, tail : Nat]

\* Types, and that the indices of the commitments are covered by the logs.
TypeOK ==
    /\ log \in [Nodes -> Seq(UpdateType)]
    /\ rlog \in [Nodes -> Seq(UpdateType)]
    /\ local \in [Nodes -> CommitType]
    /\ tail \in [Nodes -> CommitType]
    /\ pending \in [Nodes -> CommitType \cup {none}]
    /\ lastWasRevoke \in [Nodes -> BOOLEAN]
    /\ fwd \in [Nodes -> Seq(UpdateType)]
    /\ mustSign \in [Nodes -> BOOLEAN]
    /\ synced \in [Nodes -> BOOLEAN]
    /\ net \in [Nodes -> Seq(MessageType)]
    /\ up \in BOOLEAN /\ drops \in 0 .. MaxDrops /\ DOMAIN failed = Nodes
    /\ \A n \in Nodes : /\ local[n].own <= tail[n].own
                        /\ Tip(n).own <= Len(log[n])
                        /\ Tip(n).their <= local[n].their
                        /\ local[n].their <= Len(rlog[n])

\* Two correct nodes never fail a link: every commitment signature verifies,
\* every HTLC id is the expected one, every revocation matches, and every
\* reestablishment finds the two ends at most one step apart, however updates
\* cross in flight and wherever connections drop.
NeverFails == \A n \in Nodes : failed[n] = none

\* Whatever commitment an end could broadcast, its peer holds on disk as the
\* tail or the pending tip of its remote chain, with the same height and the
\* same contents: that is what lets the peer react to it on chain.
PeerKnowsCommitment ==
    \A n \in Nodes : \E c \in {tail[Peer(n)], Tip(Peer(n))} :
        /\ c.height = local[n].height
        /\ Take(log[Peer(n)], c.own) = Take(rlog[n], local[n].their)
        /\ Take(rlog[Peer(n)], c.their) = Take(log[n], local[n].own)

\* An update is handed to the switch only when it is irrevocable: it is on the
\* newest commitment of both ends, in the offerer's order, once, and survives
\* the loss of every message and of both ends' memory.
ForwardedLockedIn ==
    \A n \in Nodes :
        /\ IsPrefix(fwd[n], Forwarded(Take(rlog[n], local[n].their)))
        /\ IsPrefix(fwd[n], Forwarded(Take(log[Peer(n)], local[Peer(n)].own)))

\* The revocation secret of the commitment an end would broadcast never
\* leaves it: in flight and accepted revocations are of older ones, also when
\* a reestablishment sends them again.
SecretKept ==
    \A n \in Nodes :
        /\ tail[Peer(n)].height <= local[n].height
        /\ \A i \in 1 .. Len(net[Peer(n)]) :
              LET msg == net[Peer(n)][i]
              IN  msg.type = "revoke_and_ack" => msg.height < local[n].height

\* A signature that was persisted is acknowledged, over as many connections as
\* it takes.
SignatureAcked ==
    \A n \in Nodes : pending[n] # none ~> pending[n] = none

\* "If the remote party initiated the state transition, we'll reply with a
\* signature" (processRemoteCommitSig): the peer's updates an end has acked
\* reach the peer's own commitment as well, however the two directions' windows
\* are used up meanwhile.  Only as long as the connection holds: nobody makes
\* up for the reply when it drops between the revocation and the signature.
AckedUpdatesSigned ==
    \A n \in Nodes :
        (drops = 0 /\ local[n].their > Tip(n).their)
            ~> (drops > 0 \/ local[n].their = Tip(n).their)

\* The points an update passes, as far as the switch is concerned.
signedUpdates == [n \in Nodes |-> Forwarded(Take(log[n], Tip(n).own))]
ackedUpdates == [n \in Nodes |-> Forwarded(Take(rlog[n], local[n].their))]
mutualUpdates == [n \in Nodes |-> Forwarded(Take(log[n], local[n].own))]

Dlv == INSTANCE Delivery WITH signed <- signedUpdates, acked <- ackedUpdates,
                              mutual <- mutualUpdates, handed <- fwd

\* The protocol delivers: what an end has signed for is never lost or replaced
\* over a lost connection, the peer accepts all of it at once, and its switch
\* is given exactly what has reached both ends' commitments, in order and once.
ImplementsDelivery == Dlv!DeliverySpec
=============================================================================
