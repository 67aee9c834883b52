------------------------------ MODULE EvmWatch ------------------------------
(***************************************************************************)
(* The EVM watchtower of one channel (watchtower/evmtower): the client's   *)
(* backup agent ships the latest co-signed state to the tower's server,    *)
(* which stores it on disk; the tower's lookout scans the ChannelManager's *)
(* logs for a force close and, when the broadcast nonce is below the       *)
(* backup's, relays penalize.                                              *)
(*                                                                         *)
(* The chain is its tip and the blocks of the two events that matter.  A   *)
(* reorganisation replaces blocks less than MaxReorg below the highest tip *)
(* there ever was.  The tower's wall clock is that highest tip.            *)
(***************************************************************************)
EXTENDS Integers, FiniteSets, FiniteSetsExt

CONSTANTS
    None,
    MaxReorg,         \* blocks a reorganisation may replace
    ReorgDepth,       \* blocks the lookout holds back
    WindowSize,       \* block span of one eth_getLogs query
    FromBlock,        \* where the scan starts, 0 for a window below the tip
    ChallengePeriod,  \* in blocks
    MaxTip, MaxNonce, \* bound the chain and the channel's updates
    MaxFaults         \* bounds reorganisations, failures and restarts

ASSUME WatchAssumption ==
    /\ {MaxReorg, ReorgDepth, FromBlock, MaxNonce, MaxFaults} \subseteq Nat
    /\ {WindowSize, ChallengePeriod, MaxTip} \subseteq Nat \ {0}
    /\ None \notin Nat

VARIABLES
    tip, best,  \* height of the chain, and the highest it has been
    close,      \* the force close on the chain: [at, nonce], or None
    penalty,    \* the accepted penalize call: [at, nonce], or None
    relayed,    \* nonces of penalize calls sent and not yet mined
    nonce,      \* height of the client's latest co-signed commitment
    open,       \* the channel is among the client's open channels
    sent,       \* agent: highest nonce the tower acknowledged, in memory
    upload,     \* agent: the Put under way, [nonce, acked], or None
    inbox,      \* nonces that server connections have yet to handle
    store,      \* nonce of the backup file, 0 when there is none
    cursor,     \* lookout: next block to scan, None before the first scan
    scan,       \* lookout: the block range being queried, or None
    done,       \* lookout: it penalized this channel during this run
    handled,    \* the closes this run of the lookout has judged
    faults      \* reorganisations, failures and restarts so far

chain == <<tip, best, close, penalty>>
client == <<nonce, open>>
agent == <<sent, upload>>
lookout == <<cursor, scan, done, handled>>
vars == <<chain, relayed, client, agent, inbox, store, lookout, faults>>

Fault == faults < MaxFaults /\ faults' = faults + 1

Init ==
    /\ tip = 1 /\ best = 1 /\ close = None /\ penalty = None /\ relayed = {}
    /\ nonce = 0 /\ open = TRUE /\ sent = 0 /\ upload = None /\ inbox = {} /\ store = 0
    /\ cursor = None /\ scan = None /\ done = FALSE /\ handled = {} /\ faults = 0

-----------------------------------------------------------------------------
(* The channel and the chain. *)

\* The two ends co-sign another state, as long as the channel is open.
Advance ==
    /\ open /\ close = None /\ nonce < MaxNonce
    /\ nonce' = nonce + 1
    /\ UNCHANGED <<open, chain, relayed, agent, inbox, store, lookout, faults>>

\* The client's chain watcher sees the close and records it: the channel leaves
\* the open set, and a reorganisation does not bring it back.
CloseRecorded ==
    /\ open /\ close # None
    /\ open' = FALSE
    /\ UNCHANGED <<nonce, chain, relayed, agent, inbox, store, lookout, faults>>

Closed(c, height) == c # None /\ height >= c.at + ChallengePeriod

\* A block without a call to the contract.
EmptyBlock ==
    /\ tip < MaxTip
    /\ tip' = tip + 1 /\ best' = Max({best, tip'})
    /\ UNCHANGED <<close, penalty, relayed, client, agent, inbox, store, lookout, faults>>

\* A block in which the peer force-closes with a state it holds.
CloseBlock(n) ==
    /\ tip < MaxTip /\ close = None
    /\ n \in 0 .. nonce
    /\ tip' = tip + 1 /\ best' = Max({best, tip'})
    /\ close' = [at |-> tip', nonce |-> n]
    /\ UNCHANGED <<penalty, relayed, client, agent, inbox, store, lookout, faults>>

\* A block with a relayed penalize call, which reverts unless the contract
\* holds an unpunished, unexpired close of a lower nonce.
PenaltyBlock(p) ==
    /\ tip < MaxTip /\ p \in relayed
    /\ tip' = tip + 1 /\ best' = Max({best, tip'})
    /\ relayed' = relayed \ {p}
    /\ penalty' = IF close # None /\ penalty = None /\ p > close.nonce
                     /\ ~ Closed(close, tip')
                  THEN [at |-> tip', nonce |-> p] ELSE penalty
    /\ UNCHANGED <<close, client, agent, inbox, store, lookout, faults>>

\* The sequencer drops the top k blocks; what they held is undone.
Reorg(k) ==
    /\ Fault
    /\ tip' = tip - k /\ tip' >= 1 /\ tip' >= best - MaxReorg
    /\ close' = IF close # None /\ close.at > tip' THEN None ELSE close
    /\ penalty' = IF penalty # None /\ penalty.at > tip' THEN None ELSE penalty
    /\ relayed' = IF penalty' # penalty THEN relayed \cup {penalty.nonce} ELSE relayed
    /\ UNCHANGED <<best, client, agent, inbox, store, lookout>>

-----------------------------------------------------------------------------
(* The client's backup agent and the tower's server. *)

\* Mutant: the nonce is recorded as pushed before the tower acknowledged it.
snapshot_Eager ==
    /\ open /\ upload = None /\ nonce > sent
    /\ upload' = [nonce |-> nonce, acked |-> FALSE]
    /\ sent' = nonce
    /\ inbox' = inbox \cup {nonce}
    /\ UNCHANGED <<chain, relayed, client, store, lookout, faults>>

\* A tick of the agent: an open channel (FetchAllOpenChannels) whose state has
\* advanced is put to the store, over a fresh connection.  A channel at height
\* 0 has no signature.
snapshot ==
    /\ open /\ upload = None /\ nonce > sent
    /\ upload' = [nonce |-> nonce, acked |-> FALSE]
    /\ inbox' = inbox \cup {nonce}
    /\ UNCHANGED <<chain, relayed, client, sent, store, lookout, faults>>

\* Mutant: the store takes every backup, the older of two connections too.
Put_Overwrite(n) == n

\* FileStore.Put keeps the backup with the higher nonce.
Put(n) == IF n > store THEN n ELSE store

\* A connection's handler decodes the backup, stores it and writes the status.
handle(n) ==
    /\ n \in inbox
    /\ inbox' = inbox \ {n}
    /\ store' = Put(n)
    /\ upload' = IF upload # None /\ upload.nonce = n
                 THEN [upload EXCEPT !.acked = TRUE] ELSE upload
    /\ UNCHANGED <<chain, relayed, client, sent, lookout, faults>>

\* RemoteStore.Put reads the status and the agent records the nonce.
Acknowledged ==
    /\ upload # None /\ upload.acked
    /\ sent' = upload.nonce /\ upload' = None
    /\ UNCHANGED <<chain, relayed, client, inbox, store, lookout, faults>>

\* The connection fails: Put returns an error and the next tick tries again.
\* What was written may still reach its handler, later.
PutFails ==
    /\ Fault
    /\ upload # None
    /\ upload' = None
    /\ inbox' \in {inbox, inbox \ {upload.nonce}}
    /\ UNCHANGED <<chain, relayed, client, sent, store, lookout>>

\* Put times out or reads the end of a connection nobody serves any more.
HungUp ==
    /\ upload # None /\ ~ upload.acked /\ upload.nonce \notin inbox
    /\ upload' = None
    /\ UNCHANGED <<chain, relayed, client, sent, inbox, store, lookout, faults>>

\* The client restarts; what it had pushed is forgotten.
ClientRestart ==
    /\ Fault
    /\ upload' = None /\ sent' = 0
    /\ UNCHANGED <<chain, relayed, client, inbox, store, lookout>>

-----------------------------------------------------------------------------
(* The tower's lookout. *)

\* Mutant: the newest blocks are scanned as well.
safeTip_NoHoldback == tip

\* The highest block the lookout scans, given the tip it has just read.
safeTip == IF tip > ReorgDepth THEN tip - ReorgDepth ELSE 0

\* Mutant: the scan waits for a block beyond the safe tip.
Scannable_Late(from) == from < safeTip

Scannable(from) == from <= safeTip

\* First half of a scan: the tip is read, the cursor anchored on the first
\* time, and the range of the query chosen.
scan_Tip ==
    LET anchor == IF FromBlock = 0 /\ tip > WindowSize THEN tip - WindowSize
                  ELSE FromBlock
        from == IF cursor = None THEN anchor ELSE cursor
    IN  /\ scan = None
        /\ cursor' = from
        /\ scan' = IF Scannable(from)
                   THEN [from |-> from, to |-> Min({from + WindowSize - 1, safeTip})]
                   ELSE None
        /\ <<cursor', scan'>> # <<cursor, scan>>
        /\ UNCHANGED <<chain, relayed, client, agent, inbox, store, done, handled, faults>>

\* The close the query returns, if it lies in the range.
Logs == IF close = None THEN {}
        ELSE {c \in {close} : c.at \in scan.from .. scan.to}

shouldPenalize(c) == store > c.nonce

\* handleClose gets past its early returns and calls Penalize.
Breaches == {c \in Logs : ~ done /\ shouldPenalize(c) /\ ~ Closed(c, best)}

\* Second half of a scan: the query succeeds, each close in it is handled, and
\* the cursor moves on, whatever became of a penalize call: an error of the
\* RPC node is logged and nothing else.
scan_Logs(relayFails) ==
    /\ scan # None
    /\ handled' = handled \cup Logs
    /\ IF relayFails
       THEN Fault /\ Breaches # {} /\ UNCHANGED <<relayed, done>>
       ELSE /\ relayed' = IF Breaches = {} THEN relayed ELSE relayed \cup {store}
            /\ done' = (done \/ Breaches # {})
            /\ UNCHANGED faults
    /\ cursor' = scan.to + 1 /\ scan' = None
    /\ UNCHANGED <<chain, client, agent, inbox, store>>

\* Mutant: a failed query moves the cursor all the same.
scan_Fails_Advance ==
    /\ Fault
    /\ scan # None
    /\ scan' = None /\ cursor' = scan.to + 1
    /\ UNCHANGED <<chain, relayed, client, agent, inbox, store, done, handled>>

\* The query fails; the range is tried again at the next poll.
scan_Fails ==
    /\ Fault
    /\ scan # None
    /\ scan' = None
    /\ UNCHANGED <<chain, relayed, client, agent, inbox, store, cursor, done, handled>>

\* The tower restarts: only the backup file survives.
TowerRestart ==
    /\ Fault
    /\ cursor' = None /\ scan' = None /\ done' = FALSE /\ handled' = {}
    /\ inbox' = {}
    /\ UNCHANGED <<chain, relayed, client, agent, store>>

-----------------------------------------------------------------------------
Next ==
    \/ Advance \/ CloseRecorded \/ EmptyBlock
    \/ \E n \in 0 .. MaxNonce : CloseBlock(n)
    \/ \E p \in relayed : PenaltyBlock(p)
    \/ \E k \in 1 .. MaxReorg : Reorg(k)
    \/ snapshot \/ Acknowledged \/ PutFails \/ HungUp \/ ClientRestart
    \/ \E n \in inbox : handle(n)
    \/ scan_Tip \/ scan_Fails \/ TowerRestart
    \/ \E relayFails \in BOOLEAN : scan_Logs(relayFails)

Spec == Init /\ [][Next]_vars

\* Blocks are produced, and the agent's and the lookout's tickers keep firing.
Fairness ==
    /\ WF_vars(EmptyBlock \/ \E p \in relayed : PenaltyBlock(p))
    /\ WF_vars(snapshot) /\ WF_vars(Acknowledged) /\ WF_vars(HungUp)
    /\ WF_vars(\E n \in inbox : handle(n))
    /\ WF_vars(scan_Tip) /\ WF_vars(\E f \in BOOLEAN : scan_Logs(f))

FairSpec == Spec /\ Fairness

-----------------------------------------------------------------------------
(* Properties *)

\* The variables have their types; in particular a scanned range is one of
\* block heights (Lookout.scan computes them in unsigned arithmetic).
TypeOK ==
    /\ tip \in 1 .. MaxTip /\ best \in tip .. MaxTip
    /\ close \in [at : 1 .. tip, nonce : 0 .. nonce] \cup {None}
    /\ penalty \in [at : 1 .. tip, nonce : 1 .. nonce] \cup {None}
    /\ relayed \subseteq 1 .. nonce /\ inbox \subseteq 1 .. nonce
    /\ nonce \in 0 .. MaxNonce /\ open \in BOOLEAN /\ sent \in 0 .. nonce /\ store \in 0 .. nonce
    /\ upload \in [nonce : 1 .. nonce, acked : BOOLEAN] \cup {None}
    /\ cursor \in Nat \cup {None}
    /\ scan \in [from : Nat, to : Nat] \cup {None}
    /\ scan # None => scan.to \in scan.from .. best
    /\ done \in BOOLEAN /\ handled \subseteq [at : Nat, nonce : Nat]
    /\ faults \in 0 .. MaxFaults

\* What the agent holds for pushed is on the tower's disk, whatever was lost,
\* delayed or delivered by an older connection after a newer one: the agent
\* never uploads that nonce again (agent.go snapshot, filestore.go Put).
SentMeansStored == sent <= store

\* The lookout never leaves a close behind: one that is on the chain below the
\* cursor was judged in this run, so no window boundary, failed query or
\* reorganisation of the scanned blocks hides it (lookout.go scan).
NoMissedClose ==
    close # None /\ cursor # None /\ close.at >= FromBlock /\ close.at < cursor
        => close \in handled

\* A penalize call under way is one the contract's nonce check accepts: the
\* close it answers is still on the chain with the lower nonce, as the lookout's
\* hold-back is there to ensure (lookout.go, Config.ReorgDepth).
NoWastedPenalize ==
    \A p \in relayed : close # None /\ p > close.nonce

\* The tower ends up with the latest state of an open channel that is no longer
\* updated, whatever was lost on the way (agent.go).  Only of an open one: once
\* the client has recorded a close, a state whose upload failed before is never
\* uploaded again, and the tower has to judge the close by an older one.
BackupCaughtUp == <>[](open => store = nonce)

\* Every close that is buried deep enough is judged in the end, after any
\* restart of the tower (lookout.go scan).
EveryCloseScanned ==
    <>[](close # None /\ close.at >= FromBlock /\ close.at + ReorgDepth <= MaxTip
            => close \in handled)
=============================================================================
