# Loka p2p lnd: a TLA+ verification project

Loka p2p lnd is a fork of lnd, the Lightning Network daemon, whose channels
settle on an EVM chain (or on Sui) instead of Bitcoin. Off chain it runs lnd's
commitment protocol and HTLC switch unchanged; on chain a Solidity contract
holds the deposits, and new Go code turns commitments into messages the
contract accepts and reacts to its events. These modules model that system from
the Go, Solidity and Move source, check it with TLC on small instances and
prove with TLAPS that the EVM contract conserves value, stays solvent and
implements an escrow, that the Sui contract pays every coin where it belongs and
its breach remedy is sound, that the watchtower skips no close, that the switch
forwards an HTLC once and can always route its response, that two links stay in
step over lost connections, deliver every signed update and sign the same on-chain
state with the same Merkle root, that HTLC proofs are sound and complete, that a
payment never pays twice and that all its records agree.

Paths below are relative to the repository (`src/`). `PROJECT.json` lists, for
every definition, the lines it models.

## 1. The system's parts

| Part | Code | State it keeps | Operations | Module |
|---|---|---|---|---|
| Settlement contract | `evm-contracts/channel-manager/src/ChannelManager.sol` | channels, resolved HTLC indices, pooled token balance | open, cooperative close, force close, penalize, claim, timeout, distribute | `ChannelManager`, `Escrow` |
| Commitment state machine | `lnwallet/channel.go`, `update_log.go`, `commitment_chain.go`, `channeldb/channel.go` | two update logs, two commitment chains, the pending commit diff | add, settle/fail, sign, receive signature, revoke, receive revocation, restore, resynchronise | `CommitProtocol`, `Delivery` |
| Link | `htlcswitch/link.go` | batch of updates, forwarding packages, keystone batch | event loop over the two sides' messages, start, stop, replay | `CommitProtocol`, `HtlcForward` |
| EVM artifacts | `lnwallet/evm_commitment.go` | none (pure) | commitment to StateUpdate, balance split, HTLC leaves, conservation assertion | `EvmClose` |
| HTLC Merkle tree | `input/evm_merkle.go` | none (pure) | root, proof, verification | `EvmMerkle`, `HtlcMerkle` |
| Close watcher and settler | `contractcourt/evm_close.go`, `evm_settler.go` | what was dispatched; in memory the HTLCs still to resolve | classify the close, penalize, resolve, distribute | `EvmClose` |
| EVM wallet, EVM notifier | `lnwallet/evmwallet/`, `chainntnfs/evmnotify/` | account nonce, subscriptions | publish, block epochs, close events | `EvmClose` (their effect) |
| Circuit map | `htlcswitch/circuit_map.go` | circuits and keystones, on disk and in memory | commit, open, trim, close, fail, delete, restore | `CircuitMap` |
| Switch, mailboxes | `htlcswitch/switch.go`, `mailbox.go` | one mailbox per link | forward an add, route a response, ack, expire, reforward at start | `HtlcForward`, `Relay` |
| EVM watchtower | `watchtower/evmtower/` | client: the nonce acknowledged, in memory; tower: backup files, scan cursor and penalized channels in memory | back up a state, store it, scan for closes, relay penalize | `EvmWatch` |
| Sui contract | `sui-contracts/lightning/sources/lightning.move` | one shared object per channel with its escrow, HTLC table, breach window | open, close, force close, sweep, claim, time out, penalize | `SuiChannel` |
| Sui commitment payload | `lnwallet/channel.go`, `contractcourt/channel_arbitrator.go` | none (derived) | derive what is signed, derive what is published | `SuiClose` |
| Invoice registry | `invoices/`, `htlcswitch/link.go` (exit hop) | invoices and their HTLCs on disk; subscriptions, release timers, expiry watcher in memory | accept, hold, release, settle, cancel, expire, replay | `InvoiceRegistry` |
| Payment life cycle | `routing/payment_lifecycle.go`, `control_tower.go`, `payments/db/` | payment, attempts and failure reason on disk | decide the next step, register, send, collect, fail, resume | `Payment` |
| Result store | `htlcswitch/payment_result.go`, `switch.go` (local) | results of local HTLCs, their circuits | store, acknowledge, tear down, subscribe | `Payment` |

How they interact. A link drives the commitment state machine of its channel
and exchanges messages with the peer's link over a connection that may drop.
Every signature also signs the EVM StateUpdate derived from the commitment, so
`evm_commitment.go` must derive the same one at both ends. Updates locked in on
both commitments go, in forwarding packages, to the switch, which records a
circuit and puts a packet in the next link's mailbox; responses find their way
back through the circuit map. When a node force-closes, its wallet submits the
latest StateUpdate; both nodes' watchers see the contract's event and either
penalize or start a settler, which resolves the HTLCs with Merkle proofs and
calls `distributeFunds`. A client's backup agent also ships every co-signed
state to a watchtower, whose lookout scans the contract's logs and relays
`penalize` when the client does not. On Sui the same commitment is signed as a
payload that `force_close` recomputes, and a published commitment is punished
with its revocation secret instead of a newer state.

At the ends of a route a payment's life cycle registers attempts in the
database before it hands them to the switch, and learns their fate through the
result store; the last hop's link gives each HTLC to the invoice registry and
waits for its verdict, which a timer, the user, the expiry watcher or the
completion of the HTLC set may bring.

What is hard: the two commitment chains advance independently and are cut at
any point by lost connections; the switch keeps half of its state in memory and
replays the rest after links flap or the node crashes; the close path compares
heights of two chains, block heights with timestamps, and forgets transactions
it has handed over. The watchtower's scan meets reorganisations, and its queue
of uploads a server that answers late or not at all. In a payment five stores
are written one after the other by two nodes that may restart between any two
writes, and the registry's timers run beside the calls of the link.
`PROJECT.json` lists these hazards with their lines.

What makes each part correct:

- contract: no order of calls creates, loses or locks value;
- commitment protocol: no honest sequence of messages makes a link fail, no
  live commitment's secret is revealed, nothing is forwarded before it is
  locked in;
- switch: an HTLC is forwarded once, is failed back only when that is safe, and
  a preimage always finds its way back;
- close path: both ends hold the same artifact, evidence is accepted, every
  close is paid out, and only dishonest closes are punished;
- watchtower: what the client takes for backed up is, no close is skipped, no
  penalty is sent for a close that a reorganisation removes;
- Sui contract: whatever is published, each side gets its share of it, and until
  the delay has passed a revoked commitment can be punished in full;
- payment: never more than its amount is at stake, a failure is final, all
  records of an HTLC agree, the receiver is paid in whole or not at all, and
  nothing is held for ever.

## 2. Modules and how they correspond to the code

`Escrow` is the abstract promise of the contract: a deposit is locked once and
paid out once, in full, and no other step moves tokens.

`ChannelManager` has one action per external state-changing function. A revert
is a disabled action: the conjuncts of an action are its `require`s and custom
errors. Digests are records, an ECDSA signature is a `[signer, digest]` pair in
a growing set, an HTLC root is the set of its leaves (`HtlcMerkle` is about the
tree itself). `Sign` and `Tick` are the environment. What the parties co-sign
is arbitrary, malformed HTLC sets included: the contract cannot see it.

`CommitProtocol` models a commitment by its height and how many updates of each
log it covers; a signature carries the contents the signer derives and is valid
when the receiver derives the same. `log`, `rlog`, `local`, `tail`, `pending`
are `updateLogs` and `commitChains`; `disk` is what `channeldb` persists.
`updateCommitTx` is a step of its own because `link.go` may be stopped after
what a handler has already persisted and sent. `Disconnect` loses everything in
flight and reloads both ends from disk; `ProcessChanSyncMsg` is
`channel_reestablish`.

`Delivery` is the abstract promise of the channel to the two switches, without
messages, heights or revocations. The updates of one end pass four points, each
holding a beginning of the same sequence: `signed` (covered by its persisted
signatures), `acked` (on the peer's newest commitment), `mutual` (on its own as
well), `handed` (given to the peer's switch). Each is only ever extended; `acked`
takes all that is signed, `handed` all that is mutual. `CommitProtocol` maps them to
the logs cut at its commitments, and `fwd`. `Delivery` makes no promise of progress.

`EvmClose` composes two links (`EXTENDS CommitProtocol`) with the contract
(`CM == INSTANCE ChannelManager`), the artifact builder, each node's watcher and
settler, and a chain with separate heights and timestamps. What a node signs and
verifies (`Artifact`) is the StateUpdate together with the Merkle root that the node
computes itself, over its own list: outgoing HTLCs first, sorted by index, equal
indices in the order of the list (`Position`, `RootOf`). The peer verifies a
signature against the artifact it derives (`Signed`, `Derived`); a link that
`Refuses` one takes no further step, and the channel can only be force-closed, as
`link.go` does on an invalid signature. On the side of the contract a root is the
set of its leaves, as in `ChannelManager`. The signatures given to the contract are
exactly those the nodes retain. A published call waits in its account's queue,
since `evmwallet` numbers transactions sequentially, and may revert without anyone
being told.

`CircuitMap` and `HtlcForward` model one incoming and one outgoing channel and
the switch between them: replay of forwarding packages, mailboxes with acks,
expiry and rewind, keystones written before the outgoing signature, the
pipelined settle, circuits deleted after the incoming signature. Only signed
updates survive a stop; only the variables of the first group survive a
`Restart`.

`Relay` is the abstract promise of forwarding to the two neighbours, who see what is
locked in and what is signed and nothing else: `received`, `offered` (in order),
`outcome` (the outgoing peer's answers) and `answered`. They are the variables of
`HtlcForward` that are on disk, `lockedIn`, `sent`, `resp` and `answered`.

`SuiChannel` has one action per entry function of the Move module. Channels
share no state there, so one object stands for all. A signature is membership
of the commitment in `Commitments`, a hash is its preimage, and the environment
decides which preimages and revocation secrets are known. `force_close` does
not look at the sum of the balances and HTLCs, nor do `htlc_claim` and
`htlc_timeout` at the status, and neither does the model. `SuiClose` adds the
node's side: which revocation hash the two ends sign and which one the
arbitrator publishes.

`EvmWatch` models one channel's backup agent, the tower's server, its file
store and its lookout, over a chain of which the tip, the close and the accepted
penalty matter. Each scan is two steps, the reading of the tip and the query of
the logs, so that the chain moves between them; a relayed penalize may be mined
later, after a reorganisation, or never. The agent backs up what
`FetchAllOpenChannels` returns: from the moment the client records the close
(`CloseRecorded`) the channel is not in it, and nothing is uploaded any more.

`InvoiceRegistry` models one invoice, regular or hodl, and the exit-hop link.
`NotifyExitHopHtlc` is two steps (the database update, then the subscription),
because `cancelSingleHtlc` runs in the event loop without the registry's lock.
`Payment` extends it with the sender: each write to a database (attempt,
failure reason, circuit, result) is an action of its own. `SenderRestart`,
`ReceiverRestart` and `LinkRestart` lose what is in memory and run the start-up
code. The network forwards an HTLC or fails it.

`EvmMerkle` translates sorting, levels, root, proof and verification; the hash
is a free constructor of an unordered pair (`commutativeHash` sorts its
arguments). The loops over levels, over the path (`Walk`) and over the proof
(`Folded`) are recursive functions. `HtlcMerkle` applies it to every list that a
commitment can have, which `Offer` and `RemoveHTLC` produce; `EvmClose` applies it
to the commitments of the protocol.

The `MC*` modules give values to constants for TLC. Operators named
`X_Variant`, next to the operator `X` they alter, are faulty versions of `X`
used to confirm that the properties can fail; nothing else refers to them.

## 3. What is checked

`tlc -config X.cfg M`, with the `.cfg` files in this directory. Runs marked ✗
are expected to find a violation: each quotes a statement of the source that
the code does not meet (section 6).

| Run | Module | What it shows |
|---|---|---|
| `dispute` | MCChannelManager | over every order of calls on a channel with an honest and a malformed HTLC set: payouts and pool add up (`Conservation`), the pooled account is exactly the open deposits (`Solvency`), well-formed HTLCs stay resolvable (`EveryHtlcResolvable`), the contract refines the escrow (`ImplementsEscrow`), a close is paid out (`EventuallyPaid`) |
| `commit` | MCCommitProtocol | two correct nodes never fail a link (`NeverFails`), the peer always holds the commitment a node could publish (`PeerKnowsCommitment`), only irrevocable updates are forwarded (`ForwardedLockedIn`), the live secret stays (`SecretKept`), the two ends implement the delivery of updates (`ImplementsDelivery`), a persisted signature is eventually revoked for (`SignatureAcked`), and while the connection holds the peer's acked updates are signed (`AckedUpdatesSigned`) |
| `close` | MCEvmClose | what a node could publish is what its peer signed, root included, and accounts for the deposit, and no signature is refused unless HTLCs of the two directions share an index (`SameArtifact`); breach evidence is accepted (`BreachEvidenceAccepted`); what a settler has crossed off is resolved on chain, or the deposit has been paid out (`NothingPendingMeansResolved`); a close is paid out although settlers give up after three attempts, apart from four named cases (`CloseFinalized`, section 6) |
| `honest` ✗ | MCEvmClose | `HonestNotPunished`: a node that publishes its latest commitment can be penalized |
| `merkle_proof` | MCHtlcMerkle | every HTLC of a one-way set is provable, whichever removals went before (`ProofsVerify`) |
| `merkle_both` ✗ | MCHtlcMerkle | `RootsAgree`: with HTLCs in both directions the two ends compute different roots |
| `forward` | MCHtlcForward | the node implements the relay: an HTLC is offered onwards once and not after it was answered, answers are final (`ImplementsRelay`); its response can always be routed (`ResponseRoutable`) and circuits are collected (`CircuitsCollected`); and as long as the keystones of unsigned HTLCs have no gap (`Gapless`), it is failed back only when that is safe (`FailsSafely`), keystones never collide (`KeystonesFresh`) and a locked-in preimage settles the incoming HTLC (`SettlePropagates`) |
| `keystone_gap` ✗ | MCHtlcForward | `FailedMeansFailed`: without that condition an incoming HTLC is failed back while the outgoing one is live |
| `sui` | MCSuiChannel | over every order of the contract's calls with live and revoked commitments: each side gets its share of what was published and no coin stays in a closed object (`Entitled`), the publisher gets nothing inside the delay (`BreachRemedy`), a penalty inside it takes everything (`PenaltyComplete`), and the escrow covers every credit and every pending HTLC (`CreditCovered`) |
| `sui_publish` ✗ | MCSuiClose | `CloseAccepted`: the contract aborts the arbitrator's force close of any commitment after the first |
| `watch` | MCEvmWatch | under lost answers, failed queries, reorganisations and restarts: what the agent holds for pushed is on the tower's disk (`SentMeansStored`), no close is left behind the cursor (`NoMissedClose`), no penalize is under way for a close that is gone (`NoWastedPenalize`), the backup of a channel that stays open catches up (`BackupCaughtUp`), every buried close is judged (`EveryCloseScanned`) |
| `payment` | MCPayment | a split payment with a restart anywhere: never more than the amount is out (`NoDoublePay`), a failed payment is unpaid (`FailedIsUnpaid`), the sender's database agrees with the network (`OutcomesAgree`) and the receiver's with its link (`ResolutionsAgree`), the set is settled as a whole (`WholeSetSettled`), the payment ends (`PaymentEnds`) and no HTLC is held for ever (`HtlcReleased`) |

### Bounds

- `dispute`: two users with one salt, hence a channel in each direction over one
  pooled account; one unit-sized and one malformed HTLC set of two leaves, each
  in a state of its own nonce. Two nonces are needed for a penalty; two leaves
  for a pool that one claim leaves non-empty; a leaf larger than the pool and a
  stranger as recipient are the two ways a set can be unresolvable. `MaxTime` 5
  exceeds window plus emergency delay for a close at time 0 or 1.
  `EventuallyPaid` speaks only of closes whose hatch opens within `MaxTime`.
- `commit`: two updates per log, which lets an add and the removal of the peer's
  add be in flight at both ends; two disconnections, so that a resynchronisation
  is itself cut. `BatchSize` 2 gives both ways of signing (batch full, tick).
  Larger instances were explored by hand without a violation: two payloads with
  one drop (1.2 million states) and three updates with one drop (8.8 million).
- `close`: the run starts from `Synced` (in `MCEvmClose`), where both ends are at
  height 3, alice has offered the HTLC with index 0, bob the one with index 1 after
  his index 0 was failed, and each may send one more update: a third HTLC, a
  settle or a fail. That gives HTLCs in each direction with different indices, with
  the same one and with only some the same, and commitments one height apart; it
  includes the two HTLCs of one direction and one of the other from which the ends'
  roots differ. From an open channel this takes three updates per log, which is
  out of TLC's reach; the start state itself is one `EvmSpec` reaches, which TLC
  confirms for the same constants by violating its negation. `EvmSpec` from the
  open channel is what the theorems of `EvmCloseProofs` are about and what
  `honest` runs. No connection is dropped, since `commit` covers that. Of the
  two payloads one has no known preimage, so that both claims and timeouts are
  needed; the push amount is not zero. A challenge period of 1 and `Cltv` 3 put
  the expiry after the window, `MaxHeight` 3 is just past both.
  `EmergencyDelay` 100 keeps the emergency split out of reach, so a payout needs
  every HTLC resolved.
- `forward`: two incoming HTLCs, two stops of links, one restart of the node.
  Two HTLCs are needed for a batch of keystones of which one is trimmed. The
  invariants that the proofs rest on were also checked with three HTLCs.
- `keystone_gap`: the same with one stop and one restart, which is all it takes.
- `merkle_proof`: sets of up to 6 HTLCs with indices up to 6: trees with odd
  levels and promotions over more than one of them, and index gaps.
- `sui`: three commitments per party, so that the newest two can both be
  revoked or live, with HTLCs of equal id in both directions, one preimage known
  and one not, and a part of the escrow left to a commitment fee. Delays below
  and above the minimum. `MaxTime` 5 is past delay and expiry of a close at
  `MaxCloseTime` 2.
- `watch`: a reorganisation may be as deep as the lookout's hold-back
  (`ReorgDepth` = `MaxReorg` = 2), a window of two blocks makes every scan of a
  backlog span several, seven blocks leave room for a close, its challenge
  period and the burial of both. Two states, two faults.
- `payment`: an amount of two units is paid by one attempt or two; both kinds of
  invoice; one restart of sender, receiver or link. A failed payment may be
  tried again as long as attempts are left.

The type invariants of `CommitProtocol`, `HtlcForward`, `SuiChannel`, `EvmWatch` and
`Payment` hold on the same instances; their configurations leave them out in favour of the
properties that are about behaviour.

Deadlock is not checked: every system here may legitimately come to rest
(bounds reached, channel closed, nothing to forward).

### Fairness, and why the code justifies it

- `ChannelManager`: blocks keep coming; a participant with a stake keeps
  calling `timeoutHtlc` and `distributeFunds` (anyone may). Nobody is obliged to
  sign, open, claim or penalize.
- `CommitProtocol`: a link that has a message, an unfinished handler or a tick
  of its batch ticker proceeds (one goroutine, `htlcManager`); the connection
  manager retries. Connections drop finitely often. No fairness for updates.
- `EvmClose`: the notifier delivers the close event, the settler's loop ticks on
  block epochs, published transactions are mined. Nobody is obliged to close.
- `HtlcForward`: links are started again and process what their mailboxes and
  replays hold; a link with log entries signs. Peers need not answer.
- `SuiChannel`: none, and no liveness is claimed. The node's claim loop
  (`commit_sweep_resolver.go`) ends with the first claim that succeeds, so that what
  an HTLC credits later is not swept by it, and `htlc_timeout` is published once, at
  a block height (`htlc_timeout_resolver.go`), and not again when it aborts.
- `EvmWatch`: blocks are produced, the tickers of agent (while the channel is
  open) and lookout fire, the server handles what it was sent. Nobody is obliged to close, and penalties
  need not be mined before plain blocks.
- `Payment`: one condition, `WF_vars(Running)`, for the goroutines of both nodes,
  travelling HTLCs, timers and block heights; it is enough since no part can take
  steps for ever. The user need not settle, cancel or pay again, and an invoice's
  own expiry is not waited for.

## 4. What is proved

All of it is checked by `tlapm`; each theorem about a property of section 3
holds for every value of the constants that satisfies the named assumptions.

### Sums and recursion (`SumTheorems`)

Balances, pools and payments are sums over sets, `MapThenSumSet` in the modules.
The provers cannot instantiate an induction principle with a predicate, but
they can be given a set: a statement about all finite subsets (or all numbers up
to N) is proved by taking the set of those that violate it and its least element,
which the library's theorems on well-founded relations provide (`MinimalSubset`
and `UpTo`). That way `SumTheorems` shows that the fold
has one solution and what the proofs need of it: the sum of the empty set, of a
set with one more element (`SumAdd`), of equal summands (`SumSame`), its type and
its monotony. `Unacked` and `Forwarded`, recursive functions on sequences, are
treated in the same way where they are needed.

### `ChannelManagerProofs`

About `ChannelManager` for every finite set of users and salts, every set of
preimages and messages, every hash function and all parameters that satisfy:

- `ManagerAssumption`: the contract is none of its users;
- `DigestAssumption`, `ParameterAssumption`: fields and parameters are natural
  numbers, as unsigned integers are, channel ids are ids, HTLC sets are finite;
- `FiniteAssumption`: there are finitely many users and salts, as there are
  addresses and words;
- `ChallengeConfigAssumption`: the constructor's check that the cap of the
  window is not below its floor.

Theorems:

- `TypeCorrect`: `Spec => []TypeOK`. The substantial part is that `htlcPool`,
  `payoutA` and `payoutB` stay natural numbers.
- `ValueConserved`: `Spec => []Conservation`.
- `EscrowImplemented`: `Spec => ImplementsEscrow`, a step simulation under the
  mapping `phase` / `deposit` of `ChannelManager`.
- `PoolCovered`: `Spec => []Solvency`.
- `WellFormedDrains`: `Spec => []EveryHtlcResolvable`.

The run `dispute` checks them all. The argument:
`IInv == TypeOK /\ Conservation` is inductive. Neither conjunct
serves alone: a credit keeps the sum only for the arithmetic of natural numbers
that `TypeOK` provides, and the payout of `distributeFunds` equals the deposit,
as the escrow's `PayOut` demands, only by `Conservation`. There is one lemma
per contract function (`OpenPreserves`, `ForcePreserves`, `CreditPreserves`,
...), joined in `NextPreserves`; `RecordUpdate`, `LeafType`, `WindowType` and
`TransferType` are the facts about operators they share. For the refinement,
`OpenLocks`, `CloseSimulated`, `PenaltySimulated`, `DistributeSimulated` map a
function to an escrow step, `ForceStutters` and `CreditStutters` to a stutter.

Solvency then comes from the refinement: of the escrow's steps only `Lock` and
`PayOut` move tokens, and each moves exactly the deposit it adds to or takes from
the locked ones (`EscrowCovers`); no call enters `CLOSING_COOP`, so that locked
channels and live ones are the same. For `EveryHtlcResolvable` the invariant
`PoolMatches` says that in a well-formed close the pool is the sum of the leaves
not yet resolved; each of them then fits.

The second half, from `HtlcRoots` on, is about `EvmMerkle` and `HtlcMerkle`, for every number of
HTLCs in flight, every index and every history of offers and removals. It assumes
that a channel has two ends and that the bounds are natural numbers
(`PartiesAssumption`, `BoundsAssumption`).

- `MerkleProofsVerify`: `SingleOfferer => (MerkleSpec => []ProofsVerify)`. That all
  HTLCs in flight are one end's is a real restriction, not one the code
  enforces: without it the tree is ambiguous (run `merkle_both`).
- `MerkleUnambiguous`: `MerkleSpec => [](NoAmbiguity => ProofsVerify /\ RootsAgree)`,
  with HTLCs of both ends. An index carried by two HTLCs of opposite directions is
  therefore the only way to what `merkle_both` finds.
- `MerkleProofSound`: any proof, of any length and made by whatever means, that
  verifies against the root of a list is of an HTLC in that list.
- `RootNamesSet`: two lists without repeated indices have the same root exactly when
  they hold the same HTLCs. This is what allows `ChannelManager` to take a root
  for the set of its leaves.

The last two are statements about the operators, for every list. All four rest on
the hash being a free constructor, that is, on Keccak256 having no collisions. The
argument: the recursions of `Levels`, `Walk` and `Folded` have solutions (by
`UpTo`); folding the first `d` siblings into a leaf gives the node at position
`pos \div 2^d` of level `d` (`PathVerifies`, stated with the walk's own `idx`), and
`Len(leaves)` levels are enough to reach the root, since a level of more than one
node shrinks; sorting permutes the list because ranks differ (`RankInjective`,
`SortedPermutes`), so the leaf found under an index is the HTLC's. Soundness reads
the fold backwards: what is hashed into a node of the tree is a node of the tree
(`TreeClosed`), and a leaf is no inner node. The invariant `MerkleIInv` is that
indices grow along each end's list and stay below its next one.

### `SuiChannelProofs`

About `SuiChannel` for every capacity, every set of commitments (also ones that
claim more than the escrow) with finite HTLC sets, closing splits, delays and
times. Assumptions: the two parties differ and the zero address is neither
(`PartyAssumption`), amounts and times are natural numbers (`AmountAssumption`,
`CommitmentAssumption`, `SplitAssumption`).

- `TypeCorrect`: `Spec => []TypeOK`; no balance and no escrow underflows.
- `BreachWindow`: `Spec => []BreachRemedy`.
- `PenaltyTakesAll`: `Spec => PenaltyComplete`.
- `NoCoinAstray`: `Spec => []Entitled`.
- `SweepsCovered`: `Spec => []CreditCovered`.

The invariant is `TypeOK /\ Accounted /\ OnRecord /\ BreachRemedy`: what has left
the escrow is what was paid, and a closing channel has a broadcaster. With
`BreachRemedy` alone a penalty inside the window could still find coins missing;
with `Accounted` they can only be at the victim. For `Entitled`, `Owed` adds where
each HTLC of the published commitment is (pending, claimed or timed out, and never
two of them) and that each party's balance and payments are its share of the
commitment plus the HTLCs it received or was refunded. `CreditCovered` follows from
`Owed` as well: where the commitment spends no more than the escrow, what both
parties have in credit and the pending HTLCs fit what is left in it.

### `EvmWatchProofs`

About `EvmWatch` for every window, hold-back, chain length and number of faults
(`WatchAssumption`: numbers, a non-empty window).

- `TypeCorrect`: `Spec => []TypeOK`.
- `BackupKept`: `Spec => []SentMeansStored`, with the invariant `Stored`, that an
  acknowledgement on its way to the agent speaks of what is stored.
- `NoCloseMissed`, `PenalizeStaysValid`: `Spec => []NoMissedClose` and
  `Spec => []NoWastedPenalize`, assuming `HeldBack`: `MaxReorg <= ReorgDepth` and
  an explicit start block. The invariant `ScannedDeep` says that what lies below
  the cursor, and the query under way, is out of reach of reorganisations;
  `Buried` says so of the close that a penalty answers. Without the first half of
  `HeldBack` the new close of a reorganised chain may appear below the cursor.

### `PaymentProofs`

About `Payment` (and with it `InvoiceRegistry`) for every amount, number of
attempts and number of restarts (`RegistryAssumption`).

- `AnswersOnRecord`: `Spec => []ResolutionsAgree`. The invariant adds that a
  queued resolution and a cancellation under way are on record, and that an HTLC
  whose subscription is outstanding is still with the registry.
- `RecordsAgree`: `Spec => []OutcomesAgree`, and `FailureFinal`:
  `Spec => []FailedIsUnpaid`. The invariant follows an attempt through five
  stores: `Agreed` says that each of them that speaks of success or failure is
  right, where an attempt is `Dead` when its HTLC has failed or can no longer come
  to be; `Traceable` says that an attempt in flight whose HTLC exists has a
  circuit or a result, which is what makes "not found" mean failure after a
  restart. `NextIdFresh` uses the cardinality of intervals.
- `NeverPaysTwice`: `Spec => []NoDoublePay`. What can still be claimed is among
  the attempts the database does not hold for failed (by `Agreed`), and those never
  add up to more than the payment: a new attempt is registered only for the
  remaining amount.
- `SettledWhole`: `Spec => []WholeSetSettled`. The invariant adds that an accepted
  or settled invoice has HTLCs of at least its value in that state, and that no
  HTLC of a settled set changes afterwards.

### `HtlcForwardProofs`

About `HtlcForward` and `CircuitMap` for any number of HTLCs, stops of links and
restarts. Assumptions: `CircuitAssumption` and `AnswerAssumption`, that `none` is
not a key, a circuit or an answer.

- `ForwardTyped`: `Spec => []TypeOK`.
- `NeverForwardedTwice`: `Spec => []ForwardedOnce`.
- `RelayImplemented`: `Spec => ImplementsRelay`, of which `ForwardedOnce` is a part.
- `AlwaysRoutable`: `Spec => []ResponseRoutable`.
- `FailedOnlyWhenSafe`: `Spec => FailsSafely`, that is,
  `[]Gapless => []FailedMeansFailed`.
- `KeystonesAccepted`: `Spec => KeystonesFresh`.

`ForwardInv` holds without a condition. An HTLC is offered twice only if it is in
the mailbox and was signed before, so the invariant says where an unsigned add is
(`MailboxInv`: the link's unsigned log is a prefix of the mailbox, no packet is
there twice) and what that excludes (`QueuedInv`: it was neither sent nor answered,
and its circuit is not from disk). A signed HTLC keeps its circuit until it is
answered (`SentInv`), answers are acked with their signature before circuits are
deleted (`IncomingInv`), memory and disk agree on circuits (`CircuitInv`), and the
ids of signed HTLCs lead to them (`RouteInv`, from which `ResponseRoutable`
follows). `GaplessInv` adds what needs `Gapless`: keystones in memory and on disk
are the same, a circuit has at most one, and ids not yet signed are free
(`KeystoneInv`); a failure under way for a signed HTLC is the peer's own
(`FailureInv`). The attempt to prove `FailedMeansFailed` without the condition is
what led to the run `keystone_gap`.

The refinement is unconditional. Four steps change what the neighbours see
(`RelaySimulated`); a signed batch comes from the mailbox, so that `QueuedInv` makes
it an `Offer` (`SignOffers`), and a settle on its way back is for an offered HTLC
(`SettleInv`, inductive with `ForwardInv`), so that signing removals is an `Answer`
(`SignAnswers`).

### `CommitProtocolProofs`

About `CommitProtocol` for every number of updates and of lost connections, every
batch size and set of payloads. Assumptions: a channel has two ends, one of them
the initiator (`NodesAssumption`), bounds are natural numbers
(`BoundsAssumption`), and `none` is not a commitment (`NoneAssumption`).

- `CommitTyped`: `Spec => []TypeOK`, which includes that the indices of every
  commitment are covered by the logs.
- `LinkNeverFails`: `Spec => []NeverFails`.
- `BroadcastKnown`: `Spec => []PeerKnowsCommitment`.
- `SecretStays`: `Spec => []SecretKept`.
- `HandedOnLocked`: `Spec => []ForwardedLockedIn`.
- `DeliveryImplemented`: `Spec => ImplementsDelivery`.

None of the four invariants is inductive, and each needs nearly all of the others. The
invariant `IInv` says of each end:

- `ChainInv`: the peer's chain, as this end holds it and as the peer does, is the
  same commitment on both sides (`Mirrors`): the tail, or the pending one when the
  peer has accepted its signature and the revocation is due (`RevDue`). How many of
  the peer's updates a pending commitment covers depends on which came first, this
  end's signature or its revocation, and `lastWasRevoke` tells.
- `BoxInv`: once the sender has reestablished, a signature or revocation that is
  due is in the queue, once, nothing else of the kind is, and their order is that
  of `lastWasRevoke`. This is what makes the order in which `ProcessChanSyncMsg`
  sends again matter: with the other order the peer derives another commitment.
- `LogInv`, `StreamInv`: what is received is the beginning of what was sent, the
  updates in flight are the rest of it, and signatures lie in the stream right
  after the last update they cover. Before reestablishment both logs are what the
  commitments cover.
- `SyncInv`: a reestablishment is first in its queue and still says what its
  sender holds, so that `SyncError` is `none` and what `ProcessChanSyncMsg` sends is
  exactly what is due (`ReplyResent`, `ReplyOther`).
- `UpdateInv`: each update was valid where it was put (the next HTLC id, a removal
  of an HTLC handed on before and not yet removed), so it is where it is received.
- `ForwardInv`: what was handed to the switch is `Forwarded` of the updates on the
  tail of the remote chain.

There is one lemma per action (`SendStep`, `SignStep`, `UpdateStep`, `SigStep`,
`RevStep`, `SyncStep`, `DropStep`, `ReconnectStep`, `FinishStep`, `TickStep`), joined
in `NextInv`; lemmas on streams and boxes say what taking the first message and
sending at the end do to them. TLC checks the parts of `IInv` on the instance of
`commit` (234871 states).

The refinement uses `IInv` in every step (`DeliverySimulated`). A signature is a
`SignMore` (`SignDelivers`): that the last one was accepted comes from `ChainInv`. Its
acceptance is an `Accept` (`AcceptDelivers`): `StreamInv` says that the receiver holds
exactly the updates the signature covers, so that it acks all that is signed. The
acceptance of a revocation is a `HandOn` (`HandOnDelivers`): `ForwardInv` and `LogInv`
make `fwd` equal to what is mutual. All other steps stutter, `Disconnect` with its
cut of both logs included (`DropKeeps`): what is cut was never signed for.

### `EvmCloseProofs`

About `EvmClose` for every number of updates, HTLCs and blocks, every capacity,
push amount, CLTV and challenge period. Assumptions, besides those of
`CommitProtocolProofs`: amounts, heights and times are natural numbers, the push
amount is part of the capacity, the contract is not a node (`CloseAssumption`).
A link of `EvmClose` takes steps of `CommitProtocol` only (`LinkSteps`), so `IInv`
is an invariant here too, and all three theorems rest on it.

- `BreachProven`: `EvmSpec => []BreachEvidenceAccepted`. The invariant `CInv` adds
  the types of queues, settlers and contract, that nobody reacts before the
  contract has recorded a broadcaster (`CloseSeen`), and that a node which decided
  on a breach is stopped and holds a state newer than the one on chain
  (`BreachSeen`). That the retained signature is the broadcaster's follows: there
  are two nodes.
- `SettlersLeaveNothing`: `Timely => (EvmSpec => []NothingPendingMeansResolved)`,
  where `Timely` says that blocks are at least `BlockTime` and at least a second
  apart. It is a hypothesis on the chain, not on the code, and it is needed: see
  section 6. The invariant `SInv` follows every HTLC a settler offered from its
  list to the queue to the contract (`AllHandled`), and has what makes the
  contract accept the refund when it gets there: its time has come (`RefundsDue`),
  and the pool still holds the amount of every unresolved HTLC (`PoolCounts`),
  because a published state makes up the deposit (`PublishedWhole`).
- `ArtifactAgreed`: `EvmSpec => []SameArtifact`, from
  `IInv /\ Funded /\ RootsAgree`. `Funded`
  says that an end affords every beginning of its own log with the updates it has
  acked, and every commitment it has signed; it is kept because an HTLC is added
  out of a positive balance and acked updates only ever add to it. `Consistent`
  (ids are unique, each removal names an offered HTLC, none is removed twice)
  comes from `UpdateInv`; with it the removals of a log are in bijection with the
  removed HTLCs (`RemovalCount`), so that the leaves can be counted (`LeafCount`)
  and balances and leaves add up to the capacity (`ArtifactWhole`). The contents a
  signature is over are those the receiver derives (`SigContents` of
  `CommitProtocolProofs`), so that leaves and balances are equal at both ends
  (`SameContents`), and the roots are when no index is shared (`SameRoot`). When one
  is, the roots may differ; but then the signature is refused, and the leaves of a
  commitment change only with an accepted one (`ViewStep`). Hence `RootsAgree`, that
  both ends compute one root for what either could publish, is kept (`RootsStep`).

TLC checks `CInv` and `SInv` beyond `IInv` with one update per end, and `Funded`
with two updates per end and no blocks (1215754 states).

### Only model-checked

All liveness (`EventuallyPaid`, `SignatureAcked`, `AckedUpdatesSigned`,
`CloseFinalized`, `SettlePropagates`, `CircuitsCollected`, `BackupCaughtUp`,
 `EveryCloseScanned`, `PaymentEnds`, `HtlcReleased`), since the
prover does not reach fairness or ENABLED. Every safety property of the passing
runs is a theorem.

## 5. What is abstracted, and what is not modelled

Abstracted in the modelled parts:

- Amounts are small numbers; in `EvmClose` every HTLC is worth one base unit, so
  `evmScaleToBase` flooring is not visible (participant A absorbs the remainder).
- Scripts, fees, dust, reserves, onions and policy checks: a link may refuse an
  add, and may find no link to forward it to, at any time.
- Database transactions are atomic. Failures of the database are modelled only
  where the code goes on after one (`CommitCircuits`).
- The circuit map's payment hash index has no caller outside of tests.
  `TrimOpenCircuits` sets `circuit.Outgoing` to nil before it calls
  `removeCircuitFromHashIndex`, which leaves the entry in the index; this would
  matter to a future caller of `LookupByPaymentHash`.
- The token is a plain ERC-20 with full allowances. Reorganisations are part of
  `EvmWatch` only.
- Restarts of a node during a close: the settler lives in memory.
- `Payment`: failed attempts are kept (`KeepFailedPaymentAttempts`); the route
  that a session returns is its amount; whether an error of the switch ends the
  payment is a free choice; the clean-up of results at start, attempts of closed
  channels, AMP, keysend, legacy and intercepted HTLCs are left out.
- `EvmWatch`: authentication of backups and the tower's quota are left out; one
  channel stands for all, since store and lookout treat each on its own.

Not modelled, with reasons, in `PROJECT.json`: the channel arbitrator's state
machine (of it only the Sui payload is) and the Bitcoin resolvers, the Sui
wallet and notifier, quiescence, the transaction notifier, funding, cooperative
close negotiation, gossip and pathfinding, the sweeper, the Bitcoin watchtower,
utilities, codecs, storage back ends. The first ones are worth modelling next;
the last ones have little protocol of their own. Most of the repository's lines
are in these, in generated code and in tables of the RPC surface.

## 6. Where code and its documentation disagree

Each is a run marked ✗:

- `honest`: the contract's nonce is a commitment height, but the two chains
  advance independently. A node that publishes its latest commitment, lower in
  height than the peer's, is taken for a cheater and the penalty is accepted.
- `merkle_both`: leaves are sorted by index alone, and HTLCs of opposite
  directions share indices, so the two ends' roots differ.
- `sui_publish`: after funding, `SignNextCommitment` and `ReceiveNewCommitment`
  put a fixed revocation hash in the payload; the arbitrator publishes the hash
  of the commitment's own revocation key. The contract recomputes the payload,
  and the signatures do not cover it.
- `keystone_gap`: an add whose keystone is written expires while its link is
  down. Its circuit is deleted with the keystone; the next start of the link trims
  keystones only up to the gap. The HTLC behind it is added again under a lower id
  and signed, so that its circuit has two keystones on disk. A restart restores the
  circuit, trims the higher key and with it the circuit's outgoing key;
  `CommitCircuits` then takes the replayed add for one that was lost and fails it
  back, while the outgoing HTLC can be claimed. `ImplementsRelay` and
  `ResponseRoutable` hold even so; `FailsSafely`, `KeystonesFresh` and
  `SettlePropagates` are stated for behaviours without a gap.

Met while modelling, not kept as runs:

- `NotifyExitHopHtlc` reads a replayed HTLC as accepted, the release timer, which
  does not take the registry's lock, cancels it and notifies nobody, and only then
  the link subscribes. The HTLC waits until the link or the node restarts.
  `HtlcReleased` and `PaymentEnds` name the case (`Orphaned`) and leave it out.
- `closeChannel` compares the split's nonce with a stored one that only
  `forceClose` writes, so on an open channel any co-signed split is accepted.
- After `RevokeAndAck` the handler of a commitment signature may stop before its
  own signature; resynchronisation signs only if it also owes a revocation, and
  the ticker counts only own updates. `AckedUpdatesSigned` is therefore limited
  to behaviours without a lost connection.
- The four cases `CloseFinalized` names: two HTLCs of opposite directions with
  one index, of which the contract resolves one (`Ambiguous`); a settler that
  was given the tail of the remote chain although the pending commitment was
  published (`Mismatched`); a breach seen after the window, for which no settler
  is started (`PenaltyMissed`); an HTLC in each direction whose recipient never
  learns the preimage (`Unclaimed`): `evmSettle` keeps an incoming HTLC on its list
  also after the offerer has timed it out on chain, and distributes only with an
  empty list, so that both settlers wait for ever. The deposit then waits for the
  emergency split.
- `BlockTime` 2 with blocks 1 or 2 seconds apart violates
  `NothingPendingMeansResolved`: a `timeoutHtlc` published at the expiry height
  reverts on the timestamp, and the settler has already crossed the HTLC off.
- `buildEvmHTLCs` comments that the timelock is the absolute CLTV expiry; the
  code applies `evmHtlcTimelock`, which also truncates to 32 bits.
- When an incoming link quits between `CommitCircuits` and the hand-over to the
  switch, the replay is dropped as a duplicate, and the packet is nowhere until
  the node restarts.
- Watchtower: a state whose upload failed before the client recorded the peer's
  close is never uploaded, since the agent's source is `FetchAllOpenChannels`, and
  the tower judges the close by an older state; the cursor moves past a close whose penalize failed, or whose
  backup came late, and nothing goes back to it before a restart; what was
  penalized is in memory, so that a restarted tower sends a second call that
  reverts; `FromBlock` 0 starts one window below the tip.
- `evmnotify` measures the depth of a spend with a best height that does not
  fall in a reorganisation.
- Sui: nothing in the node sweeps a party's balance again after the first
  successful claim, also when an HTLC is credited to it later, and a
  `htlc_timeout` that aborts is not published again; `force_close` does not store the state number, so that the notifier
  reports 0; the share of the escrow that a commitment spends on fees stays in
  an object that remains CLOSING; `chain_watcher.go` says that the contract only
  verifies `pubkey_b`, which it no longer does.
- A local circuit whose packet was lost with the mailbox at a restart keeps its
  attempt in flight (`Dangling`); a payment that crashes before its first
  attempt is not resumed.

## 7. Plan

Order: what is specific to this fork and holds money first, then the protocol
it rests on, then what surrounds it.

1. Done, with proofs: EVM contract and escrow, commitment protocol, circuit map and
   switch, EVM close end to end, Sui contract, EVM watchtower, invoice registry and
   payment life cycle, Merkle tree.
2. Next modules:
   - `ChannelArbitrator` with its briefcase and the settler's restart, on top of
     `EvmClose`;
   - `Quiescence` (the stfu handshake of two links) and `TxNotifier`
     (confirmations under reorganisations);
   - the Sui notifier's event cursor, composed with `SuiClose`.
3. Next theorems:
   - an abstract specification of a payment over both nodes, implemented by
     `Payment`;
   - action properties of `EvmClose` and `HtlcForward` from the invariants that
     are there (what has been signed is never un-signed, a resolved HTLC stays
     resolved).
