----------------------------- MODULE SuiChannel -----------------------------
(***************************************************************************)
(* The Move contract of the Sui back end (lightning.move): one shared      *)
(* Channel object with its own escrow.  Channels share no state, so one    *)
(* object stands for all of them.  Each action is one entry function,      *)
(* which the chain runs atomically (an abort is a disabled action), or a   *)
(* step of the environment: the parties exchange commitments and           *)
(* revocation secrets, the clock advances.                                 *)
(*                                                                         *)
(* Abstractions.  A signature over the BCS payload of force_close is the   *)
(* membership of the commitment in Commitments; a SHA-256 hash is its      *)
(* preimage, and who may present a preimage is the state of the            *)
(* environment; the transferred coins are counted per party.               *)
(***************************************************************************)
EXTENDS Integers, FiniteSets, FiniteSetsExt

CONSTANTS
    PartyA,        \* party_a: the funder, who calls open_channel
    PartyB,        \* party_b
    NoBroadcaster, \* NO_BROADCASTER, the zero address
    Capacity,      \* the amount the funder escrows
    Delays,        \* values of to_self_delay a funder may ask for
    MinDelay,      \* MIN_TO_SELF_DELAY_MS
    Commitments,   \* the states both ends may ever sign
    CoopSplits,    \* the closing splits both ends have signed
    Released,      \* payment hashes whose preimage gets known
    MaxCloseTime,  \* bound: no force_close after this time
    MaxTime        \* bound on the clock

VARIABLES
    ch,       \* the Channel object
    paid,     \* coins transferred to each party
    held,     \* state_num of the newest commitment each party holds
    revealed, \* <<holder, state_num>> whose revocation secret is known
    now       \* the clock, in the unit of the delays

vars == <<ch, paid, held, revealed, now>>

Parties == {PartyA, PartyB}
Peer(p) == IF p = PartyA THEN PartyB ELSE PartyA
Status == {"NONE", "OPEN", "CLOSING", "CLOSED"}

\* An HTLC is offered by one party to the other; direction 0 is A to B.
Sender(h) == IF h.direction = 0 THEN PartyA ELSE PartyB
Receiver(h) == Peer(Sender(h))
Key(h) == <<h.direction, h.id>>
HTLCs == UNION {c.htlcs : c \in Commitments}

ASSUME PartyAssumption ==
    /\ PartyA # PartyB /\ NoBroadcaster \notin Parties

ASSUME AmountAssumption ==
    /\ Capacity \in Nat /\ MinDelay \in Nat
    /\ MaxTime \in Nat /\ MaxCloseTime \in Nat
    /\ Delays \subseteq Nat

ASSUME CommitmentAssumption ==
    \A c \in Commitments :
        /\ c.holder \in Parties /\ c.state_num \in Nat
        /\ c.balances \in [Parties -> Nat] /\ IsFiniteSet(c.htlcs)
        /\ \A h \in c.htlcs : /\ h.direction \in {0, 1} /\ h.amount \in Nat
                              /\ h.expiry \in Nat

ASSUME SplitAssumption ==
    \A s \in CoopSplits : s.state_num \in Nat /\ s.balances \in [Parties -> Nat]

NoChannel == [status |-> "NONE", balance |-> [p \in Parties |-> 0],
              funding |-> 0, state_num |-> 0, to_self_delay |-> 0,
              broadcaster |-> NoBroadcaster, close_timestamp |-> 0,
              revocation_hash |-> <<NoBroadcaster, 0>>,
              pending |-> {}, claimed |-> {}, timedOut |-> {}]

Init ==
    /\ ch = NoChannel
    /\ paid = [p \in Parties |-> 0]
    /\ held = [p \in Parties |-> 0]
    /\ revealed = {}
    /\ now = 0

\* coin::take out of the escrow, which aborts when it holds too little.
Take(chan, p, amount) ==
    /\ amount <= chan.funding
    /\ ch' = [chan EXCEPT !.funding = @ - amount]
    /\ paid' = [paid EXCEPT ![p] = @ + amount]

-----------------------------------------------------------------------------
\* The environment.  Commitment transactions of party p are signed one by one;
\* p reveals the secret of a commitment once it holds the next one.
NextCommitment(p) ==
    /\ ch.status = "OPEN"
    /\ \E c \in Commitments : c.holder = p /\ c.state_num = held[p] + 1
    /\ held' = [held EXCEPT ![p] = @ + 1]
    /\ UNCHANGED <<ch, paid, revealed, now>>

Revoke(p) ==
    /\ \E n \in 0..(held[p] - 1) :
          /\ <<p, n>> \notin revealed
          /\ revealed' = revealed \cup {<<p, n>>}
    /\ UNCHANGED <<ch, paid, held, now>>

Tick ==
    /\ now < MaxTime
    /\ now' = now + 1
    /\ UNCHANGED <<ch, paid, held, revealed>>

-----------------------------------------------------------------------------
open_channel ==
    /\ ch.status = "NONE"
    /\ \E d \in Delays :
          /\ d >= MinDelay
          /\ ch' = [NoChannel EXCEPT !.status = "OPEN",
                      !.balance[PartyA] = Capacity, !.funding = Capacity,
                      !.to_self_delay = d]
    /\ UNCHANGED <<paid, held, revealed, now>>

\* close_channel(state_num, balance_a, balance_b, sig_a, sig_b); what the
\* split leaves of the escrow stays in the closed object.
close_channel ==
    /\ ch.status = "OPEN"
    /\ \E s \in CoopSplits :
          LET total == s.balances[PartyA] + s.balances[PartyB]
          IN  /\ s.state_num >= ch.state_num
              /\ total <= ch.funding
              /\ ch' = [ch EXCEPT !.balance = s.balances,
                          !.state_num = s.state_num, !.status = "CLOSED",
                          !.funding = @ - total]
              /\ paid' = [p \in Parties |-> paid[p] + s.balances[p]]
    /\ UNCHANGED <<held, revealed, now>>

\* table::add aborts on a key that is present already.
UniqueKeys(htlcs) == \A g, h \in htlcs : Key(g) = Key(h) => g = h

\* force_close: the holder of a commitment is recorded as its broadcaster,
\* since the signature is the other party's.  state_num is compared but not
\* stored, and the amounts are not compared with the escrow.
force_close(p) ==
    /\ ch.status = "OPEN" /\ now <= MaxCloseTime
    /\ \E c \in Commitments :
          /\ c.holder = p /\ c.state_num <= held[p]
          /\ c.state_num >= ch.state_num
          /\ UniqueKeys(c.htlcs)
          /\ ch' = [ch EXCEPT !.balance = c.balances, !.broadcaster = p,
                      !.status = "CLOSING", !.close_timestamp = now,
                      !.revocation_hash = <<p, c.state_num>>,
                      !.pending = c.htlcs]
    /\ UNCHANGED <<paid, held, revealed, now>>

Unlocked(chan) == now >= chan.close_timestamp + chan.to_self_delay

\* Mutant: the delay binds party_a whoever published the commitment.
claim_force_close_PartyA(p) ==
    /\ ch.status = "CLOSING"
    /\ p = PartyA => Unlocked(ch)
    /\ ch.balance[p] > 0
    /\ Take([ch EXCEPT !.balance[p] = 0,
               !.status = IF ch.funding = ch.balance[p] THEN "CLOSED" ELSE @],
            p, ch.balance[p])
    /\ UNCHANGED <<held, revealed, now>>

\* claim_force_close: p sweeps its side, the broadcaster after the delay.
claim_force_close(p) ==
    /\ ch.status = "CLOSING"
    /\ p = ch.broadcaster => Unlocked(ch)
    /\ ch.balance[p] > 0
    /\ Take([ch EXCEPT !.balance[p] = 0,
               !.status = IF ch.funding = ch.balance[p] THEN "CLOSED" ELSE @],
            p, ch.balance[p])
    /\ UNCHANGED <<held, revealed, now>>

\* Mutant: a claimed HTLC is not marked as resolved.
htlc_claim_Unmarked(h) ==
    /\ h \in ch.pending /\ h.hash \in Released
    /\ ch' = [ch EXCEPT !.claimed = @ \cup {h},
                !.balance[Receiver(h)] = @ + h.amount]
    /\ UNCHANGED <<paid, held, revealed, now>>

\* htlc_claim, by anybody who has the preimage and whatever the status.
htlc_claim(h) ==
    /\ h \in ch.pending /\ h.hash \in Released
    /\ ch' = [ch EXCEPT !.pending = @ \ {h}, !.claimed = @ \cup {h},
                !.balance[Receiver(h)] = @ + h.amount]
    /\ UNCHANGED <<paid, held, revealed, now>>

\* Mutant: an expired HTLC is marked, and its amount refunded to nobody.
htlc_timeout_NoRefund(h) ==
    /\ h \in ch.pending /\ now >= h.expiry
    /\ ch' = [ch EXCEPT !.pending = @ \ {h}, !.timedOut = @ \cup {h}]
    /\ UNCHANGED <<paid, held, revealed, now>>

\* htlc_timeout, by anybody once the HTLC has expired.
htlc_timeout(h) ==
    /\ h \in ch.pending /\ now >= h.expiry
    /\ ch' = [ch EXCEPT !.pending = @ \ {h}, !.timedOut = @ \cup {h},
                !.balance[Sender(h)] = @ + h.amount]
    /\ UNCHANGED <<paid, held, revealed, now>>

\* Mutant: only the balances are confiscated, the HTLCs stay in the escrow.
penalize_NoHtlcs ==
    /\ ch.status = "CLOSING"
    /\ ch.revocation_hash \in revealed
    /\ Take([ch EXCEPT !.balance = [p \in Parties |-> 0], !.status = "CLOSED"],
            Peer(ch.broadcaster), ch.balance[PartyA] + ch.balance[PartyB])
    /\ UNCHANGED <<held, revealed, now>>

\* penalize, by anybody who has the revocation secret: all that is left in
\* the escrow goes to the party that did not publish.
penalize ==
    /\ ch.status = "CLOSING"
    /\ ch.revocation_hash \in revealed
    /\ Take([ch EXCEPT !.balance = [p \in Parties |-> 0], !.status = "CLOSED"],
            Peer(ch.broadcaster), ch.funding)
    /\ UNCHANGED <<held, revealed, now>>

Next ==
    \/ Tick \/ open_channel \/ close_channel \/ penalize
    \/ \E p \in Parties : \/ NextCommitment(p) \/ Revoke(p)
                          \/ force_close(p) \/ claim_force_close(p)
    \/ \E h \in HTLCs : htlc_claim(h) \/ htlc_timeout(h)

Spec == Init /\ [][Next]_vars

-----------------------------------------------------------------------------
HtlcSum(S) == MapThenSumSet(LAMBDA h : h.amount, S)

ChannelType ==
    [status : Status, balance : [Parties -> Nat], funding : Nat,
     state_num : Nat, to_self_delay : Nat,
     broadcaster : Parties \cup {NoBroadcaster}, close_timestamp : Nat,
     revocation_hash : (Parties \cup {NoBroadcaster}) \X Nat,
     pending : SUBSET HTLCs, claimed : SUBSET HTLCs, timedOut : SUBSET HTLCs]

\* The Channel object and the environment keep their types; no u64 underflows.
TypeOK ==
    /\ ch \in ChannelType
    /\ paid \in [Parties -> Nat]
    /\ held \in [Parties -> Nat]
    /\ revealed \subseteq Parties \X Nat
    /\ now \in Nat

\* The breach-remedy window of force_close: until to_self_delay has passed,
\* the party that published has been paid nothing, through no order of its
\* own sweeps, its HTLC claims and its timeouts.
BreachRemedy ==
    ch.status = "CLOSING" /\ ~Unlocked(ch) => paid[ch.broadcaster] = 0

\* A channel that ends inside the window ends with the whole capacity in the
\* victim's hands: penalize misses nothing, and no sweep closes it earlier.
PenaltyComplete ==
    [][ch.status = "CLOSING" /\ ch'.status = "CLOSED" /\ ~Unlocked(ch)
         => paid'[Peer(ch.broadcaster)] = Capacity]_vars

\* The amounts the published commitment leaves party p, given how its HTLCs
\* ended: its balance, what it claimed and what it got back.
Share(p, c) ==
    c.balances[p] + HtlcSum({h \in ch.claimed : Receiver(h) = p})
                  + HtlcSum({h \in ch.timedOut : Sender(h) = p})

\* No coin goes astray: while a channel closes, each party has, in coins and
\* in credit, exactly what the published commitment and the fate of its HTLCs
\* give it; once sweeps or a penalty have closed it, nothing is left in the
\* object, which claim_force_close no longer serves.
Entitled ==
    /\ ch.status = "CLOSING" =>
          \E c \in Commitments :
              /\ ch.revocation_hash = <<c.holder, c.state_num>>
              /\ c.htlcs = ch.pending \cup ch.claimed \cup ch.timedOut
              /\ \A p \in Parties : paid[p] + ch.balance[p] = Share(p, c)
    /\ ch.status = "CLOSED" /\ ch.broadcaster # NoBroadcaster => ch.funding = 0

\* The published commitment spends no more than the escrow, which force_close
\* does not check.
Fits(c) ==
    c.balances[PartyA] + c.balances[PartyB] + HtlcSum(c.htlcs) <= Capacity

\* No credit without coins: whatever sweeps, HTLC calls and payouts came before,
\* the escrow covers what both parties have in credit and every HTLC that may
\* still be claimed or timed out, so that coin::take never aborts a sweep.
CreditCovered ==
    ch.status = "CLOSING" =>
        \E c \in Commitments :
            /\ ch.revocation_hash = <<c.holder, c.state_num>>
            /\ c.htlcs = ch.pending \cup ch.claimed \cup ch.timedOut
            /\ Fits(c) =>
                  HtlcSum(ch.pending) + ch.balance[PartyA] + ch.balance[PartyB]
                      <= ch.funding
=============================================================================
