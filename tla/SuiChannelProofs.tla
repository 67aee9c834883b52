-------------------------- MODULE SuiChannelProofs --------------------------
(***************************************************************************)
(* For every capacity, every choice of delays and every set of             *)
(* commitments the parties may sign, the ones that do not fit the escrow   *)
(* included: the breach-remedy window of the Sui contract is sound, and a  *)
(* penalty inside it leaves the victim with the whole capacity.            *)
(***************************************************************************)
EXTENDS SuiChannel, SumTheorems

\* What has left the escrow is what the parties were paid.
Accounted ==
    /\ ch.status = "NONE" => ch.funding = 0
    /\ ch.status # "NONE" => ch.funding + paid[PartyA] + paid[PartyB] = Capacity
    /\ ch.status \in {"NONE", "OPEN"} =>
          paid[PartyA] = 0 /\ paid[PartyB] = 0

\* A closing channel has a broadcaster on record.
OnRecord == ch.status = "CLOSING" => ch.broadcaster \in Parties

IInv == TypeOK /\ Accounted /\ OnRecord /\ BreachRemedy

-----------------------------------------------------------------------------
\* There are two peers, each the other of the other.
LEMMA PeerFacts ==
    /\ PartyA # PartyB /\ NoBroadcaster \notin Parties
    /\ \A p \in Parties : Peer(p) \in Parties /\ Peer(p) # p
    /\ \A h : Sender(h) \in Parties /\ Receiver(h) \in Parties
BY PartyAssumption DEF Parties, Peer, Sender, Receiver

\* Every amount of an HTLC of a commitment is a natural number.
LEMMA HtlcFacts == \A h \in HTLCs : h.amount \in Nat /\ h.expiry \in Nat
BY CommitmentAssumption DEF HTLCs

\* The invariant holds initially.
LEMMA InitIInv == Init => IInv
<1> SUFFICES ASSUME Init PROVE IInv
    OBVIOUS
<1>1. TypeOK
    BY PeerFacts DEF Init, NoChannel, TypeOK, ChannelType, Status, Parties
<1>2. Accounted /\ OnRecord /\ BreachRemedy
    BY PeerFacts DEF Init, NoChannel, Accounted, OnRecord, BreachRemedy, Parties
<1> QED BY <1>1, <1>2 DEF IInv

-----------------------------------------------------------------------------
\* Steps that touch neither the object nor the coins keep the invariant; of
\* these only the clock matters to the window, and it only shrinks it.
LEMMA QuietStep ==
    ASSUME IInv, UNCHANGED <<ch, paid>>,
           held' \in [Parties -> Nat], revealed' \subseteq Parties \X Nat,
           now' \in Nat, now' >= now
    PROVE  IInv'
<1>1. TypeOK' /\ Accounted' /\ OnRecord'
    BY DEF IInv, TypeOK, Accounted, OnRecord
<1>2. BreachRemedy'
    BY DEF IInv, TypeOK, ChannelType, BreachRemedy, Unlocked
<1> QED BY <1>1, <1>2 DEF IInv

\* A new commitment keeps it.
LEMMA NextCommitmentStep ==
    ASSUME IInv, NEW p \in Parties, NextCommitment(p)
    PROVE  IInv'
<1>1. held' \in [Parties -> Nat]
    BY DEF IInv, TypeOK, NextCommitment
<1> QED BY <1>1, QuietStep DEF NextCommitment, IInv, TypeOK

\* So does a revocation.
LEMMA RevokeStep ==
    ASSUME IInv, NEW p \in Parties, Revoke(p)
    PROVE  IInv'
<1>1. PICK n \in 0..(held[p] - 1) : revealed' = revealed \cup {<<p, n>>}
    BY DEF Revoke
<1>2. revealed' \subseteq Parties \X Nat
    BY <1>1 DEF IInv, TypeOK
<1> QED BY <1>2, QuietStep DEF Revoke, IInv, TypeOK

\* So does the clock.
LEMMA TickStep ==
    ASSUME IInv, Tick
    PROVE  IInv'
BY QuietStep DEF Tick, IInv, TypeOK

\* So does opening.
LEMMA OpenStep ==
    ASSUME IInv, open_channel
    PROVE  IInv'
<1>1. PICK d \in Delays :
          ch' = [NoChannel EXCEPT !.status = "OPEN",
                   !.balance[PartyA] = Capacity, !.funding = Capacity,
                   !.to_self_delay = d]
    BY DEF open_channel
<1>2. ch' \in ChannelType /\ ch'.status = "OPEN" /\ ch'.funding = Capacity
    BY <1>1, AmountAssumption, PeerFacts
       DEF NoChannel, ChannelType, Status, Parties
<1>3. TypeOK'
    BY <1>2 DEF open_channel, IInv, TypeOK
<1>4. Accounted' /\ OnRecord' /\ BreachRemedy'
    BY <1>2, AmountAssumption
       DEF open_channel, IInv, Accounted, OnRecord, BreachRemedy
<1> QED BY <1>3, <1>4 DEF IInv

\* So does a cooperative close.
LEMMA CoopStep ==
    ASSUME IInv, close_channel
    PROVE  IInv'
<1>1. PICK s \in CoopSplits :
          LET total == s.balances[PartyA] + s.balances[PartyB]
          IN  /\ total <= ch.funding
              /\ ch' = [ch EXCEPT !.balance = s.balances,
                          !.state_num = s.state_num, !.status = "CLOSED",
                          !.funding = @ - total]
              /\ paid' = [p \in Parties |-> paid[p] + s.balances[p]]
    BY DEF close_channel
<1>2. s.state_num \in Nat /\ s.balances \in [Parties -> Nat]
    BY SplitAssumption
<1> DEFINE total == s.balances[PartyA] + s.balances[PartyB]
<1>3. total \in Nat /\ paid' \in [Parties -> Nat]
    BY <1>1, <1>2, PeerFacts DEF IInv, TypeOK, Parties
<1>4. /\ ch' \in ChannelType /\ ch'.status = "CLOSED"
      /\ ch'.funding = ch.funding - total
    <2>1. total <= ch.funding /\ ch.funding \in Nat
        BY <1>1 DEF IInv, TypeOK, ChannelType
    <2>2. ch.funding - total \in Nat
        BY <1>3, <2>1
    <2>3. ch' = [ch EXCEPT !.balance = s.balances,
                   !.state_num = s.state_num, !.status = "CLOSED",
                   !.funding = ch.funding - total]
        BY <1>1
    <2> HIDE DEF total
    <2> QED
        BY <1>2, <2>2, <2>3 DEF IInv, TypeOK, ChannelType, Status
<1>5. TypeOK'
    BY <1>3, <1>4 DEF close_channel, IInv, TypeOK
<1>6. Accounted'
    BY <1>1, <1>2, <1>3, <1>4
       DEF close_channel, IInv, TypeOK, ChannelType, Accounted, Parties
<1>7. OnRecord' /\ BreachRemedy'
    BY <1>4 DEF OnRecord, BreachRemedy
<1> QED BY <1>5, <1>6, <1>7 DEF IInv

\* So does a force close.
LEMMA ForceCloseStep ==
    ASSUME IInv, NEW p \in Parties, force_close(p)
    PROVE  IInv'
<1>1. PICK c \in Commitments :
          ch' = [ch EXCEPT !.balance = c.balances, !.broadcaster = p,
                   !.status = "CLOSING", !.close_timestamp = now,
                   !.revocation_hash = <<p, c.state_num>>,
                   !.pending = c.htlcs]
    BY DEF force_close
<1>2. c.state_num \in Nat /\ c.balances \in [Parties -> Nat]
      /\ c.htlcs \subseteq HTLCs
    BY CommitmentAssumption DEF HTLCs
<1>3. /\ ch' \in ChannelType /\ ch'.status = "CLOSING"
      /\ ch'.broadcaster = p /\ ch'.funding = ch.funding
    BY <1>1, <1>2 DEF IInv, TypeOK, ChannelType, Status
<1>4. TypeOK'
    BY <1>3 DEF force_close, IInv, TypeOK
<1>5. Accounted' /\ OnRecord'
    BY <1>3 DEF force_close, IInv, Accounted, OnRecord
<1>6. BreachRemedy'
    BY <1>3 DEF force_close, IInv, Accounted, BreachRemedy, Parties
<1> QED BY <1>4, <1>5, <1>6 DEF IInv

\* A payment out of a closing channel, of which chan is the object just
\* before coin::take: to the broadcaster only after the window.
LEMMA TakeStep ==
    ASSUME IInv, ch.status = "CLOSING",
           NEW chan \in ChannelType, NEW p \in Parties, NEW amount \in Nat,
           Take(chan, p, amount), UNCHANGED <<held, revealed, now>>,
           chan.status \in {"CLOSING", "CLOSED"},
           chan.funding = ch.funding, chan.broadcaster = ch.broadcaster,
           chan.close_timestamp = ch.close_timestamp,
           chan.to_self_delay = ch.to_self_delay,
           p = ch.broadcaster => Unlocked(ch)
    PROVE  IInv'
<1>1. /\ amount <= ch.funding /\ ch.funding \in Nat
      /\ ch' = [chan EXCEPT !.funding = ch.funding - amount]
      /\ paid' = [paid EXCEPT ![p] = @ + amount]
    BY DEF Take, IInv, TypeOK, ChannelType
<1>2. ch.funding - amount \in Nat
    BY <1>1
<1>3. /\ ch' \in ChannelType /\ ch'.status = chan.status
      /\ ch'.funding = ch.funding - amount
      /\ ch'.broadcaster = ch.broadcaster
      /\ ch'.close_timestamp = ch.close_timestamp
      /\ ch'.to_self_delay = ch.to_self_delay
    BY <1>1, <1>2 DEF ChannelType
<1>4. paid' \in [Parties -> Nat]
    BY <1>1 DEF IInv, TypeOK
<1>5. TypeOK'
    BY <1>3, <1>4 DEF IInv, TypeOK
<1>6. Accounted'
    <2>1. paid'[PartyA] + paid'[PartyB]
              = paid[PartyA] + paid[PartyB] + amount
        BY <1>1, PartyAssumption DEF IInv, TypeOK, Parties
    <2>2. ch.funding + paid[PartyA] + paid[PartyB] = Capacity
        BY DEF IInv, Accounted
    <2>3. /\ paid[PartyA] \in Nat /\ paid[PartyB] \in Nat
          /\ paid'[PartyA] \in Nat /\ paid'[PartyB] \in Nat
        BY <1>4 DEF IInv, TypeOK, Parties
    <2>4. ch'.funding + paid'[PartyA] + paid'[PartyB] = Capacity
        BY <1>1, <1>3, <2>1, <2>2, <2>3
    <2> QED BY <1>3, <2>4 DEF Accounted
<1>7. OnRecord'
    BY <1>3 DEF IInv, OnRecord
<1>8. BreachRemedy'
    <2> SUFFICES ASSUME ~Unlocked(ch)
                 PROVE  paid'[ch.broadcaster] = 0
        BY <1>3 DEF BreachRemedy, Unlocked
    <2>1. paid[ch.broadcaster] = 0 /\ ch.broadcaster # p
        BY DEF IInv, BreachRemedy
    <2> QED BY <1>1, <2>1 DEF IInv, TypeOK, OnRecord
<1> QED BY <1>5, <1>6, <1>7, <1>8 DEF IInv

\* So does claiming the local balance.
LEMMA SweepStep ==
    ASSUME IInv, NEW p \in Parties, claim_force_close(p)
    PROVE  IInv'
<1> DEFINE chan == [ch EXCEPT !.balance[p] = 0,
                      !.status = IF ch.funding = ch.balance[p]
                                 THEN "CLOSED" ELSE @]
<1>1. ch.balance[p] \in Nat
    BY DEF IInv, TypeOK, ChannelType
<1>2. /\ chan \in ChannelType /\ chan.status \in {"CLOSING", "CLOSED"}
      /\ chan.funding = ch.funding /\ chan.broadcaster = ch.broadcaster
      /\ chan.close_timestamp = ch.close_timestamp
      /\ chan.to_self_delay = ch.to_self_delay
    BY DEF claim_force_close, IInv, TypeOK, ChannelType, Status
<1>3. Take(chan, p, ch.balance[p])
    BY DEF claim_force_close
<1> HIDE DEF chan
<1> QED BY <1>1, <1>2, <1>3, TakeStep DEF claim_force_close

\* So does a penalty.
LEMMA PenalizeStep ==
    ASSUME IInv, penalize
    PROVE  IInv'
<1> DEFINE chan == [ch EXCEPT !.balance = [q \in Parties |-> 0],
                              !.status = "CLOSED"]
           v == Peer(ch.broadcaster)
<1>1. /\ v \in Parties /\ v # ch.broadcaster /\ ch.funding \in Nat
    BY PeerFacts DEF penalize, IInv, TypeOK, ChannelType, OnRecord
<1>2. /\ chan \in ChannelType /\ chan.status = "CLOSED"
      /\ chan.funding = ch.funding /\ chan.broadcaster = ch.broadcaster
      /\ chan.close_timestamp = ch.close_timestamp
      /\ chan.to_self_delay = ch.to_self_delay
    BY DEF IInv, TypeOK, ChannelType, Status
<1>3. Take(chan, v, ch.funding)
    BY DEF penalize
<1> HIDE DEF chan, v
<1> QED BY <1>1, <1>2, <1>3, TakeStep DEF penalize

\* Resolving an HTLC credits one party and pays nobody.
LEMMA CreditStep ==
    ASSUME IInv, NEW p \in Parties, NEW h \in HTLCs,
           NEW C \in SUBSET HTLCs, NEW T \in SUBSET HTLCs,
           ch' = [ch EXCEPT !.pending = @ \ {h}, !.claimed = C,
                    !.timedOut = T, !.balance[p] = @ + h.amount],
           UNCHANGED <<paid, held, revealed, now>>
    PROVE  IInv'
<1>1. h.amount \in Nat
    BY HtlcFacts
<1>2. /\ ch' \in ChannelType
      /\ ch'.status = ch.status /\ ch'.funding = ch.funding
      /\ ch'.broadcaster = ch.broadcaster
      /\ ch'.close_timestamp = ch.close_timestamp
      /\ ch'.to_self_delay = ch.to_self_delay
    <2> DEFINE b == [ch.balance EXCEPT ![p] = @ + h.amount]
               rest == ch.pending \ {h}
    <2>1. b \in [Parties -> Nat] /\ rest \in SUBSET HTLCs
        BY <1>1 DEF IInv, TypeOK, ChannelType
    <2>2. ch' = [ch EXCEPT !.pending = rest, !.claimed = C, !.timedOut = T,
                   !.balance = b]
        BY DEF IInv, TypeOK, ChannelType
    <2> HIDE DEF b, rest
    <2> QED BY <2>1, <2>2, ZenonT(30) DEF IInv, TypeOK, ChannelType
<1>3. TypeOK'
    BY <1>2 DEF IInv, TypeOK
<1>4. Accounted' /\ OnRecord' /\ BreachRemedy'
    BY <1>2 DEF IInv, Accounted, OnRecord, BreachRemedy, Unlocked
<1> QED BY <1>3, <1>4 DEF IInv

\* So does claiming an HTLC.
LEMMA ClaimStep ==
    ASSUME IInv, NEW h \in HTLCs, htlc_claim(h)
    PROVE  IInv'
<1>1. /\ Receiver(h) \in Parties
      /\ ch.claimed \cup {h} \in SUBSET HTLCs /\ ch.timedOut \in SUBSET HTLCs
    BY PeerFacts DEF IInv, TypeOK, ChannelType
<1>2. ch' = [ch EXCEPT !.pending = @ \ {h}, !.claimed = ch.claimed \cup {h},
               !.timedOut = ch.timedOut, !.balance[Receiver(h)] = @ + h.amount]
    BY DEF htlc_claim, IInv, TypeOK, ChannelType
<1> QED BY <1>1, <1>2, CreditStep, ZenonT(30) DEF htlc_claim

\* So does timing one out.
LEMMA TimeoutStep ==
    ASSUME IInv, NEW h \in HTLCs, htlc_timeout(h)
    PROVE  IInv'
<1>1. /\ Sender(h) \in Parties
      /\ ch.timedOut \cup {h} \in SUBSET HTLCs /\ ch.claimed \in SUBSET HTLCs
    BY PeerFacts DEF IInv, TypeOK, ChannelType
<1>2. ch' = [ch EXCEPT !.pending = @ \ {h}, !.claimed = ch.claimed,
               !.timedOut = ch.timedOut \cup {h},
               !.balance[Sender(h)] = @ + h.amount]
    BY DEF htlc_timeout, IInv, TypeOK, ChannelType
<1> QED BY <1>1, <1>2, CreditStep DEF htlc_timeout

-----------------------------------------------------------------------------
\* So does every step.
LEMMA NextIInv == IInv /\ [Next]_vars => IInv'
<1> SUFFICES ASSUME IInv, [Next]_vars
             PROVE  IInv'
    OBVIOUS
<1>1. CASE Tick
    BY <1>1, TickStep
<1>2. CASE open_channel
    BY <1>2, OpenStep
<1>3. CASE close_channel
    BY <1>3, CoopStep
<1>4. CASE penalize
    BY <1>4, PenalizeStep
<1>5. ASSUME NEW p \in Parties, NextCommitment(p) PROVE IInv'
    BY <1>5, NextCommitmentStep
<1>6. ASSUME NEW p \in Parties, Revoke(p) PROVE IInv'
    BY <1>6, RevokeStep
<1>7. ASSUME NEW p \in Parties, force_close(p) PROVE IInv'
    BY <1>7, ForceCloseStep
<1>8. ASSUME NEW p \in Parties, claim_force_close(p) PROVE IInv'
    BY <1>8, SweepStep
<1>9. ASSUME NEW h \in HTLCs, htlc_claim(h) PROVE IInv'
    BY <1>9, ClaimStep
<1>10. ASSUME NEW h \in HTLCs, htlc_timeout(h) PROVE IInv'
    BY <1>10, TimeoutStep
<1>11. CASE UNCHANGED vars
    BY <1>11, QuietStep DEF vars, IInv, TypeOK
<1> QED
    BY <1>1, <1>2, <1>3, <1>4, <1>5, <1>6, <1>7, <1>8, <1>9, <1>10, <1>11
       DEF Next

\* The step behind PenaltyComplete: whichever call ends the channel inside the
\* window empties the escrow, and the broadcaster had got nothing of it.
LEMMA ClosingStep ==
    ASSUME IInv, Next, ch.status = "CLOSING", ch'.status = "CLOSED",
           ~Unlocked(ch)
    PROVE  paid'[Peer(ch.broadcaster)] = Capacity
<1> DEFINE b == ch.broadcaster
           v == Peer(ch.broadcaster)
<1>1. /\ b \in Parties /\ v \in Parties /\ v # b
      /\ {b, v} = {PartyA, PartyB}
    BY PeerFacts DEF IInv, OnRecord, Parties, Peer
<1>2. /\ paid[b] = 0 /\ ch.funding + paid[v] = Capacity
      /\ paid[v] \in Nat /\ ch.funding \in Nat
    BY <1>1, PartyAssumption
       DEF IInv, TypeOK, ChannelType, Accounted, BreachRemedy, Parties
<1>3. CASE penalize
    <2>1. paid' = [paid EXCEPT ![v] = @ + ch.funding]
        BY <1>3 DEF penalize, Take
    <2> QED BY <1>1, <1>2, <2>1 DEF IInv, TypeOK
<1>4. ASSUME NEW p \in Parties, claim_force_close(p)
      PROVE  paid'[v] = Capacity
    <2>1. p = v
        BY <1>1, <1>4 DEF claim_force_close, Parties
    <2>2. /\ paid' = [paid EXCEPT ![p] = @ + ch.balance[p]]
          /\ ch.funding = ch.balance[p]
        BY <1>4 DEF claim_force_close, Take, IInv, TypeOK, ChannelType
    <2> QED BY <1>1, <1>2, <2>1, <2>2 DEF IInv, TypeOK
<1>5. ~(Tick \/ open_channel \/ close_channel)
    BY DEF Tick, open_channel, close_channel
<1>6. \A p \in Parties : ~(NextCommitment(p) \/ Revoke(p) \/ force_close(p))
    BY DEF NextCommitment, Revoke, force_close
<1>7. \A h \in HTLCs : ~(htlc_claim(h) \/ htlc_timeout(h))
    BY DEF htlc_claim, htlc_timeout, IInv, TypeOK, ChannelType
<1> QED BY <1>3, <1>4, <1>5, <1>6, <1>7 DEF Next

-----------------------------------------------------------------------------
\* It holds in every reachable state.
LEMMA Inductive == Spec => []IInv
BY InitIInv, NextIInv, PTL DEF Spec

\* The Channel object of lightning.move keeps its types: no subtraction of
\* claim_force_close, close_channel or penalize underflows.
THEOREM TypeCorrect == Spec => []TypeOK
<1>1. IInv => TypeOK
    BY DEF IInv
<1> QED BY <1>1, Inductive, PTL

\* claim_force_close pays the broadcaster nothing before to_self_delay is over,
\* whatever was claimed, timed out or swept in between.
THEOREM BreachWindow == Spec => []BreachRemedy
<1>1. IInv => BreachRemedy
    BY DEF IInv
<1> QED BY <1>1, Inductive, PTL

\* A force-closed channel that ends inside the window leaves the whole
\* capacity with the party that did not publish.
THEOREM PenaltyTakesAll == Spec => PenaltyComplete
<1>1. IInv /\ [Next]_vars =>
        [ch.status = "CLOSING" /\ ch'.status = "CLOSED" /\ ~Unlocked(ch)
           => paid'[Peer(ch.broadcaster)] = Capacity]_vars
    BY ClosingStep
<1> QED BY <1>1, Inductive, PTL DEF Spec, PenaltyComplete

-----------------------------------------------------------------------------
(* Who is owed what. *)

\* HTLCs leave pending once, and a channel nobody has force-closed has none.
Fates ==
    /\ ch.status \in {"NONE", "OPEN"} =>
          /\ ch.pending = {} /\ ch.claimed = {} /\ ch.timedOut = {}
          /\ ch.broadcaster = NoBroadcaster
    /\ ch.pending \cap (ch.claimed \cup ch.timedOut) = {}

Received(p) == {h \in ch.claimed : Receiver(h) = p}
Refunded(p) == {h \in ch.timedOut : Sender(h) = p}

\* What the published commitment c leaves in the escrow covers what is owed.
Covered(c) ==
    Fits(c) => HtlcSum(ch.pending) + ch.balance[PartyA] + ch.balance[PartyB]
                   <= ch.funding

\* The published commitment c accounts for every coin of a closing channel.
Explains(c) ==
    /\ ch.revocation_hash = <<c.holder, c.state_num>>
    /\ c.htlcs = ch.pending \cup ch.claimed \cup ch.timedOut
    /\ \A p \in Parties :
          paid[p] + ch.balance[p]
              = c.balances[p] + HtlcSum(Received(p)) + HtlcSum(Refunded(p))
    /\ Covered(c)

Owed ==
    /\ Fates
    /\ ch.status = "CLOSING" => \E c \in Commitments : Explains(c)
    /\ ch.status = "CLOSED" /\ ch.broadcaster # NoBroadcaster => ch.funding = 0

\* Whoever is owed what was paid was entitled to it.
LEMMA OwedEntitled == Owed => Entitled
BY DEF Owed, Explains, Received, Refunded, Entitled, Share

\* Whoever has a credit finds it covered.
LEMMA OwedCovered == Owed => CreditCovered
BY DEF Owed, Explains, Covered, CreditCovered

\* HtlcSum is the sum of amounts.
LEMMA HtlcSumIs == \A S : HtlcSum(S) = Amounts(S)
BY DEF HtlcSum, Amounts

\* No HTLCs, no amount.
LEMMA HtlcSumEmpty == HtlcSum({}) = 0
BY HtlcSumIs, AmountsEmpty

\* One more HTLC adds its amount.
LEMMA HtlcSumAdd ==
    ASSUME NEW S, IsFiniteSet(S), NEW h, h \notin S,
           \A g \in S \cup {h} : g.amount \in Nat
    PROVE  HtlcSum(S \cup {h}) = HtlcSum(S) + h.amount /\ HtlcSum(S) \in Nat
<1>1. IsFiniteSet(S \cup {h}) /\ h \in S \cup {h} /\ (S \cup {h}) \ {h} = S
    BY FS_AddElement
<1> QED BY <1>1, AmountsRemove, HtlcSumIs

\* A step that leaves the object's account of the close alone.
LEMMA OwedQuiet ==
    ASSUME Owed, UNCHANGED <<ch, paid>>
    PROVE  Owed'
BY DEF Owed, Fates, Explains, Received, Refunded, Covered, Fits

\* Opening and closing cooperatively leave nothing pending.
LEMMA OwedOpen ==
    ASSUME Owed, IInv, open_channel \/ close_channel
    PROVE  Owed'
<1>1. /\ ch'.status \in {"OPEN", "CLOSED"} /\ ch'.broadcaster = NoBroadcaster
      /\ ch'.pending = {} /\ ch'.claimed = {} /\ ch'.timedOut = {}
    BY DEF open_channel, close_channel, NoChannel, Owed, Fates, IInv, TypeOK, ChannelType
<1> QED BY <1>1 DEF Owed, Fates

\* A force close pays the peer its balance and locks the rest.
LEMMA OwedForceClose ==
    ASSUME Owed, IInv, NEW p \in Parties, force_close(p)
    PROVE  Owed'
<1>1. PICK c \in Commitments :
         /\ ch' = [ch EXCEPT !.balance = c.balances, !.broadcaster = p,
                      !.status = "CLOSING", !.close_timestamp = now,
                      !.revocation_hash = <<p, c.state_num>>,
                      !.pending = c.htlcs]
         /\ c.holder = p
    BY DEF force_close
<1>2. /\ ch'.status = "CLOSING" /\ ch'.revocation_hash = <<p, c.state_num>>
      /\ ch'.pending = c.htlcs /\ ch'.claimed = {} /\ ch'.timedOut = {}
      /\ ch'.balance = c.balances
    BY <1>1 DEF force_close, Owed, Fates, IInv, TypeOK, ChannelType
<1>3. \A q \in Parties : paid'[q] = 0
    BY DEF force_close, IInv, Accounted, Parties
<1>4. \A q \in Parties : Received(q)' = {} /\ Refunded(q)' = {}
    BY <1>2 DEF Received, Refunded
<1>5. \A q \in Parties : c.balances[q] \in Nat
    BY CommitmentAssumption
<1>6. Explains(c)'
    <2>1. \A q \in Parties : HtlcSum(Received(q))' = 0 /\ HtlcSum(Refunded(q))' = 0
        BY <1>4, HtlcSumEmpty
    <2>2. Covered(c)'
        <3>1. ch'.funding = Capacity
            BY <1>1, AmountAssumption
               DEF force_close, IInv, TypeOK, ChannelType, Accounted, Parties
        <3>2. HtlcSum(ch'.pending) \in Nat
            BY <1>2, CommitmentAssumption, AmountsRemove, HtlcSumIs
        <3> QED BY <1>2, <1>5, <3>1, <3>2, AmountAssumption DEF Covered, Fits, Parties
    <2> QED BY <1>1, <1>2, <1>3, <1>5, <2>1, <2>2 DEF Explains
<1> QED BY <1>2, <1>6 DEF Owed, Fates

\* A sweep turns credit into coins; the call that empties the object closes it.
LEMMA OwedSweep ==
    ASSUME Owed, IInv, NEW p \in Parties, claim_force_close(p)
    PROVE  Owed'
<1> DEFINE b == ch.balance[p]
<1>1. /\ ch.status = "CLOSING" /\ b \in Nat /\ ch.funding \in Nat
      /\ ch'.status = (IF ch.funding = b THEN "CLOSED" ELSE "CLOSING")
      /\ ch'.balance = [ch.balance EXCEPT ![p] = 0]
      /\ ch'.funding = ch.funding - b
      /\ ch'.pending = ch.pending /\ ch'.claimed = ch.claimed
      /\ ch'.timedOut = ch.timedOut /\ ch'.revocation_hash = ch.revocation_hash
      /\ paid' = [paid EXCEPT ![p] = @ + b]
    BY DEF claim_force_close, Take, IInv, TypeOK, ChannelType
<1>2. PICK c \in Commitments : Explains(c)
    BY <1>1 DEF Owed
<1> HIDE DEF b
<1>3. \A q \in Parties : paid'[q] + ch'.balance[q] = paid[q] + ch.balance[q]
    BY <1>1 DEF b, IInv, TypeOK, ChannelType
<1>4. \A q \in Parties : Received(q)' = Received(q) /\ Refunded(q)' = Refunded(q)
    BY <1>1 DEF Received, Refunded
<1>5. Covered(c)'
    <2>1. /\ ch.balance[PartyA] \in Nat /\ ch.balance[PartyB] \in Nat
          /\ HtlcSum(ch.pending) \in Nat
        BY <1>2, CommitmentAssumption, AmountsRemove, HtlcSumIs, FS_Subset
           DEF Explains, IInv, TypeOK, ChannelType, Parties
    <2>2. ch'.balance[PartyA] + ch'.balance[PartyB] + b
              = ch.balance[PartyA] + ch.balance[PartyB]
        BY <1>1, <2>1, PartyAssumption DEF b, IInv, TypeOK, ChannelType, Parties
    <2>3. ch'.balance[PartyA] \in Nat /\ ch'.balance[PartyB] \in Nat
        BY <1>1 DEF IInv, TypeOK, ChannelType, Parties
    <2> QED BY <1>1, <1>2, <2>1, <2>2, <2>3 DEF Explains, Covered, Fits
<1>6. Explains(c)'
    BY <1>1, <1>2, <1>3, <1>4, <1>5 DEF Explains
<1> QED BY <1>1, <1>6 DEF Owed, Fates

\* A penalty pays everything to the one who was cheated.
LEMMA OwedPenalize ==
    ASSUME Owed, IInv, penalize
    PROVE  Owed'
<1>1. /\ ch'.status = "CLOSED" /\ ch'.funding = 0
      /\ ch'.pending = ch.pending /\ ch'.claimed = ch.claimed
      /\ ch'.timedOut = ch.timedOut
    BY DEF penalize, Take, IInv, TypeOK, ChannelType
<1> QED BY <1>1 DEF Owed, Fates

\* An HTLC of a commitment is resolved to one party's credit, once.
LEMMA OwedCredit ==
    ASSUME Owed, IInv, NEW h \in HTLCs, htlc_claim(h) \/ htlc_timeout(h)
    PROVE  Owed'
<1>1. /\ h \in ch.pending /\ UNCHANGED paid
      /\ ch'.status = ch.status /\ ch'.broadcaster = ch.broadcaster
      /\ ch'.funding = ch.funding /\ ch'.revocation_hash = ch.revocation_hash
      /\ ch'.pending = ch.pending \ {h}
    BY DEF htlc_claim, htlc_timeout, IInv, TypeOK, ChannelType
<1>2. \/ /\ ch'.claimed = ch.claimed \cup {h} /\ ch'.timedOut = ch.timedOut
         /\ ch'.balance = [ch.balance EXCEPT ![Receiver(h)] = @ + h.amount]
      \/ /\ ch'.claimed = ch.claimed /\ ch'.timedOut = ch.timedOut \cup {h}
         /\ ch'.balance = [ch.balance EXCEPT ![Sender(h)] = @ + h.amount]
    BY DEF htlc_claim, htlc_timeout, IInv, TypeOK, ChannelType
<1>3. h \notin ch.claimed /\ h \notin ch.timedOut /\ ch.status \notin {"NONE", "OPEN"}
    BY <1>1 DEF Owed, Fates
<1>4. Fates'
    BY <1>1, <1>2, <1>3 DEF Owed, Fates
<1>5. ASSUME NEW c \in Commitments, Explains(c) PROVE Explains(c)'
    <2>1. c.htlcs = (ch.pending \cup ch.claimed \cup ch.timedOut)'
        BY <1>1, <1>2, <1>5 DEF Explains
    <2>2. IsFiniteSet(ch.claimed) /\ IsFiniteSet(ch.timedOut)
          /\ \A g \in ch.claimed \cup ch.timedOut \cup {h} : g.amount \in Nat
        BY <1>1, <1>5, CommitmentAssumption, FS_Subset DEF Explains
    <2>3. ASSUME NEW q \in Parties
          PROVE  paid'[q] + ch'.balance[q]
                   = c.balances[q] + HtlcSum(Received(q)') + HtlcSum(Refunded(q)')
        <3>1. /\ IsFiniteSet(Received(q)) /\ IsFiniteSet(Refunded(q))
              /\ h \notin Received(q) /\ h \notin Refunded(q)
              /\ \A g \in Received(q) \cup Refunded(q) \cup {h} : g.amount \in Nat
            BY <1>3, <2>2, FS_Subset DEF Received, Refunded
        <3>2. /\ HtlcSum(Received(q) \cup {h}) = HtlcSum(Received(q)) + h.amount
              /\ HtlcSum(Refunded(q) \cup {h}) = HtlcSum(Refunded(q)) + h.amount
              /\ HtlcSum(Received(q)) \in Nat /\ HtlcSum(Refunded(q)) \in Nat
            <4> HIDE DEF Received, Refunded
            <4> QED BY <3>1, HtlcSumAdd
        <3>3. /\ paid[q] + ch.balance[q]
                   = c.balances[q] + HtlcSum(Received(q)) + HtlcSum(Refunded(q))
              /\ paid[q] \in Nat /\ ch.balance[q] \in Nat /\ c.balances[q] \in Nat
              /\ h.amount \in Nat
            BY <1>5, <3>1, CommitmentAssumption DEF Explains, IInv, TypeOK, ChannelType
        <3>4. CASE /\ ch'.claimed = ch.claimed \cup {h} /\ ch'.timedOut = ch.timedOut
                   /\ ch'.balance = [ch.balance EXCEPT ![Receiver(h)] = @ + h.amount]
            <4>1. Refunded(q)' = Refunded(q)
                BY <3>4 DEF Refunded
            <4>2. CASE q = Receiver(h)
                <5>1. Received(q)' = Received(q) \cup {h}
                    BY <3>4, <4>2 DEF Received
                <5>2. ch'.balance[q] = ch.balance[q] + h.amount
                    BY <3>4, <4>2 DEF IInv, TypeOK, ChannelType
                <5> HIDE DEF Received, Refunded
                <5> QED BY <1>1, <3>2, <3>3, <4>1, <5>1, <5>2
            <4>3. CASE q # Receiver(h)
                <5>1. Received(q)' = Received(q)
                    BY <3>4, <4>3 DEF Received
                <5>2. ch'.balance[q] = ch.balance[q]
                    BY <3>4, <4>3 DEF IInv, TypeOK, ChannelType
                <5> HIDE DEF Received, Refunded
                <5> QED BY <1>1, <3>2, <3>3, <4>1, <5>1, <5>2
            <4> QED BY <4>2, <4>3
        <3>5. CASE /\ ch'.claimed = ch.claimed /\ ch'.timedOut = ch.timedOut \cup {h}
                   /\ ch'.balance = [ch.balance EXCEPT ![Sender(h)] = @ + h.amount]
            <4>1. Received(q)' = Received(q)
                BY <3>5 DEF Received
            <4>2. CASE q = Sender(h)
                <5>1. Refunded(q)' = Refunded(q) \cup {h}
                    BY <3>5, <4>2 DEF Refunded
                <5>2. ch'.balance[q] = ch.balance[q] + h.amount
                    BY <3>5, <4>2 DEF IInv, TypeOK, ChannelType
                <5> HIDE DEF Received, Refunded
                <5> QED BY <1>1, <3>2, <3>3, <4>1, <5>1, <5>2
            <4>3. CASE q # Sender(h)
                <5>1. Refunded(q)' = Refunded(q)
                    BY <3>5, <4>3 DEF Refunded
                <5>2. ch'.balance[q] = ch.balance[q]
                    BY <3>5, <4>3 DEF IInv, TypeOK, ChannelType
                <5> HIDE DEF Received, Refunded
                <5> QED BY <1>1, <3>2, <3>3, <4>1, <5>1, <5>2
            <4> QED BY <4>2, <4>3
        <3> QED BY <1>2, <3>4, <3>5
    <2>4. Covered(c)'
        <3>1. IsFiniteSet(ch.pending) /\ \A g \in ch.pending : g.amount \in Nat
            BY <1>5, CommitmentAssumption, FS_Subset DEF Explains
        <3>2. /\ HtlcSum(ch.pending) = HtlcSum(ch'.pending) + h.amount
              /\ HtlcSum(ch'.pending) \in Nat /\ h.amount \in Nat
            BY <1>1, <3>1, AmountsRemove, HtlcSumIs
        <3>3. /\ ch.balance[PartyA] \in Nat /\ ch.balance[PartyB] \in Nat
              /\ ch.funding \in Nat
            BY DEF IInv, TypeOK, ChannelType, Parties
        <3>4. ch'.balance[PartyA] + ch'.balance[PartyB]
                  = ch.balance[PartyA] + ch.balance[PartyB] + h.amount
            BY <1>2, <3>2, <3>3, PeerFacts DEF IInv, TypeOK, ChannelType, Parties
        <3>5. ch'.balance[PartyA] \in Nat /\ ch'.balance[PartyB] \in Nat
            BY <1>2, <3>2, <3>3, PeerFacts DEF IInv, TypeOK, ChannelType, Parties
        <3> QED BY <1>1, <1>5, <3>2, <3>3, <3>4, <3>5 DEF Explains, Covered, Fits
    <2> QED BY <1>1, <1>5, <2>1, <2>3, <2>4 DEF Explains
<1> QED BY <1>1, <1>4, <1>5 DEF Owed

\* Every step keeps payments explained.
LEMMA OwedNext == Owed /\ IInv /\ [Next]_vars => Owed'
<1> SUFFICES ASSUME Owed, IInv, [Next]_vars PROVE Owed'
    OBVIOUS
<1>1. ASSUME \/ Tick \/ UNCHANGED vars
             \/ \E p \in Parties : NextCommitment(p) \/ Revoke(p)
      PROVE  UNCHANGED <<ch, paid>>
    BY <1>1 DEF Tick, NextCommitment, Revoke, vars
<1> QED BY <1>1, OwedQuiet, OwedOpen, OwedForceClose, OwedSweep, OwedPenalize,
           OwedCredit DEF Next

\* Payments are explained in every reachable state.
LEMMA OwedAlways == Spec => []Owed
<1>1. Init => Owed
    BY DEF Init, NoChannel, Owed, Fates
<1> QED BY <1>1, OwedNext, Inductive, PTL DEF Spec

\* Every coin of a force-closed channel is where the published commitment and
\* the fate of its HTLCs put it, and a channel closed by sweeps or a penalty
\* keeps none (lightning.move claim_force_close, htlc_claim, htlc_timeout).
THEOREM NoCoinAstray == Spec => []Entitled
BY OwedAlways, OwedEntitled, PTL

\* Whatever order sweeps, claims and timeouts come in, the escrow covers every
\* credit and every pending HTLC of a published commitment that fits it, so that
\* no sweep aborts for want of coins (lightning.move claim_force_close).
THEOREM SweepsCovered == Spec => []CreditCovered
BY OwedAlways, OwedCovered, PTL
=============================================================================
