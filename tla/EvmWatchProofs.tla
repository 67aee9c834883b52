--------------------------- MODULE EvmWatchProofs ---------------------------
(***************************************************************************)
(* For every chain length, window size, hold-back and number of faults:    *)
(* the backup agent never believes more than the tower's disk holds; and   *)
(* when the lookout holds back at least as many blocks as a                *)
(* reorganisation replaces, its cursor leaves no close behind and every    *)
(* penalize it relays stays valid.                                         *)
(***************************************************************************)
EXTENDS EvmWatch, TLAPS

\* The hold-back covers every reorganisation, and the scan starts at a block
\* (a FromBlock of 0 is replaced by one near the tip).
HeldBack == MaxReorg <= ReorgDepth /\ FromBlock > 0

\* An acknowledgement on its way to the agent speaks of what is stored.
Stored ==
    /\ SentMeansStored
    /\ upload # None /\ upload.acked => upload.nonce <= store

\* The query under way continues at the cursor and, like everything below the
\* cursor, lies too deep for any reorganisation.
ScannedDeep ==
    /\ tip + MaxReorg >= best
    /\ scan # None => cursor = scan.from /\ scan.to + ReorgDepth <= best
    /\ cursor # None => /\ cursor >= FromBlock
                        /\ cursor = FromBlock \/ cursor + ReorgDepth <= best + 1

\* The close that a penalize call answers can no longer be dropped.
Buried ==
    /\ relayed # {} \/ penalty # None => close # None /\ close.at + MaxReorg <= best
    /\ penalty # None => penalty.nonce > close.nonce

AgentInv == TypeOK /\ Stored
LookoutInv == TypeOK /\ ScannedDeep /\ Buried /\ NoMissedClose /\ NoWastedPenalize

-----------------------------------------------------------------------------
\* The greater of two numbers.
LEMMA MaxPair ==
    \A a, b \in Nat : Max({a, b}) = IF a >= b THEN a ELSE b
BY DEF Max

\* The smaller of two numbers.
LEMMA MinPair ==
    \A a, b \in Nat : Min({a, b}) = IF a <= b THEN a ELSE b
BY DEF Min

\* The constants are numbers.
LEMMA ConstantTypes ==
    /\ MaxReorg \in Nat /\ ReorgDepth \in Nat /\ FromBlock \in Nat
    /\ MaxNonce \in Nat /\ MaxFaults \in Nat
    /\ WindowSize \in Nat /\ WindowSize > 0 /\ MaxTip \in Nat /\ MaxTip > 0
    /\ None \notin Nat
BY WatchAssumption

\* A new block's height, and the highest height there has been.
LEMMA NewBlock ==
    ASSUME TypeOK, tip < MaxTip, tip' = tip + 1, best' = Max({best, tip'})
    PROVE  /\ tip' \in 1 .. MaxTip /\ best' \in tip' .. MaxTip
           /\ best' >= best
           /\ best' = best \/ best' = tip'
BY MaxPair, ConstantTypes DEF TypeOK

\* What the first half of a scan computes.
LEMMA ScanRange ==
    ASSUME TypeOK, scan_Tip
    PROVE  /\ scan = None
           /\ cursor' \in Nat
           /\ cursor # None => cursor' = cursor
           /\ FromBlock > 0 /\ cursor = None => cursor' = FromBlock
           /\ scan' # None =>
                 /\ scan' \in [from : Nat, to : Nat]
                 /\ scan'.from = cursor' /\ scan'.to >= cursor'
                 /\ scan'.to <= safeTip
           /\ safeTip \in Nat /\ safeTip <= tip
           /\ tip > ReorgDepth => safeTip + ReorgDepth = tip
           /\ tip <= ReorgDepth => safeTip = 0
<1> DEFINE anchor == IF FromBlock = 0 /\ tip > WindowSize THEN tip - WindowSize
                     ELSE FromBlock
           from == IF cursor = None THEN anchor ELSE cursor
<1>1. /\ scan = None /\ cursor' = from
      /\ scan' = IF Scannable(from)
                 THEN [from |-> from, to |-> Min({from + WindowSize - 1, safeTip})]
                 ELSE None
    BY DEF scan_Tip
<1>2. tip \in Nat /\ tip > 0
    BY ConstantTypes DEF TypeOK
<1>3. anchor \in Nat /\ (FromBlock > 0 => anchor = FromBlock)
    BY <1>2, ConstantTypes
<1>4. from \in Nat
    BY <1>3 DEF TypeOK
<1>5. /\ safeTip \in Nat /\ safeTip <= tip
      /\ tip > ReorgDepth => safeTip + ReorgDepth = tip
      /\ tip <= ReorgDepth => safeTip = 0
    BY <1>2, ConstantTypes DEF safeTip
<1>6. from + WindowSize - 1 \in Nat /\ from + WindowSize - 1 >= from
    BY <1>4, ConstantTypes
<1>7. ASSUME scan' # None
      PROVE  /\ scan' \in [from : Nat, to : Nat]
             /\ scan'.from = from /\ scan'.to >= from /\ scan'.to <= safeTip
    <2> DEFINE to == Min({from + WindowSize - 1, safeTip})
    <2>1. from <= safeTip /\ scan' = [from |-> from, to |-> to]
        BY <1>1, <1>7 DEF Scannable
    <2>2. to \in Nat /\ to >= from /\ to <= safeTip
        BY <1>4, <1>5, <1>6, <2>1, MinPair
    <2> HIDE DEF to, from
    <2> QED BY <1>4, <2>1, <2>2
<1> QED BY <1>1, <1>3, <1>4, <1>5, <1>7

-----------------------------------------------------------------------------
(* Type correctness. *)

\* Types hold initially.
LEMMA InitType == Init => TypeOK
<1> SUFFICES ASSUME Init PROVE TypeOK
    OBVIOUS
<1>1. done \in BOOLEAN
    BY Zenon DEF Init
<1> QED BY <1>1, ConstantTypes DEF Init, TypeOK

\* A new block keeps the types.
LEMMA BlockType ==
    ASSUME TypeOK, tip < MaxTip, tip' = tip + 1, best' = Max({best, tip'}),
           close' \in [at : 1 .. tip', nonce : 0 .. nonce] \cup {None},
           penalty' \in [at : 1 .. tip', nonce : 1 .. nonce] \cup {None},
           relayed' \subseteq relayed,
           UNCHANGED <<client, agent, inbox, store, lookout, faults>>
    PROVE  TypeOK'
<1>1. tip' \in 1 .. MaxTip /\ best' \in tip' .. MaxTip /\ best' >= best
    BY NewBlock
<1>2. (scan # None => scan.to \in scan.from .. best)'
    BY <1>1, ConstantTypes DEF TypeOK, lookout
<1> QED BY <1>1, <1>2 DEF TypeOK, client, agent, lookout

\* A record of a shorter chain is one of a longer chain.
LEMMA OldRecords ==
    ASSUME TypeOK, tip' = tip + 1
    PROVE  /\ close \in [at : 1 .. tip', nonce : 0 .. nonce] \cup {None}
           /\ penalty \in [at : 1 .. tip', nonce : 1 .. nonce] \cup {None}
BY ConstantTypes DEF TypeOK

\* So does everything the chain does.
LEMMA ChainType ==
    ASSUME TypeOK,
           \/ EmptyBlock \/ \E n \in 0 .. MaxNonce : CloseBlock(n)
           \/ \E p \in relayed : PenaltyBlock(p)
    PROVE  TypeOK'
<1>1. CASE EmptyBlock
    BY <1>1, BlockType, OldRecords DEF EmptyBlock, client
<1>2. ASSUME NEW n \in 0 .. MaxNonce, CloseBlock(n) PROVE TypeOK'
    <2>1. close' \in [at : 1 .. tip', nonce : 0 .. nonce] \cup {None}
        BY <1>2, NewBlock DEF CloseBlock
    <2> QED BY <1>2, <2>1, BlockType, OldRecords DEF CloseBlock
<1>3. ASSUME NEW p \in relayed, PenaltyBlock(p) PROVE TypeOK'
    <2>1. p \in 1 .. nonce /\ tip' \in 1 .. tip'
        BY <1>3, NewBlock DEF PenaltyBlock, TypeOK
    <2>2. penalty' \in [at : 1 .. tip', nonce : 1 .. nonce] \cup {None}
        BY <1>3, <2>1, OldRecords DEF PenaltyBlock
    <2> QED BY <1>3, <2>2, BlockType, OldRecords DEF PenaltyBlock
<1> QED BY <1>1, <1>2, <1>3

\* So does a reorganisation.
LEMMA ReorgType ==
    ASSUME TypeOK, NEW k \in 1 .. MaxReorg, Reorg(k)
    PROVE  TypeOK'
<1>1. tip' \in 1 .. MaxTip /\ best' \in tip' .. MaxTip /\ tip' <= tip
    BY ConstantTypes DEF TypeOK, Reorg
<1>2. close' \in [at : 1 .. tip', nonce : 0 .. nonce] \cup {None}
    BY <1>1 DEF TypeOK, Reorg
<1>3. penalty' \in [at : 1 .. tip', nonce : 1 .. nonce] \cup {None}
    BY <1>1 DEF TypeOK, Reorg
<1>4. relayed' \subseteq 1 .. nonce
    <2>1. penalty # None => penalty.nonce \in 1 .. nonce
        BY DEF TypeOK
    <2>2. penalty' # penalty => penalty # None
        BY DEF Reorg
    <2> QED BY <2>1, <2>2 DEF TypeOK, Reorg
<1>5. faults' \in 0 .. MaxFaults
    BY ConstantTypes DEF TypeOK, Reorg, Fault
<1> QED BY <1>1, <1>2, <1>3, <1>4, <1>5 DEF TypeOK, Reorg, client, agent, lookout

\* So do the agent's steps.
LEMMA AgentType ==
    ASSUME TypeOK,
           \/ Advance \/ CloseRecorded \/ snapshot \/ Acknowledged \/ PutFails \/ HungUp \/ ClientRestart
           \/ \E n \in inbox : handle(n)
    PROVE  TypeOK'
<1> USE ConstantTypes DEF TypeOK, chain, client, agent, lookout
<1>1. CASE Advance
    BY <1>1 DEF Advance
<1>2. CASE snapshot
    BY <1>2 DEF snapshot
<1>3. CASE Acknowledged
    BY <1>3 DEF Acknowledged
<1>4. CASE PutFails
    BY <1>4 DEF PutFails, Fault
<1>5. CASE HungUp
    BY <1>5 DEF HungUp
<1>6. CASE ClientRestart
    BY <1>6 DEF ClientRestart, Fault
<1>7. ASSUME NEW n \in inbox, handle(n) PROVE TypeOK'
    <2>1. upload' \in [nonce : 1 .. nonce, acked : BOOLEAN] \cup {None}
        <3>1. CASE upload # None /\ upload.nonce = n
            <4>1. upload' = [upload EXCEPT !.acked = TRUE]
                BY <1>7, <3>1 DEF handle
            <4> QED BY <3>1, <4>1, Zenon
        <3>2. CASE ~ (upload # None /\ upload.nonce = n)
            BY <1>7, <3>2 DEF handle
        <3> QED BY <3>1, <3>2
    <2>2. store' \in 0 .. nonce
        BY <1>7 DEF handle, Put
    <2> QED BY <1>7, <2>1, <2>2 DEF handle
<1>8. CASE CloseRecorded
    <2>1. open' \in BOOLEAN
        BY <1>8, Zenon DEF CloseRecorded
    <2> QED BY <1>8, <2>1 DEF CloseRecorded
<1> QED BY <1>1, <1>2, <1>3, <1>4, <1>5, <1>6, <1>7, <1>8

\* So do the lookout's.
LEMMA LookoutType ==
    ASSUME TypeOK,
           \/ scan_Tip \/ scan_Fails \/ TowerRestart
           \/ \E f \in BOOLEAN : scan_Logs(f)
    PROVE  TypeOK'
<1> USE ConstantTypes DEF chain, client, agent, lookout
<1>1. CASE scan_Tip
    BY <1>1, ScanRange DEF TypeOK, scan_Tip
<1>2. CASE scan_Fails
    BY <1>2 DEF TypeOK, scan_Fails, Fault
<1>3. CASE TowerRestart
    <2>1. done' \in BOOLEAN
        BY <1>3, Zenon DEF TowerRestart
    <2> QED BY <1>3, <2>1 DEF TypeOK, TowerRestart, Fault
<1>4. ASSUME NEW f \in BOOLEAN, scan_Logs(f) PROVE TypeOK'
    <2>1. Logs \subseteq [at : Nat, nonce : Nat]
        BY DEF TypeOK, Logs
    <2>2. Breaches # {} => store \in 1 .. nonce
        BY DEF TypeOK, Breaches, Logs, shouldPenalize
    <2>3. scan # None /\ scan.to \in Nat
        BY <1>4 DEF scan_Logs, TypeOK
    <2>4. done' \in BOOLEAN
        BY <1>4, Zenon DEF TypeOK, scan_Logs
    <2>5. relayed' \subseteq 1 .. nonce
        BY <1>4, <2>2 DEF TypeOK, scan_Logs
    <2>6. faults' \in 0 .. MaxFaults
        BY <1>4 DEF TypeOK, scan_Logs, Fault
    <2> QED BY <1>4, <2>1, <2>3, <2>4, <2>5, <2>6 DEF TypeOK, scan_Logs
<1> QED BY <1>1, <1>2, <1>3, <1>4

\* So does every step.
LEMMA NextType == TypeOK /\ [Next]_vars => TypeOK'
<1> SUFFICES ASSUME TypeOK, [Next]_vars PROVE TypeOK'
    OBVIOUS
<1>1. CASE UNCHANGED vars
    BY <1>1 DEF TypeOK, vars, chain, client, agent, lookout
<1>2. CASE Next
    BY <1>2, ChainType, ReorgType, AgentType, LookoutType DEF Next
<1> QED BY <1>1, <1>2

\* The variables keep their types, for every value of the constants.
THEOREM TypeCorrect == Spec => []TypeOK
BY InitType, NextType, PTL DEF Spec

-----------------------------------------------------------------------------
(* The backup agent and the store. *)

\* Every step keeps Stored.
LEMMA StoredStep == TypeOK /\ Stored /\ [Next]_vars => Stored'
<1> SUFFICES ASSUME TypeOK, Stored, [Next]_vars PROVE Stored'
    OBVIOUS
<1> USE DEF Stored, SentMeansStored
<1>1. CASE UNCHANGED <<agent, store>>
    BY <1>1 DEF agent
<1>2. CASE snapshot
    <2>1. ~ (upload'.acked)
        BY <1>2 DEF snapshot
    <2> QED BY <1>2, <2>1 DEF snapshot
<1>3. ASSUME NEW n \in inbox, handle(n) PROVE Stored'
    <2>1. store' \in Nat /\ store' >= store /\ store' >= n
        BY <1>3, ConstantTypes DEF handle, Put, TypeOK
    <2>2. upload' # None => upload # None /\ upload'.nonce = upload.nonce
        BY <1>3 DEF handle, TypeOK
    <2>3. upload' # None /\ upload.nonce # n => upload' = upload
        BY <1>3 DEF handle
    <2>4. sent' = sent
        BY <1>3 DEF handle
    <2>5. SentMeansStored'
        BY <2>1, <2>4, ConstantTypes DEF TypeOK
    <2>6. ASSUME upload' # None, upload'.acked PROVE upload'.nonce <= store'
        <3>1. CASE upload.nonce = n
            BY <2>1, <2>2, <2>6, <3>1
        <3>2. CASE upload.nonce # n
            BY <2>1, <2>2, <2>3, <2>6, <3>2, ConstantTypes DEF TypeOK
        <3> QED BY <3>1, <3>2
    <2> QED BY <2>5, <2>6
<1>4. CASE Acknowledged
    BY <1>4 DEF Acknowledged
<1>5. CASE PutFails \/ HungUp
    BY <1>5 DEF PutFails, HungUp
<1>6. CASE ClientRestart
    BY <1>6 DEF ClientRestart, TypeOK
<1>7. CASE UNCHANGED vars
    BY <1>1, <1>7 DEF vars
<1>8. CASE \/ Advance \/ CloseRecorded \/ EmptyBlock \/ scan_Tip \/ scan_Fails \/ TowerRestart
           \/ \E n \in 0 .. MaxNonce : CloseBlock(n)
           \/ \E p \in relayed : PenaltyBlock(p)
           \/ \E k \in 1 .. MaxReorg : Reorg(k)
           \/ \E f \in BOOLEAN : scan_Logs(f)
    <2>1. UNCHANGED <<agent, store>>
        BY <1>8 DEF Advance, CloseRecorded, EmptyBlock, scan_Tip, scan_Fails, TowerRestart,
                    CloseBlock, PenaltyBlock, Reorg, scan_Logs
    <2> QED BY <1>1, <2>1
<1> QED BY <1>2, <1>3, <1>4, <1>5, <1>6, <1>7, <1>8 DEF Next

\* What the agent holds for pushed is stored, for any number of lost answers,
\* late connections and restarts (agent.go, filestore.go).
THEOREM BackupKept == Spec => []SentMeansStored
<1>1. Init => AgentInv
    <2>1. Init => Stored
        BY DEF Init, Stored, SentMeansStored
    <2> QED BY <2>1, InitType DEF AgentInv
<1>2. AgentInv /\ [Next]_vars => AgentInv'
    BY NextType, StoredStep DEF AgentInv
<1>3. AgentInv => SentMeansStored
    BY DEF AgentInv, Stored
<1> QED BY <1>1, <1>2, <1>3, PTL DEF Spec

-----------------------------------------------------------------------------
(* The lookout and the chain. *)

\* Every step keeps what was scanned out of reach of a reorganisation.
LEMMA DeepStep ==
    ASSUME HeldBack, TypeOK, TypeOK', ScannedDeep, [Next]_vars
    PROVE  ScannedDeep'
<1> USE ConstantTypes DEF ScannedDeep
<1>1. CASE UNCHANGED <<tip, best, cursor, scan>>
    BY <1>1
<1>2. CASE \/ EmptyBlock \/ \E n \in 0 .. MaxNonce : CloseBlock(n)
           \/ \E p \in relayed : PenaltyBlock(p)
    <2>1. tip < MaxTip /\ tip' = tip + 1 /\ best' = Max({best, tip'})
        BY <1>2 DEF EmptyBlock, CloseBlock, PenaltyBlock
    <2>2. UNCHANGED <<cursor, scan>>
        BY <1>2 DEF EmptyBlock, CloseBlock, PenaltyBlock, lookout
    <2>3. best' >= best /\ (best' = best \/ best' = tip')
        BY <2>1, NewBlock
    <2> QED BY <2>1, <2>2, <2>3 DEF TypeOK
<1>3. ASSUME NEW k \in 1 .. MaxReorg, Reorg(k) PROVE ScannedDeep'
    BY <1>3 DEF Reorg, lookout, TypeOK
<1>4. CASE scan_Tip
    <2>1. cursor' >= FromBlock /\ (cursor' = FromBlock \/ cursor' + ReorgDepth <= best + 1)
        <3>1. CASE cursor = None
            BY <1>4, <3>1, ScanRange DEF HeldBack
        <3>2. CASE cursor # None
            BY <1>4, <3>2, ScanRange
        <3> QED BY <3>1, <3>2
    <2>2. scan' # None => cursor' = scan'.from /\ scan'.to + ReorgDepth <= best
        BY <1>4, <2>1, ScanRange DEF HeldBack, TypeOK
    <2>3. UNCHANGED <<tip, best>>
        BY <1>4 DEF scan_Tip, chain
    <2> QED BY <2>1, <2>2, <2>3
<1>5. CASE scan_Fails \/ TowerRestart
    BY <1>5 DEF scan_Fails, TowerRestart, chain
<1>6. ASSUME NEW f \in BOOLEAN, scan_Logs(f) PROVE ScannedDeep'
    <2>1. /\ scan # None /\ cursor' = scan.to + 1 /\ scan' = None
          /\ UNCHANGED <<tip, best>>
        BY <1>6 DEF scan_Logs, chain
    <2>2. cursor \in Nat /\ cursor # None /\ scan.to \in Nat /\ scan.to >= cursor
        BY <2>1 DEF TypeOK
    <2> QED BY <2>1, <2>2 DEF TypeOK
<1>7. CASE \/ Advance \/ CloseRecorded \/ snapshot \/ Acknowledged \/ PutFails \/ HungUp \/ ClientRestart
           \/ \E n \in inbox : handle(n)
    <2>1. UNCHANGED <<tip, best, cursor, scan>>
        BY <1>7 DEF Advance, CloseRecorded, snapshot, Acknowledged, PutFails, HungUp,
                    ClientRestart, handle, chain, lookout
    <2> QED BY <1>1, <2>1
<1>8. CASE UNCHANGED vars
    BY <1>1, <1>8 DEF vars, chain, lookout
<1> QED BY <1>2, <1>3, <1>4, <1>5, <1>6, <1>7, <1>8 DEF Next

\* The close a query returns lies in the scanned range.
LEMMA LogsFacts ==
    ASSUME TypeOK
    PROVE  /\ \A c \in Logs : /\ c = close /\ close # None
                              /\ close.at >= scan.from /\ close.at <= scan.to
           /\ close # None /\ close.at \in scan.from .. scan.to => close \in Logs
           /\ \A c \in Breaches : c \in Logs /\ store > c.nonce
<1>1. /\ \A c \in Logs : c = close /\ close # None /\ close.at \in scan.from .. scan.to
      /\ close # None /\ close.at \in scan.from .. scan.to => close \in Logs
    BY DEF Logs
<1>2. \A c \in Breaches : c \in Logs /\ store > c.nonce
    BY DEF Breaches, shouldPenalize
<1> QED BY <1>1, <1>2

\* Every step keeps relayed penalties justified by a close that stays.
LEMMA BuriedStep ==
    ASSUME HeldBack, TypeOK, TypeOK', ScannedDeep, Buried, NoWastedPenalize, [Next]_vars
    PROVE  Buried' /\ NoWastedPenalize'
<1> USE ConstantTypes DEF Buried, NoWastedPenalize
<1>1. CASE UNCHANGED <<chain, relayed>>
    BY <1>1 DEF chain
<1>2. CASE EmptyBlock
    <2>1. best' >= best /\ UNCHANGED <<close, penalty, relayed>>
        BY <1>2, NewBlock DEF EmptyBlock
    <2> QED BY <2>1 DEF TypeOK
<1>3. ASSUME NEW n \in 0 .. MaxNonce, CloseBlock(n)
      PROVE  Buried' /\ NoWastedPenalize'
    <2>1. relayed = {} /\ penalty = None /\ UNCHANGED <<relayed, penalty>>
        BY <1>3 DEF CloseBlock
    <2> QED BY <2>1
<1>4. ASSUME NEW p \in relayed, PenaltyBlock(p)
      PROVE  Buried' /\ NoWastedPenalize'
    <2>1. best' >= best /\ close' = close /\ relayed' \subseteq relayed
        BY <1>4, NewBlock DEF PenaltyBlock
    <2>2. close # None /\ close.at + MaxReorg <= best /\ p > close.nonce
        OBVIOUS
    <2>3. penalty' = penalty \/ penalty'.nonce = p
        BY <1>4 DEF PenaltyBlock
    <2> QED BY <2>1, <2>2, <2>3 DEF TypeOK
<1>5. ASSUME NEW k \in 1 .. MaxReorg, Reorg(k)
      PROVE  Buried' /\ NoWastedPenalize'
    <2>1. CASE relayed = {} /\ penalty = None
        <3>1. penalty' = None /\ relayed' = {}
            BY <1>5, <2>1 DEF Reorg
        <3> QED BY <3>1
    <2>2. CASE relayed # {} \/ penalty # None
        <3>1. close # None /\ close.at + MaxReorg <= best
            BY <2>2
        <3>2. close' = close /\ best' = best
            BY <1>5, <3>1 DEF Reorg, TypeOK
        <3>3. penalty' = penalty \/ (penalty # None /\ penalty' = None)
            BY <1>5 DEF Reorg
        <3>4. \A p \in relayed' : p \in relayed \/ (penalty # None /\ p = penalty.nonce)
            BY <1>5, <3>3 DEF Reorg
        <3> QED BY <3>1, <3>2, <3>3, <3>4
    <2> QED BY <2>1, <2>2
<1>6. ASSUME NEW f \in BOOLEAN, scan_Logs(f)
      PROVE  Buried' /\ NoWastedPenalize'
    <2>1. CASE relayed' = relayed
        BY <1>1, <1>6, <2>1 DEF scan_Logs
    <2>2. CASE relayed' # relayed
        <3>1. /\ scan # None /\ relayed' = relayed \cup {store} /\ Breaches # {}
              /\ UNCHANGED chain
            BY <1>6, <2>2 DEF scan_Logs
        <3>2. close # None /\ close.at <= scan.to /\ store > close.nonce
            BY <3>1, LogsFacts
        <3>3. close.at + MaxReorg <= best
            BY <3>1, <3>2 DEF ScannedDeep, HeldBack, TypeOK
        <3> QED BY <3>1, <3>2, <3>3 DEF chain
    <2> QED BY <2>1, <2>2
<1>7. CASE \/ Advance \/ CloseRecorded \/ snapshot \/ Acknowledged \/ PutFails \/ HungUp \/ ClientRestart
           \/ scan_Tip \/ scan_Fails \/ TowerRestart \/ \E n \in inbox : handle(n)
    <2>1. UNCHANGED <<chain, relayed>>
        BY <1>7 DEF Advance, CloseRecorded, snapshot, Acknowledged, PutFails, HungUp, ClientRestart,
                    scan_Tip, scan_Fails, TowerRestart, handle
    <2> QED BY <1>1, <2>1
<1>8. CASE UNCHANGED vars
    BY <1>1, <1>8 DEF vars
<1> QED BY <1>2, <1>3, <1>4, <1>5, <1>6, <1>7, <1>8 DEF Next

\* No step moves the cursor past a close that was not judged.
LEMMA MissedStep ==
    ASSUME HeldBack, TypeOK, TypeOK', ScannedDeep, NoMissedClose, [Next]_vars
    PROVE  NoMissedClose'
<1> USE ConstantTypes DEF NoMissedClose
<1>1. CASE UNCHANGED <<cursor, handled>> /\ (close' = close \/ close' = None)
    BY <1>1
<1>2. ASSUME NEW n \in 0 .. MaxNonce, CloseBlock(n) PROVE NoMissedClose'
    <2>1. close' = [at |-> tip + 1, nonce |-> n] /\ UNCHANGED <<cursor, handled>>
        BY <1>2 DEF CloseBlock, lookout
    <2>2. close'.at = tip + 1
        BY <2>1
    <2>3. close'.at + ReorgDepth >= best + 1
        BY <2>2 DEF HeldBack, ScannedDeep, TypeOK
    <2>4. cursor # None /\ close'.at >= FromBlock => close'.at >= cursor
        BY <2>2, <2>3 DEF ScannedDeep, TypeOK
    <2> QED BY <2>1, <2>2, <2>4 DEF TypeOK
<1>3. CASE scan_Tip
    <2>1. cursor' = cursor \/ cursor' = FromBlock
        BY <1>3, ScanRange DEF HeldBack
    <2>2. UNCHANGED <<close, handled>>
        BY <1>3 DEF scan_Tip, chain
    <2> QED BY <2>1, <2>2 DEF TypeOK
<1>4. ASSUME NEW f \in BOOLEAN, scan_Logs(f) PROVE NoMissedClose'
    <2>1. /\ scan # None /\ cursor' = scan.to + 1 /\ close' = close
          /\ handled' = handled \cup Logs
        BY <1>4 DEF scan_Logs, chain
    <2>2. cursor = scan.from /\ cursor # None /\ scan.from \in Nat /\ scan.to \in Nat
        BY <2>1 DEF ScannedDeep, TypeOK
    <2>3. ASSUME close # None, close.at >= FromBlock, close.at < scan.to + 1
          PROVE  close \in handled \cup Logs
        <3>1. close.at \in Nat
            BY <2>3 DEF TypeOK
        <3>2. CASE close.at < cursor
            BY <2>2, <2>3, <3>2
        <3>3. CASE close.at >= cursor
            BY <2>2, <2>3, <3>1, <3>3, LogsFacts
        <3> QED BY <2>2, <3>1, <3>2, <3>3
    <2> QED BY <2>1, <2>3
<1>5. CASE TowerRestart
    BY <1>5 DEF TowerRestart
<1>6. ASSUME NEW k \in 1 .. MaxReorg, Reorg(k) PROVE NoMissedClose'
    BY <1>1, <1>6 DEF Reorg, lookout
<1>7. CASE \/ Advance \/ CloseRecorded \/ snapshot \/ Acknowledged \/ PutFails \/ HungUp \/ ClientRestart
           \/ EmptyBlock \/ scan_Fails \/ \E n \in inbox : handle(n)
           \/ \E p \in relayed : PenaltyBlock(p)
    <2>1. UNCHANGED <<cursor, handled, close>>
        BY <1>7 DEF Advance, CloseRecorded, snapshot, Acknowledged, PutFails, HungUp, ClientRestart,
                    EmptyBlock, scan_Fails, handle, PenaltyBlock, chain, lookout
    <2> QED BY <1>1, <2>1
<1>8. CASE UNCHANGED vars
    BY <1>1, <1>8 DEF vars, chain, lookout
<1> QED BY <1>2, <1>3, <1>4, <1>5, <1>6, <1>7, <1>8 DEF Next

\* The invariant of the lookout is inductive.
LEMMA LookoutInductive ==
    ASSUME HeldBack
    PROVE  Spec => []LookoutInv
<1>1. Init => LookoutInv
    <2>1. Init => ScannedDeep /\ Buried /\ NoMissedClose /\ NoWastedPenalize
        BY ConstantTypes DEF Init, ScannedDeep, Buried, NoMissedClose, NoWastedPenalize
    <2> QED BY <2>1, InitType DEF LookoutInv
<1>2. LookoutInv /\ [Next]_vars => LookoutInv'
    BY NextType, DeepStep, BuriedStep, MissedStep DEF LookoutInv
<1> QED BY <1>1, <1>2, PTL DEF Spec

\* The cursor of a lookout that holds back enough leaves no close behind, over
\* any number of windows, failed queries and reorganisations (lookout.go).
THEOREM NoCloseMissed ==
    ASSUME HeldBack
    PROVE  Spec => []NoMissedClose
<1>1. LookoutInv => NoMissedClose
    BY DEF LookoutInv
<1> QED BY <1>1, LookoutInductive, PTL

\* The close a penalize call answers stays on the chain with its lower nonce
\* until the call is mined (lookout.go, Config.ReorgDepth).
THEOREM PenalizeStaysValid ==
    ASSUME HeldBack
    PROVE  Spec => []NoWastedPenalize
<1>1. LookoutInv => NoWastedPenalize
    BY DEF LookoutInv
<1> QED BY <1>1, LookoutInductive, PTL
=============================================================================
