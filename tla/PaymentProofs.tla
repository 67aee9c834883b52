--------------------------- MODULE PaymentProofs ----------------------------
(***************************************************************************)
(* For every amount, number of attempts and number of restarts: what the   *)
(* receiver's link answers is what its database records, what the sender   *)
(* records of an attempt is what became of its HTLC, and a payment that    *)
(* has failed has no HTLC left that could be settled.                      *)
(***************************************************************************)
EXTENDS Payment, SumTheorems

RegistryTypes ==
    /\ link \in [Keys -> LinkStates]
    /\ htlcs \in [Keys -> {"none", "accepted", "settled", "canceled"}]
    /\ lock \in Keys \cup {None} /\ releasing \in Keys \cup {None}
    /\ queue \in [Keys -> {"none", "settled", "failed"}]

\* A resolution on its way to the link is the one on record, and an HTLC whose
\* subscription is outstanding is still with the registry.
Recorded ==
    /\ ResolutionsAgree
    /\ \A i \in Keys :
          /\ queue[i] = "settled" => htlcs[i] = "settled"
          /\ queue[i] = "failed" => htlcs[i] = "canceled"
          /\ link[i] = "absent" => htlcs[i] = "none"
    /\ releasing # None => htlcs[releasing] = "canceled"
    /\ lock # None => link[lock] = "new"

RegistryInv == RegistryTypes /\ Recorded

\* What a step of the receiver may do to the HTLCs.
LinkStep ==
    \A i \in Keys : \/ link'[i] = link[i]
                    \/ link[i] \in {"new", "waiting"} /\ link'[i] # "absent"

-----------------------------------------------------------------------------
(* The receiver. *)

\* Attempt keys are numbers, and None is not one.
LEMMA KeysFacts == None \notin Keys /\ Keys \subseteq Nat \ {0} /\ MaxAttempts \in Nat
BY RegistryAssumption DEF Keys

\* An arriving HTLC keeps the invariant of the invoice.
LEMMA ExitHopStep ==
    ASSUME RegistryInv, NEW i \in Keys, NotifyExitHopHtlc(i)
    PROVE  RegistryInv' /\ LinkStep
<1> USE KeysFacts DEF RegistryInv, RegistryTypes, Recorded, ResolutionsAgree,
                      LinkStep, LinkStates, Answer, database
<1>1. lock = None /\ link[i] = "new" /\ UNCHANGED releasing
    BY DEF NotifyExitHopHtlc
<1>2. CASE htlcs[i] # "none"
    <2>1. resolveReplayedHtlc(i)
        BY <1>2 DEF NotifyExitHopHtlc
    <2> QED BY <1>1, <2>1 DEF resolveReplayedHtlc
<1>3. CASE htlcs[i] = "none"
    <2>1. updateMpp(i)
        BY <1>3 DEF NotifyExitHopHtlc
    <2>2. CASE Answer(i, "failed") /\ UNCHANGED <<database, lock, subs, queue, expiry>>
        BY <1>1, <1>3, <2>2
    <2>3. CASE Move({i}, "accepted") /\ lock' = i /\ UNCHANGED <<hodl, link, subs, queue>>
        BY <1>1, <1>3, <2>3 DEF Move
    <2>4. CASE /\ Move(Accepted \cup {i}, "settled") /\ Answer(i, "settled")
               /\ Notify(Accepted, "settled") /\ UNCHANGED <<hodl, lock, expiry>>
        BY <1>1, <1>3, <2>4 DEF Move, Notify, Accepted
    <2> QED BY <2>1, <2>2, <2>3, <2>4 DEF updateMpp
<1> QED BY <1>2, <1>3

\* So does holding it.
LEMMA HoldStep ==
    ASSUME RegistryInv, HoldHtlc
    PROVE  RegistryInv' /\ LinkStep
BY KeysFacts DEF RegistryInv, RegistryTypes, Recorded, ResolutionsAgree, LinkStep,
                 LinkStates, HoldHtlc, database

\* So does the timer of an incomplete set.
LEMMA TimerStep ==
    ASSUME RegistryInv, NotifyCanceled \/ \E i \in Keys : cancelSingleHtlc(i)
    PROVE  RegistryInv' /\ LinkStep
<1> USE KeysFacts DEF RegistryInv, RegistryTypes, Recorded, ResolutionsAgree,
                      LinkStep, database
<1>1. CASE NotifyCanceled
    BY <1>1 DEF NotifyCanceled, Notify
<1>2. ASSUME NEW i \in Keys, cancelSingleHtlc(i) PROVE RegistryInv' /\ LinkStep
    BY <1>2 DEF cancelSingleHtlc, Releasable, Move
<1> QED BY <1>1, <1>2

\* So does cancelling.
LEMMA CancelStep ==
    ASSUME RegistryInv, NEW b \in BOOLEAN, cancelInvoiceImpl(b)
    PROVE  RegistryInv' /\ LinkStep
BY KeysFacts DEF RegistryInv, RegistryTypes, Recorded, ResolutionsAgree, LinkStep,
                 cancelInvoiceImpl, Move, Notify, Accepted

\* So does settling.
LEMMA SettleStep ==
    ASSUME RegistryInv, SettleHodlInvoice
    PROVE  RegistryInv' /\ LinkStep
BY KeysFacts DEF RegistryInv, RegistryTypes, Recorded, ResolutionsAgree, LinkStep,
                 SettleHodlInvoice, Move, Notify, Accepted

\* So do the queued notifications.
LEMMA QueueStep ==
    ASSUME RegistryInv, NEW i \in Keys, processHodlQueue(i)
    PROVE  RegistryInv' /\ LinkStep
BY KeysFacts DEF RegistryInv, RegistryTypes, Recorded, ResolutionsAgree, LinkStep,
                 LinkStates, processHodlQueue, Answer, database

\* So does a restart of the receiver.
LEMMA RestartStep ==
    ASSUME RegistryInv, LinkRestart \/ ReceiverRestart
    PROVE  RegistryInv' /\ LinkStep
<1> USE KeysFacts DEF RegistryInv, RegistryTypes, Recorded, ResolutionsAgree, LinkStep,
                      LinkStates, Replayed, database
<1>1. CASE LinkRestart
    BY <1>1 DEF LinkRestart
<1>2. CASE ReceiverRestart
    BY <1>2 DEF ReceiverRestart
<1> QED BY <1>1, <1>2

\* So does every step of the receiver.
LEMMA ReceiverStep ==
    ASSUME RegistryInv, Receiver \/ ReceiverFaults
    PROVE  RegistryInv' /\ LinkStep /\ UNCHANGED senderVars
<1>1. UNCHANGED senderVars
    BY DEF Receiver, ReceiverFaults
<1>2. ASSUME CancelInvoice \/ \E kind \in {"ts", "height"} : expireInvoice(kind)
      PROVE  RegistryInv' /\ LinkStep
    <2>1. \E b \in BOOLEAN : cancelInvoiceImpl(b)
        <3>1. CASE CancelInvoice
            BY <3>1 DEF CancelInvoice
        <3>2. ASSUME NEW kind \in {"ts", "height"}, expireInvoice(kind)
              PROVE  cancelInvoiceImpl(kind = "height") /\ (kind = "height") \in BOOLEAN
            BY <3>2, Zenon DEF expireInvoice
        <3> QED BY <1>2, <3>1, <3>2
    <2> QED BY <2>1, CancelStep
<1> QED BY <1>1, <1>2, ExitHopStep, HoldStep, TimerStep, SettleStep, QueueStep,
           RestartStep DEF Receiver, ReceiverFaults

-----------------------------------------------------------------------------
(* The sender. *)

SenderTypes ==
    /\ att \in [Keys -> AttStates]
    /\ collector \in [Keys -> {"none", "start", "subscribed", "settle", "fail", "notfound"}]
    /\ circuit \in [Keys -> {"none", "half", "open"}]
    /\ result \in [Keys -> {"none", "settle", "fail"}]
    /\ phase \in [Keys -> {"new", "stored", "acked", "done"}]
    /\ mailbox \subseteq Keys /\ local \subseteq Keys
    /\ \E m \in 0 .. MaxAttempts : {i \in Keys : att[i] # "none"} = 1 .. m

\* The HTLC of attempt i has failed, or there is none and never will be.
Dead(i) ==
    \/ link[i] = "failed"
    \/ /\ link[i] = "absent" /\ i \notin mailbox /\ att[i] # "none"
       /\ ~ (pc = "send" /\ cur = i)

\* The goroutine holds an attempt that is not sent yet, or one to be failed.
AtHand ==
    /\ pc = "send" => /\ cur \in Keys /\ att[cur] = "inflight"
                      /\ link[cur] = "absent" /\ cur \notin mailbox
    /\ pc = "fail" => cur \in Keys /\ Dead(cur) /\ collector[cur] = "none"

\* What the databases say of an attempt, one at a time.
Agreed(i) ==
    /\ att[i] = "none" => /\ link[i] = "absent" /\ i \notin mailbox
                          /\ collector[i] = "none"
    /\ att[i] = "settled" => link[i] = "settled"
    /\ att[i] \in {"failed", "deleted"} => Dead(i)
    /\ i \in mailbox => link[i] = "absent"
    /\ i \in local => Dead(i)
    /\ result[i] = "settle" => link[i] = "settled"
    /\ result[i] = "fail" => Dead(i)
    /\ collector[i] = "settle" => link[i] = "settled"
    /\ collector[i] \in {"fail", "notfound"} => Dead(i)

\* A circuit is torn down after the result is stored, so that an attempt in
\* flight whose HTLC exists has one or the other; the goroutine looks for a
\* result only of an attempt it has sent.
Traceable(i) ==
    /\ link[i] # "absent" /\ att[i] = "inflight" =>
          circuit[i] # "none" \/ result[i] # "none"
    /\ i \in mailbox => circuit[i] # "none"
    /\ phase[i] \in {"stored", "acked"} => result[i] # "none"
    /\ collector[i] # "none" => att[i] = "inflight" /\ ~ (pc = "send" /\ cur = i)

SenderInv ==
    SenderTypes /\ AtHand /\ \A i \in Keys : Agreed(i) /\ Traceable(i)

PaymentInv == RegistryInv /\ SenderInv

\* What the status of an attempt says about it.
LEMMA StatusFacts ==
    /\ (\E i \in Keys : att[i] = "inflight") => Status = "InFlight"
    /\ Status = "Failed" => \A i \in Keys : att[i] \notin {"inflight", "settled"}
BY DEF Status, Are

\* The next attempt id is one that no attempt has had.
LEMMA NextIdFresh ==
    ASSUME SenderTypes, NextId \in Keys
    PROVE  /\ att[NextId] = "none"
           /\ \A st \in AttStates \ {"none"} :
                 LET new == [att EXCEPT ![NextId] = st]
                 IN  \E m \in 0 .. MaxAttempts : {i \in Keys : new[i] # "none"} = 1 .. m
<1>1. PICK m \in 0 .. MaxAttempts : {i \in Keys : att[i] # "none"} = 1 .. m
    BY DEF SenderTypes
<1>2. NextId = m + 1
    <2>1. Cardinality(1 .. m) = m
        BY <1>1, FS_Interval, KeysFacts
    <2> QED BY <1>1, <2>1 DEF NextId
<1>3. m + 1 \in 0 .. MaxAttempts /\ NextId \notin 1 .. m
    BY <1>2, KeysFacts DEF Keys
<1>4. att[NextId] = "none"
    BY <1>1, <1>3
<1>5. ASSUME NEW st \in AttStates \ {"none"}
      PROVE  {i \in Keys : [att EXCEPT ![NextId] = st][i] # "none"} = 1 .. (m + 1)
    BY <1>1, <1>2, <1>3, KeysFacts DEF SenderTypes, Keys
<1> QED BY <1>3, <1>4, <1>5

\* Changing the state of started attempts to another started one.
LEMMA StillStarted ==
    ASSUME SenderTypes, NEW f \in [Keys -> AttStates],
           \A i \in Keys : f[i] = "none" <=> att[i] = "none"
    PROVE  \E m \in 0 .. MaxAttempts : {i \in Keys : f[i] # "none"} = 1 .. m
<1>1. {i \in Keys : f[i] # "none"} = {i \in Keys : att[i] # "none"}
    OBVIOUS
<1> QED BY <1>1 DEF SenderTypes

\* The receiver's steps keep what the sender relies on.
LEMMA SenderUnderReceiver ==
    ASSUME SenderInv, RegistryInv, LinkStep, UNCHANGED senderVars
    PROVE  SenderInv'
<1> USE DEF senderVars, lifecycle, switch
<1>1. SenderTypes'
    BY DEF SenderInv, SenderTypes
<1>2. \A i \in Keys : Dead(i) => link'[i] = link[i] /\ Dead(i)'
    BY DEF Dead, LinkStep
<1>3. AtHand'
    BY <1>2 DEF SenderInv, AtHand, LinkStep
<1>4. ASSUME NEW i \in Keys PROVE Agreed(i)' /\ Traceable(i)'
    <2>1. Agreed(i)'
        BY <1>2 DEF SenderInv, Agreed, LinkStep
    <2>2. Traceable(i)'
        <3>1. link'[i] # "absent" => link[i] # "absent"
            BY DEF LinkStep
        <3> QED BY <3>1 DEF SenderInv, Traceable
    <2> QED BY <2>1, <2>2
<1> QED BY <1>1, <1>3, <1>4 DEF SenderInv

\* The steps of the goroutine that touch neither HTLCs nor the switch's state:
\* the attempts whose record changes are dead or settled ones.
LEMMA LifecycleQuiet ==
    ASSUME SenderInv,
           InitPayment \/ CheckContext \/ DecideNextStep \/ NoRoute
    PROVE  SenderInv'
<1>1. UNCHANGED <<link, collector, circuit, result, mailbox, local, phase, cur>>
    BY DEF InitPayment, CheckContext, DecideNextStep, NoRoute, registryVars, switch
<1>2. /\ att' \in [Keys -> AttStates]
      /\ \A i \in Keys : \/ att'[i] = att[i]
                         \/ att[i] = "failed" /\ att'[i] = "deleted"
    <2>1. CASE InitPayment
        BY <2>1 DEF InitPayment, SenderInv, SenderTypes, AttStates
    <2>2. CASE att' = att
        BY <2>2 DEF SenderInv, SenderTypes
    <2> QED BY <2>1, <2>2 DEF CheckContext, DecideNextStep, NoRoute
<1>3. pc' \in {"loop", "wait", "idle"}
    BY DEF InitPayment, CheckContext, DecideNextStep, NoRoute
<1>4. SenderTypes'
    BY <1>1, <1>2, StillStarted DEF SenderInv, SenderTypes
<1>5. \A i \in Keys : Dead(i) => Dead(i)'
    BY <1>1, <1>2, <1>3 DEF Dead
<1>6. AtHand'
    BY <1>3 DEF AtHand
<1>7. ASSUME NEW i \in Keys PROVE Agreed(i)' /\ Traceable(i)'
    BY <1>1, <1>2, <1>3, <1>5 DEF SenderInv, Agreed, Traceable
<1> QED BY <1>4, <1>6, <1>7 DEF SenderInv

\* Registering an attempt keeps the invariant.
LEMMA RegisterStep ==
    ASSUME SenderInv, NEW a, RegisterAttempt(a)
    PROVE  SenderInv'
<1> DEFINE n == NextId
<1>1. /\ n \in Keys /\ att' = [att EXCEPT ![n] = "inflight"]
      /\ cur' = n /\ pc' = "send" /\ pc = "loop"
      /\ UNCHANGED <<link, collector, circuit, result, mailbox, local, phase>>
    BY DEF RegisterAttempt, switch
<1>2. att[n] = "none"
    BY <1>1, NextIdFresh DEF SenderInv
<1>3. \E m \in 0 .. MaxAttempts : {i \in Keys : att'[i] # "none"} = 1 .. m
    BY <1>1, NextIdFresh DEF SenderInv, AttStates
<1> HIDE DEF n
<1>4. SenderTypes'
    BY <1>1, <1>3 DEF SenderInv, SenderTypes, AttStates
<1>5. link[n] = "absent" /\ n \notin mailbox /\ collector[n] = "none"
    BY <1>1, <1>2 DEF SenderInv, Agreed
<1>6. \A i \in Keys : Dead(i) => i # n /\ Dead(i)'
    BY <1>1, <1>2, <1>5 DEF Dead, SenderInv, SenderTypes
<1>7. AtHand'
    BY <1>1, <1>5 DEF AtHand, SenderInv, SenderTypes
<1>8. ASSUME NEW i \in Keys PROVE Agreed(i)' /\ Traceable(i)'
    BY <1>1, <1>2, <1>5, <1>6 DEF SenderInv, SenderTypes, Agreed, Traceable
<1> QED BY <1>4, <1>7, <1>8 DEF SenderInv

\* So does sending it.
LEMMA SendStep ==
    ASSUME SenderInv, SendHTLC
    PROVE  SenderInv'
<1>1. /\ pc = "send" /\ pc' = "loop" /\ cur' = None
      /\ circuit' = [circuit EXCEPT ![cur] = "half"]
      /\ mailbox' = mailbox \cup {cur}
      /\ collector' = [collector EXCEPT ![cur] = "start"]
      /\ UNCHANGED <<link, att, result, local, phase>>
    BY DEF SendHTLC, registryVars
<1>2. /\ cur \in Keys /\ att[cur] = "inflight" /\ link[cur] = "absent"
      /\ ~ Dead(cur)
    BY <1>1 DEF SenderInv, AtHand, Dead
<1>3. SenderTypes'
    BY <1>1, <1>2 DEF SenderInv, SenderTypes
<1>4. \A i \in Keys : Dead(i) => Dead(i)'
    BY <1>1, <1>2 DEF Dead
<1>5. AtHand'
    BY <1>1 DEF AtHand
<1>6. ASSUME NEW i \in Keys PROVE Agreed(i)' /\ Traceable(i)'
    BY <1>1, <1>2, <1>4 DEF SenderInv, SenderTypes, Agreed, Traceable
<1> QED BY <1>3, <1>5, <1>6 DEF SenderInv

\* Recording the failure of a dead attempt, at once or after the payment's.
LEMMA SwitchErrStep ==
    ASSUME SenderInv, NEW i \in Keys, att[i] = "inflight",
           Dead(i) \/ (pc = "send" /\ cur = i),
           NEW final \in BOOLEAN, handleSwitchErr(i, final),
           collector' = [collector EXCEPT ![i] = "none"],
           UNCHANGED <<link, circuit, result, mailbox, local, phase>>
    PROVE  SenderInv'
<1>1. \/ pc' = "fail" /\ cur' = i /\ att' = att
      \/ pc' = "loop" /\ cur' = None /\ att' = [att EXCEPT ![i] = "failed"]
    BY DEF handleSwitchErr
<1>2. link[i] = "failed" \/ (link[i] = "absent" /\ i \notin mailbox)
    BY DEF SenderInv, AtHand, Dead
<1>3. Dead(i)' /\ \A j \in Keys : Dead(j) => Dead(j)'
    BY <1>1, <1>2 DEF Dead, SenderInv, SenderTypes
<1>4. /\ att' \in [Keys -> AttStates]
      /\ \A j \in Keys : att'[j] = att[j] \/ (j = i /\ att'[j] = "failed")
    BY <1>1 DEF SenderInv, SenderTypes, AttStates
<1>5. SenderTypes'
    <2>1. \A j \in Keys : att'[j] = "none" <=> att[j] = "none"
        BY <1>4
    <2>2. \E m \in 0 .. MaxAttempts : {j \in Keys : att'[j] # "none"} = 1 .. m
        BY <1>4, <2>1, StillStarted DEF SenderInv
    <2> QED BY <1>4, <2>2 DEF SenderInv, SenderTypes
<1>6. AtHand'
    BY <1>1, <1>3 DEF AtHand, SenderInv, SenderTypes
<1>7. ASSUME NEW j \in Keys PROVE Agreed(j)' /\ Traceable(j)'
    BY <1>1, <1>3, <1>4 DEF SenderInv, SenderTypes, Agreed, Traceable
<1> QED BY <1>5, <1>6, <1>7 DEF SenderInv

\* So does a failure.
LEMMA FailStep ==
    ASSUME SenderInv, failAttempt \/ \E final \in BOOLEAN : SendFails(final)
    PROVE  SenderInv'
<1>1. ASSUME NEW final \in BOOLEAN, SendFails(final) PROVE SenderInv'
    <2>1. /\ pc = "send" /\ handleSwitchErr(cur, final)
          /\ UNCHANGED <<link, collector, circuit, result, mailbox, local, phase>>
        BY <1>1 DEF SendFails, registryVars, switch
    <2>2. cur \in Keys /\ att[cur] = "inflight"
        BY <2>1 DEF SenderInv, AtHand
    <2>3. collector' = [collector EXCEPT ![cur] = "none"]
        <3>1. collector[cur] = "none"
            BY <2>1, <2>2 DEF SenderInv, Traceable
        <3> QED BY <2>1, <2>2, <3>1 DEF SenderInv, SenderTypes
    <2> QED BY <2>1, <2>2, <2>3, SwitchErrStep
<1>2. CASE failAttempt
    <2>1. /\ pc = "fail" /\ pc' = "loop" /\ cur' = None
          /\ att' = [att EXCEPT ![cur] = "failed"]
          /\ UNCHANGED <<link, collector, circuit, result, mailbox, local, phase>>
        BY <1>2 DEF failAttempt, registryVars, switch
    <2>2. /\ cur \in Keys /\ Dead(cur) /\ att[cur] # "none"
          /\ collector[cur] = "none"
        BY <2>1 DEF SenderInv, AtHand, Dead, Agreed
    <2>3. \A i \in Keys : Dead(i) => Dead(i)'
        BY <2>1 DEF Dead, SenderInv, SenderTypes
    <2>4. /\ att' \in [Keys -> AttStates]
          /\ \A i \in Keys : att'[i] = att[i] \/ (i = cur /\ att'[i] = "failed")
        BY <2>1, <2>2 DEF SenderInv, SenderTypes, AttStates
    <2>5. SenderTypes'
        <3>1. \A i \in Keys : att'[i] = "none" <=> att[i] = "none"
            BY <2>2, <2>4
        <3>2. \E m \in 0 .. MaxAttempts : {i \in Keys : att'[i] # "none"} = 1 .. m
            BY <2>4, <3>1, StillStarted DEF SenderInv
        <3> QED BY <2>1, <2>4, <3>2 DEF SenderInv, SenderTypes
    <2>6. AtHand'
        BY <2>1 DEF AtHand
    <2>7. ASSUME NEW i \in Keys PROVE Agreed(i)' /\ Traceable(i)'
        BY <2>1, <2>2, <2>3, <2>4 DEF SenderInv, SenderTypes, Agreed, Traceable
    <2> QED BY <2>5, <2>6, <2>7 DEF SenderInv
<1> QED BY <1>1, <1>2

\* What the switch tells of an attempt, and what the goroutine records of it.
LEMMA ResultStep ==
    ASSUME SenderInv, NEW i \in Keys,
           collectResult(i) \/ \E final \in BOOLEAN : handleAttemptResult(i, final)
    PROVE  SenderInv'
<1>1. CASE collectResult(i)
    <2>1. /\ collector[i] = "start"
          /\ collector' = [collector EXCEPT ![i] = GetAttemptResult(i)]
          /\ UNCHANGED <<link, lifecycle, circuit, result, mailbox, local, phase>>
        BY <1>1 DEF collectResult, registryVars, switch
    <2>2. att[i] = "inflight" /\ ~ (pc = "send" /\ cur = i)
        BY <2>1 DEF SenderInv, Traceable
    <2>3. /\ GetAttemptResult(i) \in {"settle", "fail", "notfound", "subscribed"}
          /\ GetAttemptResult(i) = "settle" => link[i] = "settled"
          /\ GetAttemptResult(i) \in {"fail", "notfound"} => Dead(i)
        BY <2>2 DEF SenderInv, SenderTypes, Agreed, Traceable, Dead, GetAttemptResult
    <2>4. \A j \in Keys : Dead(j) => Dead(j)'
        BY <2>1 DEF Dead, lifecycle
    <2>5. SenderTypes' /\ AtHand'
        BY <2>1, <2>3, <2>4 DEF SenderInv, SenderTypes, AtHand, lifecycle
    <2>6. ASSUME NEW j \in Keys PROVE Agreed(j)' /\ Traceable(j)'
        BY <2>1, <2>2, <2>3, <2>4 DEF SenderInv, SenderTypes, Agreed, Traceable, lifecycle
    <2> QED BY <2>5, <2>6 DEF SenderInv
<1>2. ASSUME NEW final \in BOOLEAN, handleAttemptResult(i, final) PROVE SenderInv'
    <2>1. /\ pc = "wait" /\ collector[i] \in {"settle", "fail", "notfound"}
          /\ collector' = [collector EXCEPT ![i] = "none"]
          /\ UNCHANGED <<link, circuit, result, mailbox, local, phase>>
        BY <1>2 DEF handleAttemptResult, registryVars, switch
    <2>2. att[i] = "inflight"
        BY <2>1 DEF SenderInv, Traceable
    <2>3. CASE collector[i] # "settle"
        <3>1. handleSwitchErr(i, final) /\ Dead(i)
            BY <1>2, <2>1, <2>3 DEF handleAttemptResult, SenderInv, Agreed
        <3> QED BY <2>1, <2>2, <3>1, SwitchErrStep
    <2>4. CASE collector[i] = "settle"
        <3>1. /\ att' = [att EXCEPT ![i] = "settled"] /\ pc' = "loop"
              /\ link[i] = "settled"
            BY <1>2, <2>4 DEF handleAttemptResult, SenderInv, Agreed
        <3>2. att' \in [Keys -> AttStates]
            BY <3>1 DEF SenderInv, SenderTypes, AttStates
        <3>3. SenderTypes'
            <4>1. \A j \in Keys : att'[j] = "none" <=> att[j] = "none"
                BY <2>2, <3>1 DEF SenderInv, SenderTypes
            <4>2. \E m \in 0 .. MaxAttempts : {j \in Keys : att'[j] # "none"} = 1 .. m
                BY <3>2, <4>1, StillStarted DEF SenderInv
            <4> QED BY <2>1, <3>2, <4>2 DEF SenderInv, SenderTypes
        <3>4. \A j \in Keys : Dead(j) => Dead(j)'
            BY <2>1, <2>2, <3>1 DEF Dead, SenderInv, SenderTypes
        <3>5. AtHand'
            BY <3>1 DEF AtHand
        <3>6. ASSUME NEW j \in Keys PROVE Agreed(j)' /\ Traceable(j)'
            BY <2>1, <3>1, <3>4 DEF SenderInv, SenderTypes, Agreed, Traceable
        <3> QED BY <3>3, <3>5, <3>6 DEF SenderInv
    <2> QED BY <2>3, <2>4
<1> QED BY <1>1, <1>2

\* The link takes a packet: the only step of the sender that makes an HTLC.
LEMMA AddStep ==
    ASSUME PaymentInv, NEW i \in Keys, AddToLink(i)
    PROVE  PaymentInv'
<1>1. /\ i \in mailbox /\ mailbox' = mailbox \ {i}
      /\ circuit' = [circuit EXCEPT ![i] = "open"]
      /\ UNCHANGED <<htlcs, lock, releasing, queue>>
      /\ UNCHANGED <<lifecycle, collector, result, local, phase>>
    BY DEF AddToLink, database, memory
<1>2. PICK end \in {"new", "failed"} : link' = [link EXCEPT ![i] = end]
    BY DEF AddToLink, Answer
<1>3. /\ link[i] = "absent" /\ ~ Dead(i) /\ att[i] = "inflight"
      /\ ~ (pc = "send" /\ cur = i) /\ ~ (pc = "fail" /\ cur = i)
    <2>1. link[i] = "absent" /\ ~ Dead(i)
        BY <1>1 DEF PaymentInv, SenderInv, Agreed, Dead
    <2>2. att[i] = "inflight"
        BY <1>1, <2>1 DEF PaymentInv, SenderInv, SenderTypes, AttStates, Agreed
    <2> QED BY <1>1, <2>1, <2>2 DEF PaymentInv, SenderInv, AtHand
<1>4. htlcs[i] = "none" /\ lock # i
    BY <1>3, KeysFacts DEF PaymentInv, RegistryInv, Recorded
<1>5. RegistryInv'
    BY <1>1, <1>2, <1>4 DEF PaymentInv, RegistryInv, RegistryTypes, Recorded,
                            ResolutionsAgree, LinkStates
<1>6. \A j \in Keys : j # i => link'[j] = link[j]
    BY <1>2 DEF PaymentInv, RegistryInv, RegistryTypes
<1>7. \A j \in Keys : Dead(j) => j # i /\ Dead(j)'
    BY <1>1, <1>3, <1>6 DEF Dead, lifecycle
<1>8. SenderTypes'
    BY <1>1 DEF PaymentInv, SenderInv, SenderTypes, lifecycle
<1>9. AtHand'
    <2>1. pc = "send" => cur \in Keys /\ cur # i
        BY <1>3 DEF PaymentInv, SenderInv, AtHand
    <2> QED BY <1>1, <1>6, <1>7, <2>1 DEF PaymentInv, SenderInv, AtHand, lifecycle
<1>10. ASSUME NEW j \in Keys PROVE Agreed(j)' /\ Traceable(j)'
    <2>1. CASE j = i
        <3>1. circuit'[i] = "open"
            BY <1>1 DEF PaymentInv, SenderInv, SenderTypes
        <3> QED BY <1>1, <1>3, <1>7, <2>1, <3>1
                DEF PaymentInv, SenderInv, Agreed, Traceable, lifecycle
    <2>2. CASE j # i
        <3>1. circuit'[j] = circuit[j]
            BY <1>1, <2>2 DEF PaymentInv, SenderInv, SenderTypes
        <3> QED BY <1>1, <1>6, <1>7, <2>2, <3>1
                DEF PaymentInv, SenderInv, Agreed, Traceable, lifecycle
    <2> QED BY <2>1, <2>2
<1> QED BY <1>5, <1>8, <1>9, <1>10 DEF PaymentInv, SenderInv

\* So do the sender's other steps.
LEMMA LocalStep ==
    ASSUME SenderInv, NEW i \in Keys,
           MailboxFails(i) \/ ackSettleFail(i) \/ teardownCircuit(i)
    PROVE  SenderInv'
<1>1. CASE MailboxFails(i)
    <2>1. /\ i \in mailbox /\ mailbox' = mailbox \ {i} /\ local' = local \cup {i}
          /\ UNCHANGED <<link, lifecycle, collector, circuit, result, phase>>
        BY <1>1 DEF MailboxFails, registryVars
    <2>2. Dead(i)' /\ \A j \in Keys : Dead(j) => Dead(j)'
        BY <2>1 DEF SenderInv, AtHand, Agreed, Dead, lifecycle
    <2>3. SenderTypes' /\ AtHand'
        BY <2>1, <2>2 DEF SenderInv, SenderTypes, AtHand, lifecycle
    <2>4. ASSUME NEW j \in Keys PROVE Agreed(j)' /\ Traceable(j)'
        BY <2>1, <2>2 DEF SenderInv, Agreed, Traceable, lifecycle
    <2> QED BY <2>3, <2>4 DEF SenderInv
<1>2. CASE ackSettleFail(i)
    <2>1. /\ phase[i] = "stored" /\ phase' = [phase EXCEPT ![i] = "acked"]
          /\ local' = local \ {i}
          /\ UNCHANGED <<link, lifecycle, collector, circuit, result, mailbox>>
        BY <1>2 DEF ackSettleFail, registryVars
    <2>2. \A j \in Keys : Dead(j) => Dead(j)'
        BY <2>1 DEF Dead, lifecycle
    <2>3. SenderTypes' /\ AtHand'
        BY <2>1, <2>2 DEF SenderInv, SenderTypes, AtHand, lifecycle
    <2>4. ASSUME NEW j \in Keys PROVE Agreed(j)' /\ Traceable(j)'
        BY <2>1, <2>2 DEF SenderInv, SenderTypes, Agreed, Traceable, lifecycle
    <2> QED BY <2>3, <2>4 DEF SenderInv
<1>3. CASE teardownCircuit(i)
    <2>1. /\ phase[i] = "acked" /\ phase' = [phase EXCEPT ![i] = "done"]
          /\ circuit' = [circuit EXCEPT ![i] = "none"]
          /\ UNCHANGED <<link, lifecycle, collector, result, mailbox, local>>
        BY <1>3 DEF teardownCircuit, registryVars
    <2>2. result[i] # "none" /\ i \notin mailbox
        BY <2>1 DEF SenderInv, SenderTypes, Agreed, Traceable, Dead
    <2>3. \A j \in Keys : Dead(j) => Dead(j)'
        BY <2>1 DEF Dead, lifecycle
    <2>4. SenderTypes' /\ AtHand'
        BY <2>1, <2>3 DEF SenderInv, SenderTypes, AtHand, lifecycle
    <2>5. ASSUME NEW j \in Keys PROVE Agreed(j)' /\ Traceable(j)'
        BY <2>1, <2>2, <2>3 DEF SenderInv, SenderTypes, Agreed, Traceable, lifecycle
    <2> QED BY <2>4, <2>5 DEF SenderInv
<1> QED BY <1>1, <1>2, <1>3

\* So does storing a result.
LEMMA StoreStep ==
    ASSUME SenderInv, NEW i \in Keys, storeResult(i)
    PROVE  SenderInv'
<1>1. /\ Responded(i) /\ result' = [result EXCEPT ![i] = Outcome(i)]
      /\ collector' = [collector EXCEPT ![i] =
                          IF collector[i] = "subscribed" THEN Outcome(i) ELSE collector[i]]
      /\ phase' = [phase EXCEPT ![i] = "stored"]
      /\ UNCHANGED <<link, lifecycle, circuit, mailbox, local>>
    BY DEF storeResult, registryVars
<1>2. /\ Outcome(i) \in {"settle", "fail"}
      /\ Outcome(i) = "settle" => link[i] = "settled"
      /\ Outcome(i) = "fail" => Dead(i)
    BY <1>1 DEF SenderInv, Agreed, Responded, Outcome, Dead
<1>3. \A j \in Keys : Dead(j) => Dead(j)'
    BY <1>1 DEF Dead, lifecycle
<1> HIDE DEF Outcome
<1>4. SenderTypes'
    BY <1>1, <1>2 DEF SenderInv, SenderTypes, lifecycle
<1>5. \A j \in Keys : \/ collector'[j] = collector[j]
                      \/ /\ j = i /\ collector[j] = "subscribed"
                         /\ collector'[j] = Outcome(i)
    BY <1>1 DEF SenderInv, SenderTypes
<1>6. AtHand'
    BY <1>1, <1>3, <1>5 DEF SenderInv, AtHand, lifecycle
<1>7. ASSUME NEW j \in Keys PROVE Agreed(j)' /\ Traceable(j)'
    BY <1>1, <1>2, <1>3, <1>5 DEF SenderInv, SenderTypes, Agreed, Traceable, lifecycle
<1> QED BY <1>4, <1>6, <1>7 DEF SenderInv

\* So does a restart of the sender.
LEMMA SenderRestartStep ==
    ASSUME SenderInv, SenderRestart
    PROVE  SenderInv'
<1>1. /\ mailbox' = {} /\ local' = {} /\ cur' = None /\ pc' \in {"loop", "idle"}
      /\ UNCHANGED <<link, att, circuit>>
    BY DEF SenderRestart, resumePayments, registryVars
<1>2. /\ result' \in [Keys -> {"none", "settle", "fail"}]
      /\ \A i \in Keys : result'[i] = result[i] \/ (result'[i] = "none" /\ att[i] # "inflight")
    BY StatusFacts DEF SenderRestart, resumePayments, SenderInv, SenderTypes
<1>3. /\ phase' \in [Keys -> {"new", "done"}]
      /\ collector' = [i \in Keys |-> IF att[i] = "inflight" THEN "start" ELSE "none"]
    BY DEF SenderRestart, resumePayments, SenderInv, SenderTypes
<1>4. \A i \in Keys : Dead(i) => Dead(i)'
    BY <1>1 DEF Dead
<1>5. SenderTypes'
    BY <1>1, <1>2, <1>3 DEF SenderInv, SenderTypes
<1>6. AtHand'
    BY <1>1 DEF AtHand
<1>7. ASSUME NEW i \in Keys PROVE Agreed(i)' /\ Traceable(i)'
    <2>1. Agreed(i)'
        BY <1>1, <1>2, <1>3, <1>4 DEF SenderInv, Agreed
    <2>2. Traceable(i)'
        BY <1>1, <1>2, <1>3 DEF SenderInv, Traceable
    <2> QED BY <2>1, <2>2
<1> QED BY <1>5, <1>6, <1>7 DEF SenderInv

-----------------------------------------------------------------------------
\* The invariant holds initially.
LEMMA InitInv == Init => PaymentInv
<1> SUFFICES ASSUME Init PROVE PaymentInv
    OBVIOUS
<1>1. RegistryInv
    BY KeysFacts DEF Init, RegistryInit, RegistryInv, RegistryTypes, Recorded,
                     ResolutionsAgree, LinkStates
<1>2. SenderTypes
    <2>1. {i \in Keys : att[i] # "none"} = 1 .. 0
        BY DEF Init, Each
    <2> QED BY <2>1, KeysFacts DEF Init, Each, SenderTypes, AttStates
<1>3. AtHand /\ \A i \in Keys : Agreed(i) /\ Traceable(i)
    BY DEF Init, RegistryInit, Each, AtHand, Agreed, Traceable
<1> QED BY <1>1, <1>2, <1>3 DEF PaymentInv, SenderInv

\* Every step of the payment lifecycle keeps it.
LEMMA LifecycleStep ==
    ASSUME SenderInv, Lifecycle
    PROVE  SenderInv'
<1>1. CASE InitPayment \/ CheckContext \/ DecideNextStep \/ NoRoute
    BY <1>1, LifecycleQuiet
<1>2. CASE \E a \in 1 .. Value : RegisterAttempt(a)
    BY <1>2, RegisterStep
<1>3. CASE SendHTLC
    BY <1>3, SendStep
<1>4. CASE failAttempt \/ \E final \in BOOLEAN : SendFails(final)
    BY <1>4, FailStep
<1>5. CASE \E i \in Keys : \/ collectResult(i)
                           \/ \E final \in BOOLEAN : handleAttemptResult(i, final)
    BY <1>5, ResultStep
<1> QED BY <1>1, <1>2, <1>3, <1>4, <1>5 DEF Lifecycle

\* The receiver's variables under a step of the sender that makes no HTLC.
LEMMA RegistryQuiet ==
    ASSUME RegistryInv, UNCHANGED <<link, htlcs, lock, releasing, queue>>
    PROVE  RegistryInv'
BY DEF RegistryInv, RegistryTypes, Recorded, ResolutionsAgree

\* So does every step.
LEMMA NextInv == PaymentInv /\ [Next]_vars => PaymentInv'
<1> SUFFICES ASSUME PaymentInv, [Next]_vars PROVE PaymentInv'
    OBVIOUS
<1> USE DEF PaymentInv
<1>1. CASE Receiver \/ ReceiverFaults
    BY <1>1, ReceiverStep, SenderUnderReceiver
<1>2. CASE Lifecycle \/ SenderRestart
    <2>1. UNCHANGED <<link, htlcs, lock, releasing, queue>>
        BY <1>2 DEF Lifecycle, InitPayment, CheckContext, DecideNextStep, NoRoute,
                    SendHTLC, failAttempt, RegisterAttempt, SendFails,
                    handleAttemptResult, collectResult, SenderRestart,
                    registryVars, database, memory
    <2> QED BY <1>2, <2>1, RegistryQuiet, LifecycleStep, SenderRestartStep
<1>3. ASSUME NEW i \in Keys, SwitchStep(i) PROVE PaymentInv'
    <2>1. CASE AddToLink(i)
        BY <2>1, AddStep
    <2>2. CASE \/ MailboxFails(i) \/ storeResult(i)
               \/ ackSettleFail(i) \/ teardownCircuit(i)
        <3>1. UNCHANGED <<link, htlcs, lock, releasing, queue>>
            BY <2>2 DEF MailboxFails, storeResult, ackSettleFail, teardownCircuit,
                        registryVars, database, memory
        <3> QED BY <2>2, <3>1, RegistryQuiet, LocalStep, StoreStep
    <2> QED BY <1>3, <2>1, <2>2 DEF SwitchStep
<1>4. CASE UNCHANGED vars
    <2>1. UNCHANGED senderVars /\ LinkStep /\ UNCHANGED <<link, htlcs, lock, releasing, queue>>
        BY <1>4 DEF vars, registryVars, database, memory, LinkStep
    <2> QED BY <2>1, RegistryQuiet, SenderUnderReceiver
<1> QED BY <1>1, <1>2, <1>3, <1>4 DEF Next

\* It holds in every reachable state.
LEMMA Inductive == Spec => []PaymentInv
BY InitInv, NextInv, PTL DEF Spec

\* What the link told its peer is what the database says, over any number of
\* timers, cancellations, replays and restarts (invoiceregistry.go).
THEOREM AnswersOnRecord == Spec => []ResolutionsAgree
<1>1. PaymentInv => ResolutionsAgree
    BY DEF PaymentInv, RegistryInv, Recorded
<1> QED BY <1>1, Inductive, PTL

\* An attempt is recorded as settled only when its HTLC was, and as failed only
\* when it was not, whatever crashes between the writes (payment_lifecycle.go).
THEOREM RecordsAgree == Spec => []OutcomesAgree
<1>1. PaymentInv => OutcomesAgree
    BY DEF PaymentInv, SenderInv, SenderTypes, AttStates, Agreed, Dead, OutcomesAgree
<1> QED BY <1>1, Inductive, PTL

\* A payment that is reported as failed has no HTLC the receiver may settle
\* (payment_status.go decidePaymentStatus).
THEOREM FailureFinal == Spec => []FailedIsUnpaid
<1>1. PaymentInv => FailedIsUnpaid
    <2> SUFFICES ASSUME PaymentInv, Status = "Failed", NEW i \in Keys,
                        i \in mailbox \/ link[i] \in {"new", "waiting", "settled"}
                 PROVE  FALSE
        BY DEF PaymentInv, SenderInv, SenderTypes, FailedIsUnpaid, Alive
    <2>1. att[i] \in {"none", "failed", "deleted"}
        BY StatusFacts DEF PaymentInv, SenderInv, SenderTypes, AttStates
    <2> QED BY <2>1 DEF PaymentInv, SenderInv, Agreed, Dead
<1> QED BY <1>1, Inductive, PTL

-----------------------------------------------------------------------------
(* The amounts. *)

\* Attempts whose amount the payment has spent, so far as it knows.
Spent == Are("inflight") \cup Are("settled")

\* What is spent stays within the payment, so that Remaining never underflows.
Budget == amt \in [Keys -> Nat] /\ Total(Spent) <= Value

\* There are finitely many attempts.
LEMMA KeysFinite == IsFiniteSet(Keys)
BY FS_Interval, KeysFacts DEF Keys

\* Totals are sums over the amounts.
LEMMA TotalIs == \A S : Total(S) = SumOf(amt, S)
BY DEF Total, SumOf

\* A set of attempts costs no less than a part of it.
LEMMA TotalSubset ==
    ASSUME amt \in [Keys -> Nat], NEW S \in SUBSET Keys, NEW T \in SUBSET S
    PROVE  SumOf(amt, T) <= SumOf(amt, S) /\ SumOf(amt, S) \in Nat /\ SumOf(amt, T) \in Nat
<1>1. IsFiniteSet(S) /\ IsFiniteSet(T)
    BY KeysFinite, FS_Subset
<1>2. \A i \in S : amt[i] \in Nat
    OBVIOUS
<1> QED BY <1>1, <1>2, SumNat, SumSubset

\* A step that starts no attempt spends nothing.
LEMMA BudgetQuiet ==
    ASSUME Budget, UNCHANGED amt, Spent' \subseteq Spent
    PROVE  Budget'
<1>1. SumOf(amt, Spent') <= SumOf(amt, Spent) /\ SumOf(amt, Spent') \in Nat
      /\ SumOf(amt, Spent) \in Nat
    <2>1. Spent \in SUBSET Keys
        BY DEF Spent, Are
    <2> HIDE DEF Spent
    <2> QED BY <2>1, TotalSubset DEF Budget
<1>2. Total(Spent) = SumOf(amt, Spent) /\ Total(Spent)' = SumOf(amt, Spent')
    <2>1. Total(Spent)' = SumOf(amt', Spent')
        BY DEF Total, SumOf, MapThenSumSet, MapThenFoldSet
    <2> QED BY <2>1, TotalIs
<1>3. Value \in Nat
    BY RegistryAssumption
<1> QED BY <1>1, <1>2, <1>3 DEF Budget

\* A new attempt fits into what remains of the amount.
LEMMA BudgetRegister ==
    ASSUME Budget, SenderTypes, NEW a, RegisterAttempt(a)
    PROVE  Budget'
<1> DEFINE n == NextId
<1>1. /\ n \in Keys /\ att' = [att EXCEPT ![n] = "inflight"]
      /\ amt' = [amt EXCEPT ![n] = a] /\ a \in 1 .. Remaining
    BY DEF RegisterAttempt, RouteAmounts
<1>2. att[n] = "none"
    BY <1>1, NextIdFresh
<1> HIDE DEF n
<1>3. Spent \in SUBSET Keys /\ n \notin Spent /\ Spent' = Spent \cup {n}
    BY <1>1, <1>2 DEF Spent, Are, SenderTypes
<1>4. Total(Spent) = SumOf(amt, Spent) /\ SumOf(amt, Spent) \in Nat /\ Value \in Nat
    <2>1. Total(Spent) = SumOf(amt, Spent)
        BY TotalIs
    <2>2. SumOf(amt, Spent) \in Nat
        BY <1>3, TotalSubset DEF Budget
    <2> QED BY <2>1, <2>2, RegistryAssumption
<1>5. a \in Nat /\ a <= Value - SumOf(amt, Spent)
    BY <1>1, <1>4 DEF Remaining, SentAmt, Spent
<1>6. amt' \in [Keys -> Nat]
    BY <1>1, <1>5 DEF Budget
<1>7. SumOf(amt', Spent') = SumOf(amt, Spent) + a
    <2> HIDE DEF Spent
    <2>1. IsFiniteSet(Spent)
        BY <1>3, KeysFinite, FS_Subset
    <2>2. SumOf(amt', Spent \cup {n}) = SumOf(amt', Spent) + amt'[n]
        <3>1. \A i \in Spent \cup {n} : amt'[i] \in Int
            BY <1>1, <1>3, <1>6
        <3> QED BY <1>3, <2>1, <3>1, SumAdd
    <2>3. SumOf(amt', Spent) = SumOf(amt, Spent)
        <3>1. \A i \in Spent : amt'[i] = amt[i]
            BY <1>1, <1>3 DEF Budget
        <3> QED BY <2>1, <3>1, SumSame
    <2>4. amt'[n] = a
        BY <1>1 DEF Budget
    <2> QED BY <1>3, <2>2, <2>3, <2>4
<1>8. Total(Spent)' = SumOf(amt', Spent')
    BY DEF Total, SumOf, MapThenSumSet, MapThenFoldSet
<1> QED BY <1>4, <1>5, <1>6, <1>7, <1>8 DEF Budget

\* Every other step keeps the amounts, and moves attempts only out of those in
\* flight, into the settled ones or out of the account.
LEMMA BudgetStep ==
    ASSUME Budget, PaymentInv, [Next]_vars
    PROVE  Budget'
<1> DEFINE Quiet == /\ UNCHANGED amt
                    /\ \A i \in Keys : \/ att'[i] = att[i]
                                       \/ att'[i] \notin {"inflight", "settled"}
                                       \/ att[i] = "inflight"
<1>1. SUFFICES ASSUME ~ \E a : RegisterAttempt(a) PROVE Quiet
    <2>1. ASSUME Quiet PROVE Spent' \subseteq Spent
        BY <2>1 DEF Spent, Are
    <2> QED BY <2>1, BudgetQuiet, BudgetRegister DEF PaymentInv, SenderInv
<1>2. CASE Receiver \/ ReceiverFaults \/ UNCHANGED vars
    BY <1>2 DEF Receiver, ReceiverFaults, vars, registryVars, senderVars, lifecycle,
        HoldHtlc, NotifyCanceled, SettleHodlInvoice, CancelInvoice, cancelInvoiceImpl,
        NotifyExitHopHtlc, cancelSingleHtlc, processHodlQueue, expireInvoice,
        LinkRestart, ReceiverRestart
<1>3. CASE \/ CheckContext \/ DecideNextStep \/ NoRoute \/ SendHTLC \/ SenderRestart
           \/ \E i \in Keys : collectResult(i) \/ SwitchStep(i)
    BY <1>3 DEF CheckContext, DecideNextStep, NoRoute, SendHTLC, SenderRestart,
        collectResult, SwitchStep, AddToLink, MailboxFails, storeResult, ackSettleFail,
        teardownCircuit, registryVars, lifecycle
<1>4. CASE InitPayment
    BY <1>4 DEF InitPayment, registryVars
<1>5. CASE failAttempt
    BY <1>5 DEF failAttempt, registryVars, PaymentInv, SenderInv, SenderTypes
<1>6. ASSUME NEW final \in BOOLEAN, SendFails(final) PROVE Quiet
    BY <1>6 DEF SendFails, handleSwitchErr, registryVars, PaymentInv, SenderInv, SenderTypes
<1>7. ASSUME NEW i \in Keys, NEW final \in BOOLEAN, handleAttemptResult(i, final)
      PROVE  Quiet
    <2>1. att[i] = "inflight"
        BY <1>7 DEF handleAttemptResult, PaymentInv, SenderInv, Traceable
    <2> QED BY <1>7, <2>1 DEF handleAttemptResult, handleSwitchErr, registryVars,
                              PaymentInv, SenderInv, SenderTypes
<1> QED BY <1>1, <1>2, <1>3, <1>4, <1>5, <1>6, <1>7 DEF Next, Lifecycle

\* Nothing is spent initially.
LEMMA BudgetInit == Init => Budget
<1> SUFFICES ASSUME Init PROVE Budget
    OBVIOUS
<1>1. Spent = {} /\ amt \in [Keys -> Nat]
    BY DEF Init, RegistryInit, Each, Spent, Are
<1>2. Total(Spent) = 0
    BY <1>1, TotalIs, SumEmpty
<1> QED BY <1>1, <1>2, RegistryAssumption DEF Budget

\* Attempts in flight and settled never exceed the amount.
LEMMA InBudget == Spec => []Budget
BY BudgetInit, BudgetStep, Inductive, PTL DEF Spec

\* However attempts fail, time out, are repeated after a restart or paid again
\* after the payment failed, the HTLCs that have paid the receiver or still can
\* never add up to more than the payment (payment_lifecycle.go).
THEOREM NeverPaysTwice == Spec => []NoDoublePay
<1>1. PaymentInv /\ Budget => NoDoublePay
    <2> SUFFICES ASSUME PaymentInv, Budget PROVE NoDoublePay
        OBVIOUS
    <2>1. Alive \subseteq Spent /\ Spent \subseteq Keys
        BY DEF PaymentInv, SenderInv, SenderTypes, AttStates, Agreed, Dead, Alive,
               Spent, Are
    <2>2. SumOf(amt, Alive) <= SumOf(amt, Spent)
          /\ SumOf(amt, Spent) \in Nat /\ SumOf(amt, Alive) \in Nat
        <3> HIDE DEF Alive, Spent
        <3> QED BY <2>1, TotalSubset DEF Budget
    <2>3. Total(Alive) = SumOf(amt, Alive) /\ Total(Spent) = SumOf(amt, Spent)
        BY TotalIs
    <2> QED BY <2>2, <2>3, RegistryAssumption DEF Budget, NoDoublePay
<1> QED BY <1>1, Inductive, InBudget, PTL

-----------------------------------------------------------------------------
(* The set of HTLCs on the invoice. *)

Paid == {i \in Keys : htlcs[i] = "settled"}

\* A complete set stays complete until it is settled, and is settled whole.
SetInv ==
    /\ invoice \in {"open", "accepted", "settled", "canceled"}
    /\ invoice = "accepted" => SumOf(amt, Accepted) >= Value
    /\ invoice \in {"settled", "canceled"} => Accepted = {}
    /\ Paid # {} => invoice = "settled"
    /\ invoice = "settled" => SumOf(amt, Paid) >= Value

\* The amounts of the HTLCs on the invoice are fixed.
LEMMA SetQuiet ==
    ASSUME SetInv, UNCHANGED <<invoice, htlcs>>,
           \A i \in Keys : htlcs[i] # "none" => amt'[i] = amt[i]
    PROVE  SetInv'
<1>1. Accepted' = Accepted /\ Paid' = Paid
    BY DEF Accepted, Paid
<1>2. SumOf(amt', Accepted) = SumOf(amt, Accepted)
    <2>1. IsFiniteSet(Accepted) /\ \A i \in Accepted : amt'[i] = amt[i]
        BY KeysFinite, FS_Subset DEF Accepted
    <2> QED BY <2>1, SumSame
<1>3. SumOf(amt', Paid) = SumOf(amt, Paid)
    <2>1. IsFiniteSet(Paid) /\ \A i \in Paid : amt'[i] = amt[i]
        BY KeysFinite, FS_Subset DEF Paid
    <2> QED BY <2>1, SumSame
<1> HIDE DEF Accepted, Paid
<1> QED BY <1>1, <1>2, <1>3 DEF SetInv

\* A new HTLC on the invoice.
LEMMA SetUpdate ==
    ASSUME SetInv, Budget, RegistryTypes, NEW i \in Keys, htlcs[i] = "none",
           updateMpp(i), UNCHANGED amt
    PROVE  SetInv'
<1>1. CASE UNCHANGED database
    BY <1>1, SetQuiet DEF database
<1>2. SetTotal = SumOf(amt, Accepted)
    BY TotalIs DEF SetTotal
<1>3. SumOf(amt, Accepted \cup {i}) = SetTotal + amt[i]
    <2>1. IsFiniteSet(Accepted) /\ i \notin Accepted
          /\ \A j \in Accepted \cup {i} : amt[j] \in Int
        BY KeysFinite, FS_Subset DEF Accepted, Budget
    <2> HIDE DEF Accepted
    <2> QED BY <1>2, <2>1, SumAdd
<1>4. CASE /\ invoice = "open" /\ Move({i}, "accepted")
           /\ invoice' = IF SetTotal + amt[i] >= Value THEN "accepted" ELSE invoice
    <2>1. Accepted' = Accepted \cup {i} /\ Paid' = Paid
        BY <1>4 DEF Move, Accepted, Paid, RegistryTypes
    <2> HIDE DEF Accepted, Paid
    <2> QED BY <1>3, <1>4, <2>1 DEF SetInv
<1>5. CASE /\ invoice = "open" /\ invoice' = "settled"
           /\ SetTotal + amt[i] >= Value
           /\ Move(Accepted \cup {i}, "settled")
    <2>1. Paid = {}
        BY <1>5 DEF SetInv
    <2>2. Accepted' = {} /\ Paid' = Accepted \cup {i}
        BY <1>5, <2>1 DEF Move, Accepted, Paid, RegistryTypes
    <2> HIDE DEF Accepted, Paid
    <2> QED BY <1>3, <1>5, <2>2 DEF SetInv
<1> QED BY <1>1, <1>4, <1>5 DEF updateMpp

\* The receiver's steps.
LEMMA SetReceiver ==
    ASSUME SetInv, Budget, RegistryInv, Receiver \/ ReceiverFaults
    PROVE  SetInv'
<1>1. ASSUME NEW i \in Keys, NotifyExitHopHtlc(i) PROVE SetInv'
    <2>1. UNCHANGED amt
        BY <1>1 DEF NotifyExitHopHtlc
    <2>2. CASE htlcs[i] = "none"
        BY <1>1, <2>1, <2>2, SetUpdate DEF NotifyExitHopHtlc, RegistryInv
    <2>3. CASE htlcs[i] # "none"
        BY <1>1, <2>1, <2>3, SetQuiet DEF NotifyExitHopHtlc, resolveReplayedHtlc, database
    <2> QED BY <2>2, <2>3
<1>2. ASSUME NEW i \in Keys, cancelSingleHtlc(i) PROVE SetInv'
    <2>1. UNCHANGED <<amt, invoice>>
        BY <1>2 DEF cancelSingleHtlc
    <2>2. CASE Releasable(i)
        <3>1. invoice = "open" /\ Move({i}, "canceled")
            BY <1>2, <2>2 DEF cancelSingleHtlc, Releasable
        <3>2. Paid' = Paid
            BY <3>1, <2>2 DEF Move, Paid, Releasable
        <3> HIDE DEF Paid, Accepted
        <3> QED BY <2>1, <3>1, <3>2 DEF SetInv
    <2>3. CASE ~ Releasable(i)
        BY <1>2, <2>1, <2>3, SetQuiet DEF cancelSingleHtlc
    <2> QED BY <2>2, <2>3
<1>3. CASE SettleHodlInvoice
    <2>1. /\ invoice = "accepted" /\ invoice' = "settled" /\ UNCHANGED amt
          /\ Move(Accepted, "settled")
        BY <1>3 DEF SettleHodlInvoice
    <2>2. Paid = {}
        BY <2>1 DEF SetInv
    <2>3. Accepted' = {} /\ Paid' = Accepted
        BY <2>1, <2>2 DEF Move, Accepted, Paid
    <2> HIDE DEF Paid, Accepted
    <2> QED BY <2>1, <2>3 DEF SetInv
<1>4. ASSUME NEW b \in BOOLEAN, cancelInvoiceImpl(b) PROVE SetInv'
    <2>1. UNCHANGED amt
        BY <1>4 DEF cancelInvoiceImpl
    <2>2. CASE UNCHANGED <<invoice, htlcs>>
        BY <2>1, <2>2, SetQuiet
    <2>3. CASE /\ invoice \in {"open", "accepted"} /\ invoice' = "canceled"
               /\ Move(Accepted, "canceled")
        <3>1. Paid = {}
            BY <2>3 DEF SetInv
        <3>2. Accepted' = {} /\ Paid' = {}
            BY <2>3, <3>1 DEF Move, Accepted, Paid
        <3> HIDE DEF Paid, Accepted
        <3> QED BY <2>3, <3>2 DEF SetInv
    <2> QED BY <1>4, <2>2, <2>3 DEF cancelInvoiceImpl
<1>5. ASSUME CancelInvoice \/ \E kind \in {"ts", "height"} : expireInvoice(kind)
      PROVE  SetInv'
    <2>1. \E b \in BOOLEAN : cancelInvoiceImpl(b)
        <3>1. CASE CancelInvoice
            BY <3>1 DEF CancelInvoice
        <3>2. ASSUME NEW kind \in {"ts", "height"}, expireInvoice(kind)
              PROVE  cancelInvoiceImpl(kind = "height") /\ (kind = "height") \in BOOLEAN
            BY <3>2, Zenon DEF expireInvoice
        <3> QED BY <1>5, <3>1, <3>2
    <2> QED BY <1>4, <2>1
<1>6. CASE UNCHANGED <<amt, invoice, htlcs>>
    BY <1>6, SetQuiet
<1>7. ASSUME \/ HoldHtlc \/ NotifyCanceled \/ LinkRestart \/ ReceiverRestart
             \/ \E i \in Keys : processHodlQueue(i)
      PROVE  UNCHANGED <<amt, invoice, htlcs>>
    BY <1>7 DEF HoldHtlc, NotifyCanceled, LinkRestart, ReceiverRestart,
                processHodlQueue, database
<1> QED BY <1>1, <1>2, <1>3, <1>5, <1>6, <1>7 DEF Receiver, ReceiverFaults

\* The sender's steps: an attempt gets its amount before it has an HTLC.
LEMMA SetSender ==
    ASSUME SetInv, PaymentInv, Budget,
           \/ Lifecycle \/ SenderRestart \/ UNCHANGED vars
           \/ \E i \in Keys : SwitchStep(i)
    PROVE  SetInv'
<1>1. ASSUME NEW a \in 1 .. Value, RegisterAttempt(a) PROVE SetInv'
    <2>1. /\ NextId \in Keys /\ amt' = [amt EXCEPT ![NextId] = a]
          /\ UNCHANGED <<invoice, htlcs>>
        BY <1>1 DEF RegisterAttempt, database
    <2>2. htlcs[NextId] = "none"
        BY <2>1, NextIdFresh DEF PaymentInv, SenderInv, Agreed, RegistryInv, Recorded
    <2>3. \A i \in Keys : htlcs[i] # "none" => amt'[i] = amt[i]
        BY <2>1, <2>2 DEF Budget
    <2> QED BY <2>1, <2>3, SetQuiet
<1>2. CASE UNCHANGED <<amt, invoice, htlcs>>
    BY <1>2, SetQuiet
<1>3. ASSUME ~ \E a \in 1 .. Value : RegisterAttempt(a)
      PROVE  UNCHANGED <<amt, invoice, htlcs>>
    BY <1>3 DEF Lifecycle, InitPayment, CheckContext, DecideNextStep, NoRoute, SendHTLC,
        failAttempt, SendFails, handleAttemptResult, collectResult, SenderRestart,
        SwitchStep, AddToLink, MailboxFails, storeResult, ackSettleFail, teardownCircuit,
        vars, registryVars, database
<1> QED BY <1>1, <1>2, <1>3

\* Every step keeps what is known of the settled set.
LEMMA SetStep == SetInv /\ PaymentInv /\ Budget /\ [Next]_vars => SetInv'
BY SetReceiver, SetSender DEF Next, PaymentInv

\* No set is settled initially.
LEMMA SetInit == Init => SetInv
<1> SUFFICES ASSUME Init PROVE SetInv
    OBVIOUS
<1>1. invoice = "open" /\ Accepted = {} /\ Paid = {}
    BY DEF Init, RegistryInit, Accepted, Paid
<1> QED BY <1>1 DEF SetInv

\* Whichever timers, cancellations, replays and restarts come between the parts
\* of a payment, the receiver settles a set that covers the invoice and settles
\* all of it (update.go updateMpp).
THEOREM SettledWhole == Spec => []WholeSetSettled
<1>1. PaymentInv /\ SetInv => WholeSetSettled
    <2> SUFFICES ASSUME PaymentInv, SetInv,
                        NEW i \in Keys, link[i] = "settled" \/ htlcs[i] = "settled"
                 PROVE  invoice = "settled" /\ Accepted = {} /\ Total(Paid) >= Value
        BY DEF WholeSetSettled, Paid
    <2>1. Paid # {}
        BY DEF PaymentInv, RegistryInv, Recorded, ResolutionsAgree, Paid
    <2>2. Total(Paid) = SumOf(amt, Paid)
        BY TotalIs
    <2> QED BY <2>1, <2>2 DEF SetInv
<1>2. Spec => []SetInv
    BY SetInit, SetStep, Inductive, InBudget, PTL DEF Spec
<1> QED BY <1>1, <1>2, Inductive, PTL
=============================================================================
