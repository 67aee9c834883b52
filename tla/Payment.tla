------------------------------ MODULE Payment ------------------------------
(***************************************************************************)
(* A payment end to end: the sender's payment lifecycle and its database   *)
(* (routing/payment_lifecycle.go, payments/db), the local half of the      *)
(* switch with its circuits and its store of results (htlcswitch/switch.go *)
(* and payment_result.go), a network that forwards or fails each HTLC, and *)
(* the receiver of InvoiceRegistry.                                        *)
(*                                                                         *)
(* Failed attempts stay in the database (KeepFailedPaymentAttempts).       *)
(***************************************************************************)
EXTENDS InvoiceRegistry

CONSTANTS MaxFaults   \* bounds the restarts of nodes and links

VARIABLES
    att,        \* database: the state of each HTLC attempt: see AttStates
    reason,     \* database: the payment has a failure reason
    pc,         \* the lifecycle: "idle", "loop", "send", "wait", "fail"
    cur,        \* the attempt being sent or failed
    routes,     \* the payment session finds routes (an empty one does not)
    collector,  \* the resultCollector of each attempt
    circuit,    \* database: "half" until the link adds the HTLC, "open"
    result,     \* database: networkResultStore
    mailbox,    \* attempts in the outgoing link's mailbox
    local,      \* attempts whose packet failed before it became an HTLC
    phase,      \* handleLocalResponse: "new", "stored", "acked", "done"
    faults

AttStates == {"none", "inflight", "settled", "failed", "deleted"}

lifecycle == <<att, reason, pc, cur, routes>>
switch == <<circuit, result, mailbox, local, phase>>
senderVars == <<lifecycle, collector, switch>>
vars == <<registryVars, senderVars, faults>>

Each(x) == [i \in Keys |-> x]
Fault == faults < MaxFaults /\ faults' = faults + 1

Init ==
    /\ RegistryInit
    /\ att = Each("none") /\ reason = FALSE /\ pc = "loop" /\ cur = None
    /\ routes = TRUE /\ collector = Each("none")
    /\ circuit = Each("none") /\ result = Each("none") /\ mailbox = {}
    /\ local = {} /\ phase = Each("new") /\ faults = 0

Are(st) == {i \in Keys : att[i] = st}

\* Mutant: the failure reason is looked at first.
Status_ReasonFirst ==
    IF reason THEN "Failed"
    ELSE IF Are("inflight") # {} THEN "InFlight"
    ELSE IF Are("settled") # {} THEN "Succeeded"
    ELSE IF Are("failed") # {} THEN "InFlight"
    ELSE "Initiated"

\* decidePaymentStatus
Status ==
    IF Are("inflight") # {} THEN "InFlight"
    ELSE IF Are("settled") # {} THEN "Succeeded"
    ELSE IF reason THEN "Failed"
    ELSE IF Are("failed") # {} THEN "InFlight"
    ELSE "Initiated"

\* Mutant: attempts in flight are forgotten.
SentAmt_Settled == Total(Are("settled"))

SentAmt == Total(Are("inflight") \cup Are("settled"))
Remaining == Value - SentAmt

\* Registrable, for a status that is Initiated or InFlight.
Registrable == Status \in {"Initiated", "InFlight"} /\ Are("settled") = {} /\ ~ reason

AllowMoreAttempts == Remaining # 0 /\ Registrable

\* NeedWaitAttempts, once no more attempts are allowed.
NeedWaitAttempts == Status = "InFlight"

NextId == Cardinality({i \in Keys : att[i] # "none"}) + 1

-----------------------------------------------------------------------------
(* The lifecycle: one goroutine per payment. *)

\* The user pays again after a failure; the old attempts are dropped.
InitPayment ==
    /\ pc = "idle" /\ Status = "Failed" /\ NextId \in Keys
    /\ att' = [i \in Keys |-> IF att[i] = "failed" THEN "deleted" ELSE att[i]]
    /\ reason' = FALSE /\ routes' = TRUE /\ pc' = "loop"
    /\ UNCHANGED <<registryVars, cur, collector, switch, faults>>

\* checkContext: the payment timed out or was canceled.  A resumed payment
\* has no timeout.
CheckContext ==
    /\ pc = "loop" /\ routes /\ ~ reason
    /\ reason' = TRUE
    /\ UNCHANGED <<registryVars, att, pc, cur, routes, collector, switch, faults>>

\* decideNextStep without a further attempt: wait for a result or stop.
DecideNextStep ==
    /\ pc = "loop" /\ ~ AllowMoreAttempts
    /\ pc' = IF NeedWaitAttempts THEN "wait" ELSE "idle"
    /\ UNCHANGED <<registryVars, att, reason, cur, routes, collector, switch, faults>>

\* requestRoute finds none; nor is there one when attempts are used up.
NoRoute ==
    /\ pc = "loop" /\ AllowMoreAttempts
    /\ reason' = TRUE
    /\ UNCHANGED <<registryVars, att, pc, cur, routes, collector, switch, faults>>

RouteAmounts == 1 .. Remaining

\* requestRoute finds a route for a; registerAttempt writes the attempt.
RegisterAttempt(a) ==
    /\ pc = "loop" /\ AllowMoreAttempts /\ routes /\ NextId \in Keys
    /\ a \in RouteAmounts
    /\ att' = [att EXCEPT ![NextId] = "inflight"]
    /\ amt' = [amt EXCEPT ![NextId] = a]
    /\ cur' = NextId /\ pc' = "send"
    /\ UNCHANGED <<link, database, memory, reason, routes, collector, switch, faults>>

\* SendHTLC: the circuit is committed and the packet given to the link, and
\* the lifecycle starts to collect the result.
SendHTLC ==
    /\ pc = "send"
    /\ circuit' = [circuit EXCEPT ![cur] = "half"]
    /\ mailbox' = mailbox \cup {cur}
    /\ collector' = [collector EXCEPT ![cur] = "start"]
    /\ pc' = "loop" /\ cur' = None
    /\ UNCHANGED <<registryVars, att, reason, routes, result, local, phase, faults>>

\* handleSwitchErr for attempt i: the attempt fails and, when the error is
\* final, the payment before it.
handleSwitchErr(i, final) ==
    IF final THEN reason' = TRUE /\ pc' = "fail" /\ cur' = i /\ UNCHANGED att
             ELSE att' = [att EXCEPT ![i] = "failed"] /\ pc' = "loop" /\ cur' = None
                  /\ UNCHANGED reason

\* SendHTLC refuses: no link, no bandwidth, fee exposure.
SendFails(final) ==
    /\ pc = "send"
    /\ handleSwitchErr(cur, final)
    /\ UNCHANGED <<registryVars, routes, collector, switch, faults>>

\* The second half of failPaymentAndAttempt.
failAttempt ==
    /\ pc = "fail"
    /\ att' = [att EXCEPT ![cur] = "failed"] /\ pc' = "loop" /\ cur' = None
    /\ UNCHANGED <<registryVars, reason, routes, collector, switch, faults>>

\* Mutant: with a circuit there is no result in the store yet, so only
\* later ones are looked for.
GetAttemptResult_NoLookup(i) ==
    IF circuit[i] # "none" THEN "subscribed"
    ELSE IF result[i] # "none" THEN result[i] ELSE "notfound"

\* GetAttemptResult: without a circuit the result is stored or the attempt
\* unknown; with one, the subscription delivers a stored result at once.
GetAttemptResult(i) ==
    CASE result[i] # "none" -> result[i]
      [] result[i] = "none" /\ circuit[i] = "none" -> "notfound"
      [] OTHER -> "subscribed"

collectResult(i) ==
    /\ collector[i] = "start" /\ pc # "idle"
    /\ collector' = [collector EXCEPT ![i] = GetAttemptResult(i)]
    /\ UNCHANGED <<registryVars, lifecycle, switch, faults>>

\* The lifecycle takes one result: the attempt is settled, or failed, finally
\* or not.  An attempt the switch does not know just fails.
handleAttemptResult(i, final) ==
    /\ pc = "wait" /\ collector[i] \in {"settle", "fail", "notfound"}
    /\ final => collector[i] = "fail"
    /\ IF collector[i] = "settle"
       THEN att' = [att EXCEPT ![i] = "settled"] /\ pc' = "loop"
            /\ UNCHANGED <<reason, cur>>
       ELSE handleSwitchErr(i, final)
    /\ collector' = [collector EXCEPT ![i] = "none"]
    /\ UNCHANGED <<registryVars, routes, switch, faults>>
-----------------------------------------------------------------------------
(* The local half of the switch, and the network. *)

\* The outgoing link takes the packet and commits the HTLC with its peer.  It
\* goes to the receiver, or fails on its way.
AddToLink(i) ==
    /\ i \in mailbox
    /\ mailbox' = mailbox \ {i}
    /\ circuit' = [circuit EXCEPT ![i] = "open"]
    /\ \E end \in {"new", "failed"} : Answer(i, end)
    /\ UNCHANGED <<amt, database, memory, lifecycle, collector, result, local, phase, faults>>

\* The link or the mailbox fails the packet: a response that only memory holds.
MailboxFails(i) ==
    /\ i \in mailbox
    /\ mailbox' = mailbox \ {i}
    /\ local' = local \cup {i}
    /\ UNCHANGED <<registryVars, lifecycle, collector, circuit, result, phase, faults>>

\* The response to HTLC i is in a forwarding package of the outgoing link, on
\* disk, or failed locally.
Responded(i) == i \in local \/ link[i] \in {"settled", "failed"}

Outcome(i) == IF link[i] = "settled" THEN "settle" ELSE "fail"

\* handleLocalResponse, step by step: the result is stored and whoever
\* subscribed for it is told ...
storeResult(i) ==
    /\ Responded(i) /\ phase[i] = "new"
    /\ circuit[i] # "none"
    /\ result' = [result EXCEPT ![i] = Outcome(i)]
    /\ collector' = [collector EXCEPT ![i] = IF @ = "subscribed" THEN Outcome(i) ELSE @]
    /\ phase' = [phase EXCEPT ![i] = "stored"]
    /\ UNCHANGED <<registryVars, lifecycle, circuit, mailbox, local, faults>>

\* ... the response is acknowledged, so that no restart repeats it ...
ackSettleFail(i) ==
    /\ phase[i] = "stored"
    /\ phase' = [phase EXCEPT ![i] = "acked"]
    /\ local' = local \ {i}
    /\ UNCHANGED <<registryVars, lifecycle, collector, circuit, result, mailbox, faults>>

\* Mutant: the circuit is removed before the result is stored.
teardownCircuit_First(i) ==
    /\ Responded(i) /\ phase[i] = "new"
    /\ circuit[i] # "none"
    /\ circuit' = [circuit EXCEPT ![i] = "none"]
    /\ UNCHANGED <<registryVars, lifecycle, collector, result, mailbox, local, phase, faults>>

\* ... and the circuit goes.
teardownCircuit(i) ==
    /\ phase[i] = "acked"
    /\ circuit' = [circuit EXCEPT ![i] = "none"]
    /\ phase' = [phase EXCEPT ![i] = "done"]
    /\ UNCHANGED <<registryVars, lifecycle, collector, result, mailbox, local, faults>>

\* resumePayments: the results of finished payments are cleaned out, and a
\* payment in flight is resumed with a session that finds no routes.
resumePayments ==
    /\ result' = [i \in Keys |->
                    IF Status = "InFlight" /\ att[i] \notin {"none", "deleted"}
                    THEN result[i] ELSE "none"]
    /\ pc' = IF Status = "InFlight" THEN "loop" ELSE "idle"
    /\ collector' = [i \in Keys |-> IF att[i] = "inflight" THEN "start" ELSE "none"]
    /\ routes' = FALSE

\* The sender restarts: its mailboxes and local responses are gone, responses
\* not yet acknowledged are forwarded again.
SenderRestart ==
    /\ Fault
    /\ resumePayments
    /\ mailbox' = {}
    /\ local' = {}
    /\ phase' = [i \in Keys |-> CASE phase[i] = "stored" -> "new"
                                  [] phase[i] = "acked" -> "done"
                                  [] OTHER -> phase[i]]
    /\ cur' = None
    /\ UNCHANGED <<registryVars, att, reason, circuit>>

-----------------------------------------------------------------------------
Receiver ==
    /\ \/ HoldHtlc \/ NotifyCanceled \/ SettleHodlInvoice \/ CancelInvoice
       \/ \E i \in Keys : NotifyExitHopHtlc(i) \/ cancelSingleHtlc(i) \/ processHodlQueue(i)
       \/ \E kind \in {"ts", "height"} : expireInvoice(kind)
    /\ UNCHANGED <<senderVars, faults>>

ReceiverFaults ==
    /\ Fault /\ (LinkRestart \/ ReceiverRestart)
    /\ UNCHANGED senderVars

Lifecycle ==
    \/ InitPayment \/ CheckContext \/ DecideNextStep \/ NoRoute \/ SendHTLC \/ failAttempt
    \/ \E a \in 1 .. Value : RegisterAttempt(a)
    \/ \E final \in BOOLEAN :
          SendFails(final) \/ \E i \in Keys : handleAttemptResult(i, final)
    \/ \E i \in Keys : collectResult(i)

SwitchStep(i) ==
    \/ AddToLink(i) \/ MailboxFails(i)
    \/ storeResult(i) \/ ackSettleFail(i) \/ teardownCircuit(i)

Next ==
    \/ Receiver \/ ReceiverFaults \/ Lifecycle \/ SenderRestart
    \/ \E i \in Keys : SwitchStep(i)

Spec == Init /\ [][Next]_vars

\* The goroutines of both nodes run, HTLCs travel, timers and block heights
\* fire.  The user need not settle, cancel or pay again, and an invoice's own
\* expiry may be far away.  No part can take steps for ever, so that one
\* condition for all of them is enough.
Running ==
    \/ pc # "idle" /\ Lifecycle
    \/ \E i \in Keys : SwitchStep(i)
    \/ /\ \/ HoldHtlc \/ NotifyCanceled \/ expireInvoice("height")
          \/ \E i \in Keys : NotifyExitHopHtlc(i) \/ cancelSingleHtlc(i) \/ processHodlQueue(i)
       /\ UNCHANGED <<senderVars, faults>>

Fairness == WF_vars(Running)

FairSpec == Spec /\ Fairness

-----------------------------------------------------------------------------
(* Properties *)

\* The variables have their types, and what was sent and not failed never
\* exceeds the payment, which setState would refuse to load.
TypeOK ==
    /\ amt \in [Keys -> 0 .. Value] /\ link \in [Keys -> LinkStates]
    /\ invoice \in {"open", "accepted", "settled", "canceled"}
    /\ htlcs \in [Keys -> {"none", "accepted", "settled", "canceled"}]
    /\ {lock, releasing, cur} \subseteq Keys \cup {None}
    /\ subs \subseteq Keys /\ timers \subseteq Keys /\ mailbox \cup local \subseteq Keys
    /\ queue \in [Keys -> {"none", "settled", "failed"}] /\ expiry \subseteq {"ts", "height"}
    /\ att \in [Keys -> AttStates] /\ {reason, routes, hodl} \subseteq BOOLEAN
    /\ pc \in {"idle", "loop", "send", "wait", "fail"}
    /\ collector \in [Keys -> {"none", "start", "subscribed", "settle", "fail", "notfound"}]
    /\ circuit \in [Keys -> {"none", "half", "open"}]
    /\ result \in [Keys -> {"none", "settle", "fail"}]
    /\ phase \in [Keys -> {"new", "stored", "acked", "done"}]
    /\ Remaining \in 0 .. Value

\* HTLCs that have paid the receiver or still can.
Alive == mailbox \cup {i \in Keys : link[i] \in {"new", "waiting", "settled"}}

\* Never more than the payment's amount is at stake, across retries after
\* failures, restarts, lost packets and repeated payments of a failed hash
\* (payment_lifecycle.go, GetAttemptResult's "unknown" is final).
NoDoublePay == Total(Alive) <= Value

\* A payment reported as failed has no HTLC out that the receiver may settle,
\* although the reason is often written long before the last result is in
\* (payment_status.go decidePaymentStatus).
FailedIsUnpaid == Status = "Failed" => Alive = {}

\* The database and the network agree on what became of an attempt: one
\* recorded as settled was, one whose HTLC was settled is never recorded as
\* failed, in whatever order result, acknowledgement and circuit are written.
OutcomesAgree ==
    \A i \in Keys : /\ att[i] = "settled" => link[i] = "settled"
                    /\ link[i] = "settled" => att[i] \in {"inflight", "settled"}

\* A circuit whose packet was lost with the mailbox: nothing adds the HTLC
\* any more, and GetAttemptResult waits for a result nobody will store.
Dangling(i) ==
    /\ circuit[i] = "half" /\ i \notin mailbox
    /\ i \notin local /\ result[i] = "none"

\* A payment ends, with its last attempt resolved: no result is missed between
\* the circuit map, the store and the subscription, after restarts too.  Kept
\* apart are attempts whose circuit dangles or whose HTLC is orphaned, and a
\* payment that crashed before its first attempt, which nobody resumes.
PaymentEnds ==
    []<>(\/ Status \in {"Succeeded", "Failed"}
         \/ Status = "Initiated" /\ pc = "idle"
         \/ \E i \in Keys : Dangling(i) \/ Orphaned(i))
=============================================================================
