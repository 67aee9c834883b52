-------------------------- MODULE InvoiceRegistry --------------------------
(***************************************************************************)
(* The receiving end of a payment: one invoice of the InvoiceRegistry      *)
(* (invoices/invoiceregistry.go, update.go, update_invoice.go), its expiry *)
(* watcher, and the link that hands it the HTLCs locked in for it.         *)
(*                                                                         *)
(* NotifyExitHopHtlc updates the database and then subscribes the link,    *)
(* under the registry's lock.  The event loop's cancelSingleHtlc updates   *)
(* and then notifies without taking that lock, so both are two steps.      *)
(***************************************************************************)
EXTENDS Integers, FiniteSets, FiniteSetsExt

CONSTANTS
    None,
    Value,        \* the invoice's amount, and the total every HTLC names
    MaxAttempts   \* HTLCs there may be

ASSUME RegistryAssumption ==
    {Value, MaxAttempts} \subseteq Nat \ {0} /\ None \notin Nat

Keys == 1 .. MaxAttempts

VARIABLES
    amt,       \* amount of each HTLC
    link,      \* where each HTLC is: see LinkStates
    hodl,      \* database: the preimage is for the user to release (HodlInvoice)
    invoice,   \* database: the invoice's state
    htlcs,     \* database: the state of each HTLC on the invoice
    lock,      \* HTLC accepted and not yet subscribed for, or None
    subs,      \* hodlSubscriptions: HTLCs the link waits for
    timers,    \* autoReleaseHeap
    releasing, \* HTLC canceled by its timer and not yet notified, or None
    queue,     \* the link's hodlQueue: the resolution of each HTLC, or "none"
    expiry     \* the expiry watcher's entries: "ts", "height"

LinkStates ==
    {"absent", "new",       \* not sent, on its way or locked in at the receiver
     "waiting",             \* held by the registry
     "settled", "failed"}   \* answered

database == <<invoice, htlcs, hodl>>
memory == <<lock, subs, timers, releasing, queue, expiry>>
registryVars == <<amt, link, database, memory>>

RegistryInit ==
    /\ amt = [i \in Keys |-> 0] /\ link = [i \in Keys |-> "absent"]
    /\ hodl \in BOOLEAN /\ invoice = "open" /\ htlcs = [i \in Keys |-> "none"]
    /\ lock = None /\ subs = {} /\ timers = {} /\ releasing = None
    /\ queue = [i \in Keys |-> "none"] /\ expiry = {"ts"}

Total(S) == MapThenSumSet(LAMBDA i : amt[i], S)
Accepted == {i \in Keys : htlcs[i] = "accepted"}

\* The HTLCs of S take the state st.
Move(S, st) == htlcs' = [i \in Keys |-> IF i \in S THEN st ELSE htlcs[i]]

\* notifyHodlSubscribers for the HTLCs of S, once per subscription.
Notify(S, res) ==
    /\ queue' = [i \in Keys |-> IF i \in S \cap subs THEN res ELSE queue[i]]
    /\ subs' = subs \ S

Answer(i, res) == link' = [link EXCEPT ![i] = res]

\* An HTLC seen before is resolved as the database has it.
resolveReplayedHtlc(i) ==
    /\ \/ htlcs[i] = "canceled" /\ Answer(i, "failed") /\ UNCHANGED lock
       \/ htlcs[i] = "settled" /\ Answer(i, "settled") /\ UNCHANGED lock
       \/ htlcs[i] = "accepted" /\ lock' = i /\ UNCHANGED link
    /\ UNCHANGED <<database, subs, queue, expiry>>

\* Mutant: every HTLC the invoice ever saw counts towards the set.
SetTotal_All == Total({j \in Keys : htlcs[j] # "none"})

SetTotal == Total(Accepted)

\* A new HTLC: refused unless the invoice is open and its expiry far enough;
\* else recorded, and when it completes the set the invoice is accepted (a
\* hodl invoice, which the expiry watcher is told of) or settled together with
\* every HTLC of the set.
updateMpp(i) ==
    LET complete == SetTotal + amt[i] >= Value
    IN  \/ /\ Answer(i, "failed")
           /\ UNCHANGED <<database, lock, subs, queue, expiry>>
        \/ /\ invoice = "open"
           /\ ~ complete \/ hodl
           /\ Move({i}, "accepted")
           /\ invoice' = IF complete THEN "accepted" ELSE invoice
           /\ expiry' = IF complete THEN expiry \cup {"height"} ELSE expiry
           /\ lock' = i
           /\ UNCHANGED <<hodl, link, subs, queue>>
        \/ /\ invoice = "open"
           /\ complete /\ ~ hodl
           /\ invoice' = "settled"
           /\ Move(Accepted \cup {i}, "settled")
           /\ Answer(i, "settled")
           /\ Notify(Accepted, "settled")
           /\ UNCHANGED <<hodl, lock, expiry>>

\* The link hands over an HTLC: first half, up to the database update.
NotifyExitHopHtlc(i) ==
    /\ lock = None /\ link[i] = "new"
    /\ IF htlcs[i] # "none" THEN resolveReplayedHtlc(i) ELSE updateMpp(i)
    /\ UNCHANGED <<amt, timers, releasing>>

\* Second half for an accepted HTLC: the link is subscribed, and a timer
\* releases the HTLC of an open invoice after HtlcHoldDuration.
HoldHtlc ==
    /\ lock # None
    /\ lock' = None
    /\ subs' = subs \cup {lock}
    /\ link' = [link EXCEPT ![lock] = "waiting"]
    /\ timers' = IF invoice = "open" THEN timers \cup {lock} ELSE timers
    /\ UNCHANGED <<amt, database, releasing, queue, expiry>>

\* Mutant: the timer cancels without looking at the HTLC's state.
Releasable_Any(i) == TRUE

Releasable(i) == invoice = "open" /\ htlcs[i] = "accepted"

\* cancelSingleHtlc, run by the event loop without the registry's lock: the
\* database first ...
cancelSingleHtlc(i) ==
    /\ releasing = None /\ i \in timers
    /\ timers' = timers \ {i}
    /\ IF Releasable(i) THEN Move({i}, "canceled") /\ releasing' = i
                        ELSE UNCHANGED <<htlcs, releasing>>
    /\ UNCHANGED <<amt, link, invoice, hodl, lock, subs, queue, expiry>>

\* ... then whoever has subscribed by now.
NotifyCanceled ==
    /\ releasing # None
    /\ Notify({releasing}, "failed")
    /\ releasing' = None
    /\ UNCHANGED <<amt, link, database, lock, timers, expiry>>

\* The user releases the preimage of a complete hodl invoice.
SettleHodlInvoice ==
    /\ lock = None /\ invoice = "accepted"
    /\ invoice' = "settled"
    /\ Move(Accepted, "settled")
    /\ Notify(Accepted, "settled")
    /\ UNCHANGED <<amt, link, hodl, lock, timers, releasing, expiry>>

\* cancelInvoiceImpl, which leaves an accepted invoice alone unless forced.
cancelInvoiceImpl(cancelAccepted) ==
    /\ lock = None
    /\ IF invoice = "open" \/ (invoice = "accepted" /\ cancelAccepted)
       THEN /\ invoice' = "canceled"
            /\ Move(Accepted, "canceled")
            /\ LET S == Accepted \cup {i \in Keys : htlcs[i] = "canceled"}
               IN  Notify(S, "failed")
       ELSE UNCHANGED <<invoice, htlcs, subs, queue>>
    /\ UNCHANGED <<amt, link, hodl, lock, timers, releasing>>

CancelInvoice == invoice \in {"open", "accepted"} /\ cancelInvoiceImpl(TRUE)
                 /\ UNCHANGED expiry

\* The expiry watcher: an invoice's time is over, or the block height comes
\* close to the expiry of the HTLCs it holds.
expireInvoice(kind) ==
    /\ kind \in expiry
    /\ cancelInvoiceImpl(kind = "height")
    /\ expiry' = expiry \ {kind}

\* The link takes a resolution from its queue and answers its peer.
processHodlQueue(i) ==
    /\ queue[i] # "none" /\ link[i] = "waiting"
    /\ Answer(i, queue[i])
    /\ queue' = [queue EXCEPT ![i] = "none"]
    /\ UNCHANGED <<amt, database, lock, subs, timers, releasing, expiry>>

\* What a restarted link hands over again: every HTLC not yet answered.
Replayed == [i \in Keys |-> IF link[i] = "waiting" THEN "new" ELSE link[i]]

\* The link stops and starts again: HodlUnsubscribeAll, and a replay.
LinkRestart ==
    /\ lock = None /\ subs # {}
    /\ link' = Replayed /\ subs' = {} /\ queue' = [i \in Keys |-> "none"]
    /\ UNCHANGED <<amt, database, lock, timers, releasing, expiry>>

\* Mutant: the pending invoices are not given back to the expiry watcher.
scanInvoicesOnStart_Nothing == {}

\* What a restarted node gives back to the expiry watcher.
scanInvoicesOnStart ==
    CASE invoice = "open" -> {"ts"} [] invoice = "accepted" -> {"height"} [] OTHER -> {}

\* The node restarts with what is in the database and in its channel.
ReceiverRestart ==
    /\ link' = Replayed /\ subs' = {} /\ queue' = [i \in Keys |-> "none"]
    /\ lock' = None /\ timers' = {} /\ releasing' = None
    /\ expiry' = scanInvoicesOnStart
    /\ UNCHANGED <<amt, database>>

-----------------------------------------------------------------------------
(* Properties *)

\* The receiver is paid in whole or not at all: once it answers one HTLC with
\* the preimage, the HTLCs settled on the invoice cover its amount and none of
\* the set is left behind (update.go updateMpp).
WholeSetSettled ==
    (\E i \in Keys : link[i] = "settled" \/ htlcs[i] = "settled")
        => /\ invoice = "settled" /\ Accepted = {}
           /\ Total({i \in Keys : htlcs[i] = "settled"}) >= Value

\* What the link told its peer is what the database says of the HTLC, also
\* after timers, cancellations, replays and restarts: no HTLC recorded as paid
\* is handed back, none is claimed that is not recorded.
ResolutionsAgree ==
    \A i \in Keys :
        /\ link[i] = "settled" => htlcs[i] = "settled"
        /\ link[i] = "failed" => htlcs[i] \in {"none", "canceled"}

\* The registry has decided on an HTLC, the link still holds it and nothing is
\* under way to tell it: the timer fired, without the registry's lock, between
\* the update and the subscription of a replay.
Orphaned(i) ==
    /\ link[i] = "waiting" /\ htlcs[i] \in {"settled", "canceled"}
    /\ queue[i] = "none" /\ releasing # i

\* The registry holds no HTLC for ever: again and again all are answered, by
\* the set's completion, a timer, the invoice's expiry or a replay, except the
\* orphaned ones.
HtlcReleased ==
    []<>(\A i \in Keys : link[i] \in {"new", "waiting"} => Orphaned(i))
=============================================================================
