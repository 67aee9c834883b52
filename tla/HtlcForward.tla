---------------------------- MODULE HtlcForward -----------------------------
(***************************************************************************)
(* Forwarding HTLCs from one channel to another through the switch         *)
(* (htlcswitch/switch.go): the incoming and the outgoing link (link.go),   *)
(* their mailboxes (mailbox.go), the circuit map (CircuitMap) and what the *)
(* two channels keep on disk.  Links come and go, the node may crash.      *)
(*                                                                         *)
(* What is on a signed commitment is on disk; the forwarding packages of   *)
(* both channels replay what has not been acknowledged.  The outgoing peer *)
(* is not trusted: it may fail an HTLC after it has revealed the preimage. *)
(***************************************************************************)
EXTENDS CircuitMap, SequencesExt

CONSTANTS
    MaxFlaps,       \* bound on how often links stop
    MaxRestarts     \* bound on how often the node restarts

VARIABLES
    \* on disk
    lockedIn,   \* incoming HTLCs, in forwarding packages
    addAcked,   \* AddRefs: those that need no replay
    answered,   \* the removal of each incoming HTLC that was signed, or none
    owed,       \* circuits the incoming channel's CommitDiff closes and that
                \* ackDownStreamPackets has not deleted
    sent,       \* incoming keys of the outgoing HTLCs that were signed
    resp,       \* the locked-in response to each outgoing HTLC, or none
    respAcked,  \* SettleFailRefs: responses that need no replay
    \* in memory
    inUp, outUp,        \* the links are running
    replay,     \* HTLCs the incoming link has to hand to the switch
    toClose,    \* responses that have to be handed to the switch
    adds,       \* the outgoing link's mailbox, and how many were delivered
    addHead,
    reps,       \* the incoming link's mailbox, and how many were delivered
    repHead,
    outLog,     \* HTLCs the outgoing link added since it last signed
    keystoned,  \* how many of them have their keystones written
    inLog,      \* responses the incoming link added since it last signed
    flaps, restarts

diskVars == <<lockedIn, addAcked, answered, owed, sent, resp, respAcked>>
inVars == <<inUp, replay, inLog>>
outVars == <<outUp, outLog, keystoned>>
boxVars == <<adds, addHead, reps, repHead>>
vars == <<cmVars, diskVars, inVars, outVars, boxVars, toClose, flaps, restarts>>

Answers == {"settle", "fail"}
ASSUME AnswerAssumption == none \notin Answers

\* A settle or fail packet; dest refers to the outgoing channel's response.
Rep(k, answer, dest) == [key |-> k, answer |-> answer, dest |-> dest]
Keys(reps1) == {reps1[i].key : i \in 1 .. Len(reps1)}
Sent(o) == sent[o + 1]
SentKeys == 0 .. Len(sent) - 1

Init ==
    /\ InitCircuits
    /\ lockedIn = {} /\ addAcked = {} /\ owed = {}
    /\ answered = [k \in InKeys |-> none]
    /\ sent = <<>> /\ resp = [o \in OutKeys |-> none] /\ respAcked = {}
    /\ inUp = TRUE /\ outUp = TRUE
    /\ replay = {} /\ toClose = {}
    /\ adds = <<>> /\ addHead = 0 /\ reps = <<>> /\ repHead = 0
    /\ outLog = <<>> /\ keystoned = 0 /\ inLog = <<>>
    /\ flaps = 0 /\ restarts = 0

\* The incoming link's event loop runs one handler at a time: one that signed
\* acks, one that processes adds hands them over before anything else.
InReady == inUp /\ owed = {} /\ replay = {}

-----------------------------------------------------------------------------
\* Mailboxes.  A packet stays until it is acked; the head runs ahead of acks.
HasPacket(k) == k \in Keys(reps)

\* AddPacket refuses a second response to the same HTLC.
Deliver(r) ==
    /\ reps' = IF HasPacket(r.key) THEN reps ELSE Append(reps, r)
    /\ UNCHANGED repHead

\* What is left of a mailbox once the packets of acked have gone.
Unacked(box, acked) ==
    LET left[i \in 0 .. Len(box)] ==
            IF i = 0 THEN <<>>
            ELSE IF box[i] \in acked THEN left[i - 1] ELSE Append(left[i - 1], box[i])
    IN  left[Len(box)]

AckReps(keys) ==
    LET acked == {r \in ToSet(reps) : r.key \in keys}
    IN  /\ reps' = Unacked(reps, acked)
        /\ repHead' = Len(Unacked(SubSeq(reps, 1, repHead), acked))

\* FailAdd of the next packet: it leaves the mailbox, and the switch returns a
\* failure unless a response was already found (closeCircuit, hasSource).
FailAdd ==
    LET k == adds[addHead + 1]
    IN  /\ adds' = Unacked(adds, {k}) /\ UNCHANGED addHead
        /\ IF Closable(k)
           THEN FailCircuit(k) /\ Deliver(Rep(k, "fail", none))
           ELSE UNCHANGED <<cmVars, reps, repHead>>

-----------------------------------------------------------------------------
\* A new HTLC is locked in on the incoming channel.
LockIn(k) ==
    /\ InReady /\ k \notin lockedIn
    /\ lockedIn' = lockedIn \cup {k} /\ replay' = replay \cup {k}
    /\ UNCHANGED <<cmVars, addAcked, answered, owed, sent, resp, respAcked,
                   inUp, inLog, outVars, boxVars, toClose, flaps, restarts>>

\* handlePacketAdd, on a new circuit: into the outgoing link's mailbox, or back
\* with a failure when no link is eligible or its policy refuses.
handlePacketAdd(k) ==
    \/ /\ outUp
       /\ adds' = Append(adds, k) /\ UNCHANGED <<addHead, reps, repHead>>
    \/ Deliver(Rep(k, "fail", none)) /\ UNCHANGED <<adds, addHead>>

\* forwardBatch and ForwardPackets for one HTLC.
ForwardPackets(k) ==
    /\ inUp /\ owed = {} /\ k \in replay
    /\ replay' = replay \ {k}
    /\ \/ /\ HasPacket(k) \/ Dropped(k)
          /\ UNCHANGED <<cmVars, boxVars>>
       \/ /\ ~ HasPacket(k) /\ Failed(k)
          /\ Deliver(Rep(k, "fail", none)) /\ UNCHANGED <<cmVars, adds, addHead>>
       \/ /\ ~ HasPacket(k)
          /\ CommitCircuits(k) /\ handlePacketAdd(k)
       \/ \* the circuits cannot be written: rolled back and failed
          /\ ~ HasPacket(k) /\ pending[k] = none
          /\ Deliver(Rep(k, "fail", none)) /\ UNCHANGED <<cmVars, adds, addHead>>
    /\ UNCHANGED <<diskVars, inUp, inLog, outVars, toClose, flaps, restarts>>

\* handleDownstreamUpdateAdd: the next packet of the mailbox is added to the
\* outgoing channel's log, or failed.
handleDownstreamUpdateAdd ==
    /\ outUp /\ addHead < Len(adds)
    /\ \/ /\ Len(sent) + Len(outLog) <= MaxHtlcs
          /\ outLog' = Append(outLog, adds[addHead + 1])
          /\ addHead' = addHead + 1
          /\ UNCHANGED <<cmVars, adds, reps, repHead>>
       \/ FailAdd /\ UNCHANGED outLog
    /\ UNCHANGED <<diskVars, inVars, outUp, keystoned, toClose, flaps, restarts>>

\* The mailbox's courier gives up on an add that no link has picked up.
ExpireAdd ==
    /\ addHead < Len(adds)
    /\ FailAdd
    /\ UNCHANGED <<diskVars, inVars, outVars, toClose, flaps, restarts>>

\* updateCommitTx of the outgoing link: keystones are written first, or the link
\* fails (StopOutgoing) ...
WriteKeystones ==
    /\ outUp /\ keystoned < Len(outLog)
    /\ OpenCircuits(SubSeq(outLog, keystoned + 1, Len(outLog)),
                    Len(sent) + keystoned)
    /\ keystoned' = Len(outLog)
    /\ UNCHANGED <<diskVars, inVars, outUp, outLog, boxVars, toClose, flaps,
                   restarts>>

\* Mutant: the packets stay in the mailbox.
SignOutgoing_Unacked ==
    /\ outUp /\ outLog # <<>> /\ keystoned = Len(outLog)
    /\ sent' = sent \o outLog
    /\ outLog' = <<>> /\ keystoned' = 0
    /\ UNCHANGED <<cmVars, lockedIn, addAcked, answered, owed, resp, respAcked,
                   inVars, outUp, boxVars, toClose, flaps, restarts>>

\* ... then, unless the revocation window is exhausted, the commitment is
\* signed and the packets are acked.
SignOutgoing ==
    /\ outUp /\ outLog # <<>> /\ keystoned = Len(outLog)
    /\ sent' = sent \o outLog
    /\ outLog' = <<>> /\ keystoned' = 0
    /\ adds' = Unacked(adds, ToSet(outLog))
    /\ addHead' = Len(Unacked(SubSeq(adds, 1, addHead), ToSet(outLog)))
    /\ UNCHANGED <<cmVars, lockedIn, addAcked, answered, owed, resp, respAcked,
                   inVars, outUp, reps, repHead, toClose, flaps, restarts>>

\* closeCircuit of a response of the peer: an unknown circuit means the
\* response was handled, and its reference is acked.
closeCircuit(o, answer, dest) ==
    LET k == opened[o]
    IN  \/ /\ k = none
           /\ respAcked' = respAcked \cup ({dest} \ {none})
           /\ UNCHANGED <<cmVars, boxVars>>
        \/ /\ k # none /\ k \in closed
           /\ UNCHANGED <<cmVars, boxVars, respAcked>>
        \/ /\ k # none /\ CloseCircuit(k)
           /\ Deliver(Rep(k, answer, dest)) /\ UNCHANGED <<adds, addHead, respAcked>>

\* UpdateFulfillHTLC is handed to the switch before it is locked in.
PipelineSettle(o) ==
    /\ outUp /\ o \in SentKeys /\ resp[o] = none
    /\ closeCircuit(o, "settle", none)
    /\ UNCHANGED <<lockedIn, addAcked, answered, owed, sent, resp, inVars,
                   outVars, toClose, flaps, restarts>>

\* A response of the peer is locked in and persisted.
LockInResponse(o, answer) ==
    /\ outUp /\ o \in SentKeys /\ resp[o] = none
    /\ resp' = [resp EXCEPT ![o] = answer] /\ toClose' = toClose \cup {o}
    /\ UNCHANGED <<cmVars, lockedIn, addAcked, answered, owed, sent, respAcked,
                   inVars, outVars, boxVars, flaps, restarts>>

\* processRemoteSettleFails, or the switch's reforwardResponses at start.
ForwardResponse(o) ==
    /\ o \in toClose
    /\ toClose' = toClose \ {o}
    /\ closeCircuit(o, resp[o], o)
    /\ UNCHANGED <<lockedIn, addAcked, answered, owed, sent, resp, inVars,
                   outVars, flaps, restarts>>

\* A response to an HTLC that was removed before: whatever would send it again
\* is acked.
cleanupSpuriousResponse(r) ==
    /\ addAcked' = addAcked \cup {r.key}
    /\ respAcked' = respAcked \cup ({r.dest} \ {none})
    /\ DeleteCircuits({r.key}) /\ AckReps({r.key})

\* The incoming link adds the next response of its mailbox to its log.
ProcessResponse ==
    LET r == reps[repHead + 1]
    IN  /\ InReady /\ repHead < Len(reps)
        /\ IF answered[r.key] = none
           THEN /\ inLog' = Append(inLog, r) /\ repHead' = repHead + 1
                /\ UNCHANGED <<cmVars, reps, addAcked, respAcked>>
           ELSE cleanupSpuriousResponse(r) /\ UNCHANGED inLog
        /\ UNCHANGED <<lockedIn, answered, owed, sent, resp, inUp, replay,
                       outVars, adds, addHead, toClose, flaps, restarts>>

\* updateCommitTx of the incoming link: the removals, the references they ack
\* and the circuits they close are written with the signature ...
SignIncoming ==
    /\ InReady /\ inLog # <<>>
    /\ answered' = [k \in InKeys |->
          IF k \in Keys(inLog)
          THEN (CHOOSE r \in ToSet(inLog) : r.key = k).answer
          ELSE answered[k]]
    /\ addAcked' = addAcked \cup Keys(inLog)
    /\ respAcked' = respAcked \cup ({r.dest : r \in ToSet(inLog)} \ {none})
    /\ owed' = Keys(inLog)
    /\ inLog' = <<>>
    /\ UNCHANGED <<cmVars, lockedIn, sent, resp, inUp, replay, outVars, boxVars,
                   toClose, flaps, restarts>>

\* ... then ackDownStreamPackets deletes the circuits, after a restart as well
\* (syncChanStates takes them from the CommitDiff).
ackDownStreamPackets ==
    /\ inUp /\ owed # {}
    /\ DeleteCircuits(owed) /\ AckReps(owed)
    /\ owed' = {}
    /\ UNCHANGED <<lockedIn, addAcked, answered, sent, resp, respAcked, inVars,
                   outVars, adds, addHead, toClose, flaps, restarts>>

-----------------------------------------------------------------------------
\* The incoming link stops: what is not signed is forgotten and the mailbox is
\* rewound.
StopIncoming ==
    /\ inUp /\ owed = {} /\ flaps < MaxFlaps
    /\ inUp' = FALSE /\ inLog' = <<>> /\ replay' = {} /\ repHead' = 0
    /\ flaps' = flaps + 1
    /\ UNCHANGED <<cmVars, diskVars, outVars, adds, addHead, reps, toClose,
                   restarts>>

\* routeAsync sees the link's quit: a circuit that was committed is not
\* routed, and the link stops.
StopWhileForwarding(k) ==
    /\ inUp /\ owed = {} /\ flaps < MaxFlaps
    /\ k \in replay /\ ~ HasPacket(k)
    /\ CommitCircuits(k)
    /\ inUp' = FALSE /\ inLog' = <<>> /\ replay' = {} /\ repHead' = 0
    /\ flaps' = flaps + 1
    /\ UNCHANGED <<diskVars, outVars, adds, addHead, reps, toClose, restarts>>

\* The link starts again and replays its forwarding packages.
StartIncoming ==
    /\ ~ inUp
    /\ inUp' = TRUE /\ replay' = lockedIn \ addAcked
    /\ UNCHANGED <<cmVars, diskVars, inLog, outVars, boxVars, toClose, flaps,
                   restarts>>

StopOutgoing ==
    /\ outUp /\ flaps < MaxFlaps
    /\ outUp' = FALSE /\ outLog' = <<>> /\ keystoned' = 0 /\ addHead' = 0
    /\ toClose' = {} /\ flaps' = flaps + 1
    /\ UNCHANGED <<cmVars, diskVars, inVars, adds, reps, repHead, restarts>>

\* Mutant: keystones of HTLCs that were not signed are left in place.
StartOutgoing_NoTrim ==
    /\ ~ outUp
    /\ outUp' = TRUE
    /\ toClose' = {o \in SentKeys : resp[o] # none} \ respAcked
    /\ UNCHANGED <<cmVars, diskVars, inVars, outLog, keystoned, boxVars, flaps,
                   restarts>>

\* Mutant: locked-in responses are not replayed.
StartOutgoing_NoReplay ==
    /\ ~ outUp
    /\ TrimOpenCircuits(Len(sent))
    /\ outUp' = TRUE
    /\ UNCHANGED <<diskVars, inVars, outLog, keystoned, boxVars, toClose, flaps,
                   restarts>>

\* The link reverts keystones that did not make it into a commitment and
\* replays the responses in its forwarding packages.
StartOutgoing ==
    /\ ~ outUp
    /\ TrimOpenCircuits(Len(sent))
    /\ outUp' = TRUE
    /\ toClose' = {o \in SentKeys : resp[o] # none} \ respAcked
    /\ UNCHANGED <<diskVars, inVars, outLog, keystoned, boxVars, flaps, restarts>>

\* The node crashes and starts again, without its links.
Restart ==
    /\ restarts < MaxRestarts
    /\ NewCircuitMap(Len(sent))
    /\ inUp' = FALSE /\ outUp' = FALSE /\ replay' = {}
    /\ toClose' = {o \in SentKeys : resp[o] # none} \ respAcked
    /\ adds' = <<>> /\ addHead' = 0 /\ reps' = <<>> /\ repHead' = 0
    /\ outLog' = <<>> /\ keystoned' = 0 /\ inLog' = <<>>
    /\ restarts' = restarts + 1
    /\ UNCHANGED <<diskVars, flaps>>

Next ==
    \/ \E k \in InKeys : LockIn(k) \/ ForwardPackets(k) \/ StopWhileForwarding(k)
    \/ \E o \in SentKeys : \/ PipelineSettle(o) \/ ForwardResponse(o)
                           \/ \E a \in Answers : LockInResponse(o, a)
    \/ handleDownstreamUpdateAdd \/ ExpireAdd \/ WriteKeystones \/ SignOutgoing
    \/ ProcessResponse \/ SignIncoming \/ ackDownStreamPackets
    \/ StopIncoming \/ StartIncoming \/ StopOutgoing \/ StartOutgoing \/ Restart

\* Links are started again, deliver what is in their mailboxes and sign, and
\* the switch handles what it is given.  Peers need not respond.
Fairness ==
    /\ \A k \in InKeys : WF_vars(ForwardPackets(k))
    /\ \A o \in OutKeys : WF_vars(o \in SentKeys /\ ForwardResponse(o))
    /\ WF_vars(ProcessResponse) /\ WF_vars(SignIncoming)
    /\ WF_vars(ackDownStreamPackets)
    /\ WF_vars(StartIncoming) /\ WF_vars(StartOutgoing)

Spec == Init /\ [][Next]_vars
FairSpec == Spec /\ Fairness

-----------------------------------------------------------------------------
Reps == [key : InKeys, answer : Answers, dest : OutKeys \cup {none}]

\* Types, and that mailboxes and logs are consistent with their counters.
TypeOK ==
    /\ CircuitsOK
    /\ lockedIn \subseteq InKeys /\ addAcked \subseteq lockedIn
    /\ answered \in [InKeys -> Answers \cup {none}] /\ owed \subseteq InKeys
    /\ sent \in Seq(InKeys) /\ resp \in [OutKeys -> Answers \cup {none}]
    /\ respAcked \subseteq OutKeys
    /\ adds \in Seq(InKeys) /\ addHead \in 0 .. Len(adds)
    /\ reps \in Seq(Reps) /\ repHead \in 0 .. Len(reps)
    /\ inLog \in Seq(Reps)
    /\ outLog \in Seq(InKeys) /\ keystoned \in 0 .. Len(outLog)

\* An incoming HTLC is offered to the outgoing peer at most once, over any
\* number of replays: twice would pay the peer twice for one payment.
ForwardedOnce ==
    \A o, p \in SentKeys : Sent(o) = Sent(p) => o = p

\* An incoming HTLC is failed back only when no outgoing HTLC was offered for
\* it or the peer's failure of that one is locked in: otherwise the node could
\* pay out without being paid.
FailedMeansFailed ==
    \A o \in SentKeys : answered[Sent(o)] = "fail" => resp[o] = "fail"

\* The keystones of HTLCs that are not signed have consecutive ids, as
\* TrimOpenCircuits takes for granted.  An add that expires in the mailbox
\* after its keystone was written takes it out of the middle.
Gapless ==
    \A o \in OutKeys : o >= Len(sent) /\ opened[o] # none =>
        \A p \in Len(sent) .. o : opened[p] # none

\* As long as trimming finds every keystone it is meant to revert, no incoming
\* HTLC is failed back while the outgoing one may still be claimed: packets
\* that CommitCircuits drops are in a mailbox, those it fails were never sent.
FailsSafely == []Gapless => []FailedMeansFailed

\* While an offered HTLC is outstanding, the disk holds what is needed to find
\* its incoming HTLC when the response arrives, whenever the node crashes.
ResponseRoutable ==
    \A o \in SentKeys : answered[Sent(o)] = none =>
        Sent(o) \in circuitBkt /\ keystoneBkt[o] = Sent(o)

\* OpenCircuits never meets ErrDuplicateKeystone or ErrUnknownCircuit, which
\* would fail the link: reused ids were trimmed, circuits outlive their adds.
KeystonesFresh ==
    []Gapless => [](outUp => Openable(SubSeq(outLog, keystoned + 1, Len(outLog)),
                                      Len(sent) + keystoned))

\* A preimage that is locked in on the outgoing channel settles the incoming
\* HTLC, whatever stops or crashes on the way.
SettlePropagates ==
    []Gapless => \A o \in OutKeys, k \in InKeys :
        (o \in SentKeys /\ resp[o] = "settle" /\ Sent(o) = k) ~> answered[k] = "settle"

\* Circuits do not leak: once the incoming HTLC is removed its circuit goes
\* away on disk as well, and the response is not replayed forever.
CircuitsCollected ==
    \A k \in InKeys : answered[k] # none ~> k \notin circuitBkt

Rly == INSTANCE Relay WITH Htlcs <- InKeys, Ids <- OutKeys, received <- lockedIn,
                           offered <- sent, outcome <- resp

\* The node relays: over any number of replays, stops and crashes, gaps among
\* the keystones included, it does not offer an HTLC twice, or after it has
\* answered it, takes no answer back and settles nothing it has not offered.
ImplementsRelay == Rly!RelaySpec
=============================================================================
