------------------------------- MODULE Relay --------------------------------
(***************************************************************************)
(* What forwarding promises the two neighbours of a node, without links,   *)
(* mailboxes, circuits or crashes: each incoming HTLC is offered onwards   *)
(* at most once, and not any more once it was answered; its answer and the *)
(* outgoing peer's are final; and a settle is passed back only for an HTLC *)
(* that was offered.  HtlcForward implements it.                           *)
(***************************************************************************)
EXTENDS Naturals, Sequences, SequencesExt

CONSTANTS
    Htlcs,  \* the incoming HTLCs
    Ids,    \* the outgoing HTLC ids: the i-th HTLC offered has id i - 1
    none    \* no answer

VARIABLES
    received,   \* the incoming HTLCs that are locked in
    offered,    \* those signed for to the outgoing peer, in order
    outcome,    \* the outgoing peer's answer to each id, or none
    answered    \* the answer signed for to the incoming peer, or none

relayVars == <<received, offered, outcome, answered>>

RelayInit ==
    /\ received = {} /\ offered = <<>>
    /\ outcome = [i \in Ids |-> none]
    /\ answered = [k \in Htlcs |-> none]

Receive(k) ==
    /\ k \notin received /\ received' = received \cup {k}
    /\ UNCHANGED <<offered, outcome, answered>>

\* A batch of HTLCs is offered: none was offered before or is answered.
Offer ==
    /\ IsPrefix(offered, offered')
    /\ \A i \in 1 .. Len(offered') : \A j \in 1 .. Len(offered') :
          offered'[i] = offered'[j] => i = j
    /\ \A i \in Len(offered) + 1 .. Len(offered') :
          offered'[i] \in received /\ answered[offered'[i]] = none
    /\ UNCHANGED <<received, outcome, answered>>

\* The outgoing peer answers an HTLC it was offered.
Learn(i) ==
    /\ i < Len(offered) /\ outcome[i] = none
    /\ \E a \in {"settle", "fail"} : outcome' = [outcome EXCEPT ![i] = a]
    /\ UNCHANGED <<received, offered, answered>>

\* HTLCs that were not answered before are answered, with a settle only when
\* the outgoing peer may have revealed the preimage.
Answer ==
    /\ \A k \in Htlcs : answered'[k] # answered[k] =>
          /\ k \in received /\ answered[k] = none
          /\ answered'[k] = "fail" \/ \E i \in 1 .. Len(offered) : offered[i] = k
    /\ answered' \in [Htlcs -> {"settle", "fail", none}]
    /\ UNCHANGED <<received, offered, outcome>>

RelayNext == (\E k \in Htlcs : Receive(k)) \/ Offer \/ (\E i \in Ids : Learn(i)) \/ Answer

RelaySpec == RelayInit /\ [][RelayNext]_relayVars
=============================================================================
