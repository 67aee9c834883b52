------------------------------ MODULE SuiClose ------------------------------
(***************************************************************************)
(* The node's side of a force close on Sui: which payload the two ends     *)
(* sign for a commitment (lnwallet), which one the channel arbitrator      *)
(* later publishes, and the contract of SuiChannel that recomputes the     *)
(* hash the signature must cover.  The other calls are SuiChannel's.       *)
(***************************************************************************)
EXTENDS SuiChannel

CONSTANT FixedHash \* the literal revocation hash of lnwallet/channel.go

VARIABLE rejected  \* parties whose force_close the contract aborted

closeVars == <<vars, rejected>>

\* The revocation hash in the payload the peer signs for a commitment of p: at
\* funding the hash of the commitment's own revocation key ...
FundingHash(p) == <<p, 0>>

\* ... and in SignNextCommitment and ReceiveNewCommitment one fixed value.
SignedHash(p, n) == IF n = 0 THEN FundingHash(p) ELSE FixedHash

\* The one in the payload the channel arbitrator builds for its local
\* commitment, from the key ring of that commitment's height.
PublishedHash(p, n) == <<p, n>>

CloseInit == Init /\ rejected = {}

\* The arbitrator force-closes with the newest commitment it holds.
Publish(p) ==
    IF SignedHash(p, held[p]) = PublishedHash(p, held[p])
    THEN force_close(p) /\ ch'.revocation_hash = <<p, held[p]>>
                        /\ UNCHANGED rejected
    ELSE /\ ch.status = "OPEN"
         /\ rejected' = rejected \cup {p}
         /\ UNCHANGED vars

CloseNext ==
    \/ /\ \/ Tick \/ open_channel \/ close_channel \/ penalize
          \/ \E p \in Parties : \/ NextCommitment(p) \/ Revoke(p)
                                \/ claim_force_close(p)
          \/ \E h \in HTLCs : htlc_claim(h) \/ htlc_timeout(h)
       /\ UNCHANGED rejected
    \/ \E p \in Parties : Publish(p)

CloseSpec == CloseInit /\ [][CloseNext]_closeVars

-----------------------------------------------------------------------------
\* The arbitrator's comment says that both peers and the force-close
\* broadcaster hash the same BCS payload: the contract then accepts the
\* commitment a node holds whenever its arbitrator publishes it.
CloseAccepted == rejected = {}
=============================================================================
