----------------------------- MODULE MCSuiClose -----------------------------
(* The commitments of MCSuiChannel, published by the two arbitrators. *)
EXTENDS MCSuiChannel, SuiClose

MCFixedHash == <<NoBroadcaster, 1>>
=============================================================================
