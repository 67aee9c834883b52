-------------------------- MODULE MCCommitProtocol --------------------------
(***************************************************************************)
(* Instances of CommitProtocol for TLC.                                    *)
(***************************************************************************)
EXTENDS CommitProtocol

CONSTANTS alice, bob, p1, p2
=============================================================================
