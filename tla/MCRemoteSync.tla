---------------------------- MODULE MCRemoteSync ----------------------------
(* Instances of RemoteSync for TLC. *)
EXTENDS RemoteSync

OneSync == {1}
TwoSyncs == {1, 2}
=============================================================================
