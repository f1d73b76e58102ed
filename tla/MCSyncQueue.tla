---------------------------- MODULE MCSyncQueue ----------------------------
(* Instances of SyncQueue for TLC. *)
EXTENDS SyncQueue

\* A manual sync refreshes the local catalog, the others only pull.
ThreeAsks == {"manual", "peer-notify", "peer-state"}
OnlyManual == [a \in Asks |-> a = "manual"]
=============================================================================
