---------------------------- MODULE MCPeerHealth ----------------------------
(* PeerHealth for TLC: all its constants are numbers and Booleans. *)
EXTENDS PeerHealth
=============================================================================
