------------------------------ MODULE MCTraffic ------------------------------
(* Traffic for TLC: a peer added without a name and later renamed, one     *)
(* whose name is not its id, or two nodes of one NODE_ID, of which the      *)
(* second got a suffix.                                                     *)
EXTENDS Traffic

OneName == [p \in Peers |-> CHOOSE name \in Names : TRUE]
=============================================================================
