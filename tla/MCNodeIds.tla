----------------------------- MODULE MCNodeIds -----------------------------
(* Instances of NodeIds for TLC. *)
EXTENDS NodeIds, TLC

CONSTANTS n1, n2, i1, i2, c1, c2

TwoNodes == {n1, n2}
NoNodes == {}
JustOne == {n1}
\* PEERS is empty, or lists n1: under its name, or under a reserved one.
NoList == [name \in {} |-> n1]
BobListed == [name \in {"bob"} |-> n1]
UnknownListed == [name \in {"unknown"} |-> n1]
\* Both nodes have the same name; it is that of the route to this node.
SameName == [n \in Nodes |-> "bob"]
LocalName == [n \in Nodes |-> "local"]
LocalReserved == {"local"}
AllReserved == {"local", "unknown"}
OneCall == {c1}
TwoCalls == {c1, c2}
OneInvite == {i1}
TwoInvites == {i1, i2}

\* Handlers and invites are alike; the names and PEERS tell nodes apart.
Alike == Permutations(TwoCalls) \cup Permutations(TwoInvites)
=============================================================================
