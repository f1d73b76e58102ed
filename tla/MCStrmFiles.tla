---------------------------- MODULE MCStrmFiles ----------------------------
(* Instances of StrmFiles for TLC. *)
EXTENDS StrmFiles

OneItem == {1}
TwoItems == {1, 2}
ThreeItems == {1, 2, 3}
OnePeer == {1}
TwoPeers == {1, 2}

\* Every item is hidden by a key of its own.
OwnKey == [g \in Items |-> g]
\* A series root (1) and the episodes of it.
SeriesKey == [g \in Items |-> 1]
EpisodesOnly == Items \ {1}

\* With and without a folder the user may exclude.
AnyOffer == {"none", "plain", "foldered"}
PlainOffer == {"none", "plain"}

\* Every peer and item has a path of its own; two items share one per peer.
OwnPaths == Peers \X Items
OwnPathOf == [pg \in Peers \X Items |-> pg]
SharedPaths == Peers
SharedPathOf == [pg \in Peers \X Items |-> pg[1]]
=============================================================================
