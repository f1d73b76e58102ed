---------------------------- MODULE MCPeerPull ----------------------------
(* Instances of PeerPull for TLC. *)
EXTENDS PeerPullInv
CONSTANTS v1, v2

TwoItems == {1, 2}
ThreeItems == {1, 2, 3}
OneVal == {v1}
TwoVals == {v1, v2}

Without(S) == \A g \in S : rows[g] = NoRow /\ mirror[g] = Absent
WithoutChange(S) == \A g \in S : rows[g].val # v2 /\ mirror[g].val # v2

\* Bound: two disruptions, or one and a loss of the database; the contents of
\* the first item change while there are two, in one epoch; three items occur
\* in one epoch of two revisions.
Affordable ==
    /\ epoch + disruptions =< 3
    /\ Without(Items \ TwoItems) \/ (epoch = 1 /\ head =< 2)
    /\ \/ WithoutChange(Items)
       \/ WithoutChange(Items \ {1}) /\ Without(Items \ TwoItems) /\ epoch = 1
=============================================================================
