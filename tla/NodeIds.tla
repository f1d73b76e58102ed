------------------------------ MODULE NodeIds ------------------------------
(***************************************************************************)
(* The ids a node gives to others: to the peers it pulls from              *)
(* (internal/peers/ids.go and http.go) and to the clients that redeemed    *)
(* its invites (internal/peerauth/store.go).  The two sets of ids are one  *)
(* namespace, each guarded by a lock of its own.  A handler first picks an *)
(* id and later stores it; handlers overlap.                               *)
(*                                                                         *)
(* A node stands for its key and, while it is reached by URL, its address. *)
(* An id is a name with a number, 0 for the plain name, or the UUID given  *)
(* to a node that reports no name; such a node is not added twice.  Tables *)
(* and memory change together here: of what is written in two parts, a     *)
(* peer is the subject of PeerHealth, and an invite is useless until both  *)
(* are done.                                                               *)
(***************************************************************************)
EXTENDS Naturals, FiniteSets

CONSTANTS
    Nodes,      \* other nodes
    NameOf,     \* the name each reports (NODE_ID)
    Nameless,   \* nodes whose build is too old to report it, at first
    Configured, \* PEERS: the node listed for an id, which is a plain name
    Reserved,   \* names that are no ids: reservedIDs
    Invites,    \* invites this node may issue
    Calls,      \* handlers that may be under way at once
    Nobody,     \* no node
    NoId,       \* no id
    MaxNumber,  \* bound: the largest number of an id
    MaxCalls    \* bound: calls of handlers

Listed == DOMAIN Configured
Names == {NameOf[n] : n \in Nodes} \cup Listed

ASSUME NodesAssumption ==
    /\ Nameless \subseteq Nodes
    /\ Configured \in [Listed -> Nodes]
    /\ Nobody \notin Nodes
    /\ IsFiniteSet(Nodes) /\ IsFiniteSet(Listed) /\ IsFiniteSet(Calls)
    /\ "uuid" \notin Names \cup Reserved                \* a UUID is no name
    /\ MaxNumber \in Nat /\ MaxCalls \in 0..MaxNumber    \* numbers do not run out

VARIABLES
    peers,      \* Registry.peers
    clients,    \* Store.clients: the id of the client with each node's key
    invites,    \* Store.invites
    calls,      \* handlers between picking an id and storing it
    nameless,   \* nodes that still report no name
    started,    \* counts what MaxCalls bounds
    spentBy     \* history: the nodes an invite has authorized

vars == <<peers, clients, invites, calls, nameless, started, spentBy>>

Uuids == {"uuid"} \X Nodes
Ids == (Names \X (0..MaxNumber)) \cup Uuids

NoPeer == [node |-> Nobody, pinned |-> FALSE, named |-> FALSE, url |-> "http"]
NoCall == [kind |-> "none", node |-> Nobody, id |-> NoId, invite |-> NoId]

\* Mutant of Seeded: INSERT OR REPLACE.
SeededReplacing(table) ==
    [id \in Ids |-> IF id \in Listed \X {0}
                    THEN [NoPeer EXCEPT !.node = Configured[id[1]]] ELSE table[id]]

\* NewRegistry puts what PEERS lists in the table: a row that is there gets
\* the URL of the list and keeps the rest, its key included.  With a key it
\* stays the node's that has it.
Seeded(table) ==
    [id \in Ids |->
        LET old == table[id]
            node == IF old.pinned THEN old.node ELSE Configured[id[1]]
        IN  IF id \in Listed \X {0}
            THEN [old EXCEPT !.url = "http", !.node = node,
                             !.named = @ /\ node = old.node]
            ELSE old]

Init ==
    /\ peers = Seeded([id \in Ids |-> NoPeer])
    /\ clients = [n \in Nodes |-> NoId]
    /\ invites = [i \in Invites |-> "none"]
    /\ calls = [c \in Calls |-> NoCall]
    /\ nameless = Nameless
    /\ started = 0
    /\ spentBy = [i \in Invites |-> {}]

---------------------------------------------------------------------------
\* Picking an id.

ClientIds == {clients[n] : n \in Nodes} \ {NoId}
PeerIds == {id \in Ids : peers[id].node # Nobody}

\* takenLocked.
Taken == PeerIds \cup ClientIds

\* Mutant of Free: reserved names are not looked at.
FreeUnreserved(id, taken) == id \notin taken

Free(id, taken) == id \notin taken /\ ~(id[1] \in Reserved /\ id[2] = 0)

\* idFor: the name, or the name with the first number that is free.
IdFor(name, taken) ==
    CHOOSE id \in {name} \X (0..MaxNumber) :
        /\ Free(id, taken)
        /\ \A k \in 0..(id[2] - 1) : ~Free(<<name, k>>, taken)

PinnedAt(n) == {id \in Ids : peers[id].node = n /\ peers[id].pinned}

\* A legacy peer that has become known under the name, or has it as its id.
LegacyNamed(name) ==
    {id \in PeerIds : /\ ~peers[id].pinned
                      /\ \/ peers[id].named /\ NameOf[peers[id].node] = name
                         \/ id = <<name, 0>>}

\* AddHandler, by URL.
IdsForUrl(n) ==
    IF n \in nameless THEN {<<"uuid", n>>} ELSE {IdFor(NameOf[n], Taken)}

\* NewIDForPin.
NewIdForPin(n) ==
    IF clients[n] # NoId /\ clients[n] \notin PeerIds THEN clients[n]
    ELSE IdFor(NameOf[n], Taken)

\* idForRedeemed: re-pair, upgrade, or new.
IdsForRedeemed(n) ==
    IF PinnedAt(n) # {} THEN PinnedAt(n)
    ELSE IF LegacyNamed(NameOf[n]) # {} THEN LegacyNamed(NameOf[n])
    ELSE {NewIdForPin(n)}

\* ClientID.
IdsForClient(n) ==
    IF PinnedAt(n) # {} THEN PinnedAt(n) ELSE {IdFor(NameOf[n], Taken)}

Pick(kind, n, ids, invite) ==
    /\ started < MaxCalls
    /\ started' = started + 1
    /\ \E c \in Calls, id \in ids :
         /\ calls[c].kind = "none"
         /\ calls' = [calls EXCEPT ![c] =
                [kind |-> kind, node |-> n, id |-> id, invite |-> invite]]
    /\ UNCHANGED <<peers, clients, invites, nameless, spentBy>>

\* AddHandler.
AddByUrl ==
    \E n \in Nodes :
        /\ n \in nameless => peers[<<"uuid", n>>] = NoPeer
        /\ Pick("add", n, IdsForUrl(n), NoId)

\* RedeemHandler, the issuer having accepted.
RedeemInvite ==
    \E n \in Nodes \ nameless : Pick("redeem", n, IdsForRedeemed(n), NoId)

\* PairHandler, the caller having come with the key of a pending invite.
PairClient ==
    \E n \in Nodes \ nameless, i \in Invites :
        invites[i] = "pending" /\ Pick("pair", n, IdsForClient(n), i)

---------------------------------------------------------------------------
\* Storing it.

Returned(c) == calls' = [calls EXCEPT ![c] = NoCall]

\* AddPeer: what is there under the id is replaced.
StorePeer(c) ==
    /\ calls[c].kind \in {"add", "redeem"}
    /\ peers' = [peers EXCEPT ![calls[c].id] =
           [node |-> calls[c].node, pinned |-> calls[c].kind = "redeem",
            named |-> calls[c].kind = "redeem" \/ calls[c].id \notin Uuids,
            url |-> IF calls[c].kind = "redeem" THEN "https" ELSE "http"]]
    /\ Returned(c)
    /\ UNCHANGED <<clients, invites, nameless, started, spentBy>>

\* Mutants of Redeemable: the invite was valid when the call began; an id
\* that was free then is free.
RedeemableOnce(c) ==
    clients[calls[c].node] # NoId \/ calls[c].id \notin ClientIds
RedeemableAnyId(c) == invites[calls[c].invite] = "pending"

\* The checks of Redeem: the invite is still there, and the id is not a
\* client's, unless the caller is one already.
Redeemable(c) ==
    /\ invites[calls[c].invite] = "pending"
    /\ clients[calls[c].node] # NoId \/ calls[c].id \notin ClientIds

\* Redeem.  A client keeps its id.
StoreClient(c) ==
    /\ calls[c].kind = "pair"
    /\ LET n == calls[c].node
           i == calls[c].invite IN
       IF Redeemable(c)
       THEN /\ invites' = [invites EXCEPT ![i] = "gone"]
            /\ clients' = [clients EXCEPT ![n] = IF @ = NoId THEN calls[c].id ELSE @]
            /\ spentBy' = [spentBy EXCEPT ![i] = @ \cup {n}]
       ELSE UNCHANGED <<invites, clients, spentBy>>
    /\ Returned(c)
    /\ UNCHANGED <<peers, nameless, started>>

\* The call fails before it has stored anything.
CallFails(c) ==
    /\ calls[c].kind # "none"
    /\ Returned(c)
    /\ UNCHANGED <<peers, clients, invites, nameless, started, spentBy>>

---------------------------------------------------------------------------
\* What else changes peers, clients and invites.

CreateInvite ==
    /\ \E i \in Invites :
         invites[i] = "none" /\ invites' = [invites EXCEPT ![i] = "pending"]
    /\ UNCHANGED <<peers, clients, calls, nameless, started, spentBy>>

\* CancelInvite, or the invite expires.
InviteEnds ==
    /\ \E i \in Invites :
         invites[i] = "pending" /\ invites' = [invites EXCEPT ![i] = "gone"]
    /\ UNCHANGED <<peers, clients, calls, nameless, started, spentBy>>

RemovePeer ==
    /\ \E id \in PeerIds : peers' = [peers EXCEPT ![id] = NoPeer]
    /\ UNCHANGED <<clients, invites, calls, nameless, started, spentBy>>

Revoke ==
    /\ \E n \in Nodes : clients[n] # NoId /\ clients' = [clients EXCEPT ![n] = NoId]
    /\ UNCHANGED <<peers, invites, calls, nameless, started, spentBy>>

\* A heartbeat learns a node's name, which has a build that reports it.
NameLearned ==
    /\ \E n \in Nodes :
         /\ nameless' = nameless \ {n}
         /\ peers' = [id \in Ids |->
                IF peers[id].node = n THEN [peers[id] EXCEPT !.named = TRUE]
                ELSE peers[id]]
    /\ <<nameless, peers>>' # <<nameless, peers>>
    /\ UNCHANGED <<clients, invites, calls, started, spentBy>>

\* Peers of a table whose UUID gives way to their name, now known.
KnownIn(table) == {id \in Ids : table[id].node # Nobody}
Renamed(table) == {id \in Uuids \cap KnownIn(table) : table[id].named}

\* Mutant of NewName: taken[newID] is not set.
NewNameOfRows(table, id, given) == IdFor(NameOf[table[id].node], KnownIn(table))

\* A name that no peer of the table has, nor one renamed before: clients are
\* not looked at.
NewName(table, id, given) == IdFor(NameOf[table[id].node], KnownIn(table) \cup given)

\* The ids migrateUUIDIDs may give, one peer after the other.  Their order is
\* that of the table's rows, which the model does not keep: any is possible.
Renames(table) ==
    {new \in [Renamed(table) -> Ids] :
        \E turn \in [Renamed(table) -> 1..Cardinality(Renamed(table))] :
            /\ \A a, b \in Renamed(table) : turn[a] = turn[b] => a = b
            /\ \A id \in Renamed(table) :
                  LET before == {a \in Renamed(table) : turn[a] < turn[id]}
                  IN  new[id] = NewName(table, id, {new[a] : a \in before})}

\* The renaming of the rows, in one transaction.
Migrated(table, new) ==
    [id \in Ids |->
        LET from == {old \in DOMAIN new : new[old] = id} IN
        IF from # {} THEN table[CHOOSE old \in from : TRUE]
        ELSE IF id \in DOMAIN new THEN NoPeer
        ELSE table[id]]

\* NewRegistry.
Restart ==
    /\ UNCHANGED <<clients, invites, nameless, started, spentBy>>
    /\ calls' = [c \in Calls |-> NoCall]
    /\ \E new \in Renames(Seeded(peers)) : peers' = Migrated(Seeded(peers), new)

Next ==
    \/ AddByUrl \/ RedeemInvite \/ PairClient
    \/ \E c \in Calls : StorePeer(c) \/ StoreClient(c) \/ CallFails(c)
    \/ CreateInvite \/ InviteEnds \/ RemovePeer \/ Revoke \/ NameLearned \/ Restart

Spec == Init /\ [][Next]_vars

---------------------------------------------------------------------------
\* Properties.

\* Type correctness; no node is given a reserved name for its id: only PEERS
\* can bring one in.
TypeOK ==
    /\ peers \in [Ids -> [node : Nodes \cup {Nobody}, pinned : BOOLEAN, named : BOOLEAN,
                        url : {"http", "https"}]]
    /\ clients \in [Nodes -> Ids \cup {NoId}]
    /\ invites \in [Invites -> {"none", "pending", "gone"}]
    /\ calls \in [Calls ->
           [kind : {"none", "add", "redeem", "pair"}, node : Nodes \cup {Nobody},
            id : Ids \cup {NoId}, invite : Invites \cup {NoId}]]
    /\ \A name \in Reserved \ Listed : <<name, 0>> \notin PeerIds \cup ClientIds

\* However pairings overlap, no two clients have the same id: a request is
\* known by it, and so is the client to revoke.
ClientIdsDiffer ==
    \A m, n \in Nodes : clients[m] = clients[n] /\ m # n => clients[m] = NoId

\* An invite authorizes one node, whatever calls come with it at once.
InvitesAreSingleUse == \A i \in Invites : Cardinality(spentBy[i]) =< 1

\* A start leaves pairings alone: whatever PEERS lists, and however many peers
\* of one name are renamed at once, every paired node is paired as often as
\* before.
StartsKeepPairings ==
    [][Restart => \A n \in Nodes :
          Cardinality(PinnedAt(n)) = Cardinality({id \in Ids :
              peers'[id].node = n /\ peers'[id].pinned})]_vars

\* A paired peer is reached where it was paired (Transport dials paired peers
\* with mTLS, and the table, not PEERS, is the source of truth once the node
\* has booted: comments of NewRegistry and Transport).
PairedPeersKeepTheirUrl == \A id \in Ids : peers[id].pinned => peers[id].url = "https"

\* Peers and clients share one namespace: no id names two nodes, whose
\* traffic would be summed up.
NoIdForTwoNodes ==
    \A id \in Ids, n \in Nodes :
        clients[n] = id /\ peers[id] # NoPeer => peers[id].node = n

\* A node with whose key both a peer and a client are known has one id.
OneIdPerNode ==
    \A n \in Nodes : clients[n] # NoId => PinnedAt(n) \subseteq {clients[n]}

\* A peer does not take the id of another one, unless it is paired with and
\* the other, known by URL, has the same name.
PeersKeepTheirIds ==
    [][\A id \in Ids :
         LET old == peers[id]  new == peers'[id] IN
         old # NoPeer /\ new # NoPeer /\ new.node # old.node
             => ~old.pinned /\ new.pinned]_vars
=============================================================================
