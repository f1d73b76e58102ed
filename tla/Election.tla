----------------------------- MODULE Election -----------------------------
(***************************************************************************)
(* catalog.Sync on one node: re-read the local library, pull the online    *)
(* peers into their mirrors, prune what removed peers left, elect one      *)
(* owner per item and write the outcome to catalog_items.  While a cycle   *)
(* runs the user may hide items, exclude folders, add and remove peers,    *)
(* peers may come and go, and libraries change.                            *)
(*                                                                         *)
(* Abstractions.  A pull is one step that copies what the peer offers (how *)
(* it does so is PeerPull's subject), or some of it when it fails.  Peer   *)
(* health is what Peer.State and Peer.Offering say at a moment.  Of an     *)
(* item's path only "under the folder the user may exclude" is kept.       *)
(* hidden_items keys are given by Key: an episode's key is its series'.    *)
(***************************************************************************)
EXTENDS LocalLibrary

CONSTANTS
    Peers,       \* peer ids, ordered
    Offer,       \* what a peer may offer of an item: see OfferAssumption
    NoPath,      \* strm_path is NULL
    MaxChanges,  \* bound: changes by the user, peers and libraries
    MaxFaults    \* bound: failed operations and crashes

ASSUME PeersAssumption == Peers \subseteq Nat \ {0} /\ IsFiniteSet(Peers)
\* Nothing, a path outside, or a path under the folder the user may exclude.
ASSUME OfferAssumption == "none" \in Offer /\ Offer \subseteq {"none", "plain", "foldered"}
ASSUME CycleBoundsAssumption == MaxChanges \in Nat /\ MaxFaults \in Nat

VARIABLES
    lib,        \* items in the node's own library
    orphans,    \* items Jellyfin still lists though their library is removed
    scanned,    \* items Jellyfin has found in the node's output directory
    remote,     \* what each peer offers
    known,      \* peers in the registry
    health,     \* "online", "blip" (recently online) or "gone"
    hides,      \* table hidden_items
    excluded,   \* peers with an excluded folder (peer_excluded_folders)
    indexed,    \* a refresh has succeeded (setting catalog_indexed_at)
    local,      \* table local_catalog: "absent", "shown" or "hidden"
    mirror,     \* table peer_catalog
    catalog,    \* table catalog_items
    phase,      \* where the cycle is
    listed,     \* the registry as Sync listed it
    todo,       \* online peers not pulled yet
    elected,    \* elect's result: desired rows and offered keys
    changes, faults \* count what the bounds bound

\* What Jellyfin lists.
jellyfin == <<lib, orphans, scanned>>
world == <<jellyfin, remote, known, health>>
settings == <<hides, excluded>>
tables == <<indexed, local, mirror, catalog>>
cycle == <<phase, listed, todo, elected>>
bounds == <<changes, faults>>

NoPeer == 0
Keys == {Key[g] : g \in Items}
NoOffers == [g \in Items |-> "none"]
NoRow == [present |-> FALSE, local |-> FALSE, peer |-> NoPeer,
          hidden |-> FALSE, folder |-> FALSE, strm |-> NoPath]
NoListing == [all |-> {}, offering |-> {}]
NotElected == [desired |-> [g \in Items |-> NoRow], offered |-> {}]

ElectionInit ==
    /\ lib \in SUBSET Items
    /\ orphans = {}
    /\ scanned = {}
    /\ remote \in [Peers -> [Items -> Offer]]
    /\ known = Peers
    /\ health = [p \in Peers |-> "online"]
    /\ hides = {}
    /\ excluded = {}
    /\ indexed = FALSE
    /\ local = [g \in Items |-> "absent"]
    /\ mirror = [p \in Peers |-> NoOffers]
    /\ catalog = [g \in Items |-> NoRow]
    /\ phase = "idle"
    /\ listed = NoListing
    /\ todo = {}
    /\ elected = NotElected
    /\ changes = 0
    /\ faults = 0

Changing == changes < MaxChanges /\ changes' = changes + 1 /\ UNCHANGED faults
Failing == faults < MaxFaults /\ faults' = faults + 1 /\ UNCHANGED changes

---------------------------------------------------------------------------
\* Sync.

\* Index.Refresh; hidden items stay in the index, flagged.
RefreshFrom(entries) ==
    /\ phase = "idle"
    /\ indexed' = TRUE
    /\ local' = [g \in Items |-> IF g \notin entries THEN "absent"
                                 ELSE IF Key[g] \in hides THEN "hidden"
                                 ELSE "shown"]
    /\ phase' = "list"
    /\ UNCHANGED <<world, settings, mirror, catalog, listed, todo, elected>>

RefreshLocal ==
    /\ RefreshFrom(LocalEntries(Listing(lib, scanned, orphans), TRUE))
    /\ UNCHANGED bounds

\* Jellyfin lists its items but fails to list its libraries.
RefreshWithoutRoots ==
    /\ orphans # {}
    /\ RefreshFrom(LocalEntries(Listing(lib, scanned, orphans), FALSE))
    /\ Failing

\* A pull-only run keeps the index, if there is one (EnsureIndexed).
KeepLocal ==
    /\ phase = "idle"
    /\ indexed
    /\ phase' = "list"
    /\ UNCHANGED <<world, settings, tables, listed, todo, elected, bounds>>

\* The registry is listed once, before the pulls.
ListPeers ==
    /\ phase = "list"
    /\ listed' = [all |-> known, offering |-> {p \in known : health[p] # "gone"}]
    /\ todo' = {p \in known : health[p] = "online"}
    /\ phase' = "pull"
    /\ UNCHANGED <<world, settings, tables, elected, bounds>>

\* One of the concurrent pulls, carried out.
PullPeer(p) ==
    /\ phase = "pull"
    /\ p \in todo
    /\ mirror' = [mirror EXCEPT ![p] = remote[p]]
    /\ todo' = todo \ {p}
    /\ UNCHANGED <<world, settings, indexed, local, catalog, phase, listed, elected, bounds>>

\* A pull that fails has copied any part of it; the cycle goes on.
PullPeerFails(p) ==
    /\ phase = "pull"
    /\ p \in todo
    /\ Failing
    /\ \E done \in SUBSET Items :
           mirror' = [mirror EXCEPT ![p] =
                         [g \in Items |-> IF g \in done THEN remote[p][g] ELSE @[g]]]
    /\ todo' = todo \ {p}
    /\ UNCHANGED <<world, settings, indexed, local, catalog, phase, listed, elected>>

\* pruneRemovedPeers, against the listing.
Prune ==
    /\ phase = "pull"
    /\ todo = {}
    /\ mirror' = [p \in Peers |-> IF p \in listed.all THEN mirror[p] ELSE NoOffers]
    /\ excluded' = excluded \cap listed.all
    /\ phase' = "elect"
    /\ UNCHANGED <<world, hides, indexed, local, catalog, listed, todo, elected, bounds>>

\* The offering peers whose mirror has the item.
Offers(g) == {p \in listed.offering : mirror[p][g] # "none"}

\* Those whose offer is not under a folder excluded for them.
OpenOffers(g) ==
    {p \in Offers(g) : ~(p \in excluded /\ mirror[p][g] = "foldered")}

\* elect: local wins, then the smallest peer id; if all offers are excluded
\* the first is kept, hidden by folder.
DesiredRow(g) ==
    IF local[g] # "absent"
    THEN [NoRow EXCEPT !.present = TRUE, !.local = TRUE,
                       !.hidden = local[g] = "hidden"]
    ELSE IF Offers(g) = {} THEN NoRow
    ELSE [NoRow EXCEPT
             !.present = TRUE,
             !.peer = Min(IF OpenOffers(g) = {} THEN Offers(g) ELSE OpenOffers(g)),
             !.hidden = Key[g] \in hides,
             !.folder = OpenOffers(g) = {}]

\* Mutant of OfferedKeys: mirrors of peers that are not offering are ignored.
OfferingKeys ==
    {Key[g] : g \in {h \in Items : local[h] # "absent" \/ Offers(h) # {}}}

\* The hide keys of everything any source still has, offering or not.
OfferedKeys ==
    {Key[g] : g \in {h \in Items : \/ local[h] # "absent"
                                   \/ \E p \in Peers : mirror[p][h] # "none"}}

Elect ==
    /\ phase = "elect"
    /\ elected' = [desired |-> [g \in Items |-> DesiredRow(g)],
                   offered |-> OfferedKeys]
    /\ phase' = "write"
    /\ UNCHANGED <<world, settings, tables, listed, todo, bounds>>

\* writeElection: the row of g afterwards.  strm_path is Reconcile's; a row
\* still marked local that is not produced any more is deleted; one of a
\* peer loses its election; a row with nothing left is deleted.
WrittenRow(g) ==
    LET want == elected.desired[g]
        old == catalog[g]
        row == IF want.present THEN [want EXCEPT !.strm = old.strm]
               ELSE IF old.local THEN NoRow
               ELSE [old EXCEPT !.peer = NoPeer]
    IN  IF ~row.local /\ row.peer = NoPeer /\ row.strm = NoPath THEN NoRow ELSE row

WriteElection ==
    /\ phase = "write"
    /\ catalog' = [g \in Items |-> WrittenRow(g)]
    /\ hides' = hides \cap elected.offered
    /\ elected' = NotElected
    /\ listed' = NoListing
    /\ phase' = "reconcile"
    /\ UNCHANGED <<world, excluded, indexed, local, mirror, todo, bounds>>

SyncStep ==
    \/ RefreshLocal \/ KeepLocal \/ ListPeers
    \/ \E p \in Peers : PullPeer(p)
    \/ Prune \/ Elect \/ WriteElection

---------------------------------------------------------------------------
\* What happens meanwhile.

\* The library gains or loses an item; one that is lost with its library
\* stays listed when its folder was out of reach.
LibraryChanges ==
    /\ Changing
    /\ \E g \in Items :
          \/ /\ g \notin lib
             /\ lib' = lib \cup {g}
             /\ orphans' = orphans \ {g}
          \/ /\ g \in lib
             /\ lib' = lib \ {g}
             /\ orphans' \in {orphans, orphans \cup {g}}
    /\ UNCHANGED <<scanned, remote, known, health, settings, tables, cycle>>

\* A peer offers something else.
OfferChanges ==
    /\ Changing
    /\ \E p \in Peers, g \in Items, o \in Offer :
          /\ o # remote[p][g]
          /\ remote' = [remote EXCEPT ![p][g] = o]
    /\ UNCHANGED <<jellyfin, known, health, settings, tables, cycle>>

PeerHealthChanges ==
    /\ Changing
    /\ \E p \in known, h \in {"online", "blip", "gone"} :
           h # health[p] /\ health' = [health EXCEPT ![p] = h]
    /\ UNCHANGED <<jellyfin, remote, known, settings, tables, cycle>>

\* Registry.AddPeer and RemovePeer.
PeersChange ==
    /\ Changing
    /\ \E p \in Peers :
           known' = IF p \in known THEN known \ {p} ELSE known \cup {p}
    /\ UNCHANGED <<jellyfin, remote, health, settings, tables, cycle>>

\* SetHidden: only a movie or series that is listed can be hidden.
HideItem ==
    /\ Changing
    /\ \E g \in Playable : catalog[g].present /\ hides' = hides \cup {Key[g]}
    /\ UNCHANGED <<world, excluded, tables, cycle>>

UnhideItem ==
    /\ Changing
    /\ \E k \in hides : hides' = hides \ {k}
    /\ UNCHANGED <<world, excluded, tables, cycle>>

\* SetExcludedFolders, for a peer of the registry.
ExcludeFolder ==
    /\ Changing
    /\ \E p \in known :
           excluded' = IF p \in excluded THEN excluded \ {p} ELSE excluded \cup {p}
    /\ UNCHANGED <<world, hides, tables, cycle>>

Meanwhile ==
    \/ LibraryChanges \/ OfferChanges \/ PeerHealthChanges \/ PeersChange
    \/ HideItem \/ UnhideItem \/ ExcludeFolder

=============================================================================
