-------------------------- MODULE StrmFilesProofs --------------------------
(***************************************************************************)
(* Proofs about module StrmFiles (and Election, which it extends), for any *)
(* items, peers, keys and paths.  Two things are proved apart.  Whatever   *)
(* paths items map to, types, hides, the local index, the record of what   *)
(* is on disk and the order of claims are as they should be.  If no two    *)
(* items can want the same path, a run moreover keeps a file of every item *)
(* that stays offered, and a run without failures leaves nothing else.     *)
(***************************************************************************)
EXTENDS StrmFiles, FiniteSetTheorems, WellFoundedInduction, TLAPS

\* While a run goes through the rows, or is about to sweep.
InRun == phase \in {"files", "sweep"}

\* What a peer is elected for is not in the library, and in its mirror.
Source(p, g) == local[g] = "absent" /\ mirror[p][g] # "none"

\* A row, elected or written, is of a peer or local, not both.
RowsInv ==
    \A g \in Items :
        /\ catalog[g].peer # NoPeer => catalog[g].present /\ ~catalog[g].local
        /\ elected.desired[g].peer # NoPeer =>
             elected.desired[g].present /\ ~elected.desired[g].local

\* From the election on, index and mirrors are what it was made from.
SourceInv ==
    /\ phase = "write" =>
         /\ elected.offered = OfferedKeys
         /\ \A g \in Items :
              elected.desired[g].peer # NoPeer => Source(elected.desired[g].peer, g)
    /\ phase \in {"reconcile", "files", "sweep"} =>
         \A g \in Items : catalog[g].peer # NoPeer => Source(catalog[g].peer, g)

\* Between runs nothing gathered is left; only a run under way has an item
\* whose old file is still to go, and that item has claimed its new path.
GatheredInv ==
    /\ ~InRun => left = {} /\ moving = {} /\ keep = {} /\ claimed = {}
    /\ phase = "sweep" => left = {} /\ moving = {}
    /\ \A g \in moving : g \in left /\ Want(g) /\ Moves(g) /\ Desired(g) \in claimed
    /\ \A g, h \in moving : g = h

\* What a run is to record differs from what is recorded only for rows it has
\* been through and whose file is gone.
RecordInv ==
    /\ phase = "files" => \A g \in Items :
         /\ g \in left => paths[g] = OldPath(g)
         /\ paths[g] # OldPath(g) /\ OldPath(g) # NoPath
              => files[OldPath(g)] \notin StreamsOf(g)
    /\ phase = "sweep" => \A g \in Items : paths[g] = OldPath(g)

\* The first item that wants a path, if any.
FirstOf(path) ==
    {g \in Claimants(path) : \A h \in Claimants(path) : g <= h}

\* The path of a wanted row is claimed when its turn is over, and only by a
\* wanted row; while nothing has failed, it is the first one's.
ClaimInv ==
    InRun =>
        /\ \A g \in Items : Want(g) /\ g \notin left => Desired(g) \in claimed
        /\ \A path \in claimed :
             \E g \in Items : Want(g) /\ path = Desired(g) /\ (g \notin left \/ g \in moving)
        /\ faults = 0 => \A path \in claimed :
             files[path] = NoFile \/ \E g \in FirstOf(path) : files[path] = Url(g)

StrmInv ==
    /\ TypeOK
    /\ RowsInv
    /\ SourceInv
    /\ GatheredInv
    /\ RecordInv
    /\ ClaimInv

---------------------------------------------------------------------------
\* If items do not share paths.

PathsOf(g) == {PathOf[<<p, g>>] : p \in Peers}
PathsDiffer == \A g, h \in Items : g # h => PathsOf(g) \cap PathsOf(h) = {}

\* Recorded paths are the item's own.
OwnPathsInv ==
    \A g \in Items : {OldPath(g), paths[g]} \subseteq PathsOf(g) \cup {NoPath}

\* What is to be recorded of a wanted row is kept; while its old file is to
\* go, the new one is in place.
KeptInv ==
    InRun =>
        /\ \A g \in Items : Want(g) /\ g \notin left => paths[g] \in keep \cup {NoPath}
        /\ \A g \in moving :
             OldPath(g) \in keep /\ Desired(g) \in keep /\ files[Desired(g)] = Url(g)

\* While nothing has failed, the files kept are those of wanted rows.
CleanInv ==
    InRun /\ ~failed =>
        /\ \A g \in Items : Want(g) /\ (g \notin left \/ g \in moving) =>
             Desired(g) \in keep /\ files[Desired(g)] = Url(g)
        /\ \A g \in Items : Want(g) /\ g \notin left => paths[g] = Desired(g)
        /\ \A path \in keep :
             \/ \E g \in Items : Want(g) /\ path = Desired(g)
             \/ \E g \in moving : path = OldPath(g)

OwnInv ==
    /\ OwnPathsInv
    /\ KeptInv
    /\ CleanInv

USE ItemsAssumption, KeyAssumption, PeersAssumption, OfferAssumption, CycleBoundsAssumption,
    PathsAssumption

---------------------------------------------------------------------------
\* The parts of TypeOK.

WorldType ==
    /\ lib \subseteq Items /\ orphans \subseteq Items /\ scanned \subseteq Items
    /\ remote \in [Peers -> [Items -> Offer]]
    /\ known \subseteq Peers /\ health \in [Peers -> {"online", "blip", "gone"}]
    /\ hides \subseteq Keys /\ excluded \subseteq Peers

IndexType ==
    /\ indexed \in BOOLEAN
    /\ local \in [Items -> {"absent", "shown", "hidden"}]
    /\ mirror \in [Peers -> [Items -> Offer]]

CycleType ==
    /\ catalog \in [Items -> Row]
    /\ phase \in Phases
    /\ listed \in [all: SUBSET Peers, offering: SUBSET Peers]
    /\ todo \subseteq Peers
    /\ elected \in [desired: [Items -> Row], offered: SUBSET Keys]
    /\ changes \in Nat /\ faults \in Nat

RunType ==
    /\ files \in [Paths -> (Peers \X Items) \cup {NoFile}]
    /\ left \subseteq Items /\ moving \subseteq Items
    /\ keep \subseteq Paths /\ claimed \subseteq Paths
    /\ paths \in [Items -> Paths \cup {NoPath}]
    /\ failed \in BOOLEAN

LEMMA TypeParts == TypeOK <=> WorldType /\ IndexType /\ CycleType /\ RunType
BY DEF TypeOK, WorldType, IndexType, CycleType, RunType

LEMMA NoRowIsRow == NoRow \in Row /\ NotElected \in [desired: [Items -> Row], offered: SUBSET Keys]
<1>1. NoRow \in Row
  BY DEF NoRow, Row
<1> QED
  BY <1>1 DEF NotElected

\* A set of peers or items that is not empty has a least element.
LEMMA LeastElement ==
    ASSUME NEW S \in SUBSET Nat, S # {}
    PROVE  Min(S) \in S /\ \A y \in S : Min(S) <= y
<1>1. PICK x \in S : \A y \in S : ~(<<y, x>> \in OpToRel(<, Nat))
  BY WFMin, NatLessThanWellFounded
<1>2. \A y \in S : ~(y < x)
  <2>1. \A y \in Nat : y < x => <<y, x>> \in OpToRel(<, Nat)
    BY DEF OpToRel
  <2> QED
    BY <1>1, <2>1
<1>3. \E z \in S : \A y \in S : z <= y
  BY <1>2
<1> QED
  BY <1>3 DEF Min

---------------------------------------------------------------------------
\* What happens meanwhile touches neither tables nor run.

LEMMA MeanwhileTypes ==
    ASSUME TypeOK, Meanwhile PROVE WorldType' /\ changes' \in Nat /\ faults' = faults
<1> USE DEF Changing, jellyfin, settings
<1>1. CASE LibraryChanges
  <2>1. lib' \subseteq Items /\ orphans' \subseteq Items
    <3>1. PICK g \in Items :
            \/ lib' = lib \cup {g} /\ orphans' = orphans \ {g}
            \/ lib' = lib \ {g} /\ orphans' \in {orphans, orphans \cup {g}}
      BY <1>1 DEF LibraryChanges
    <3> QED
      BY <3>1 DEF TypeOK
  <2> QED
    BY <1>1, <2>1 DEF LibraryChanges, TypeOK, WorldType
<1>2. CASE OfferChanges
  BY <1>2 DEF OfferChanges, TypeOK, WorldType
<1>3. CASE PeerHealthChanges
  BY <1>3 DEF PeerHealthChanges, TypeOK, WorldType
<1>4. CASE PeersChange
  BY <1>4 DEF PeersChange, TypeOK, WorldType
<1>5. CASE HideItem
  <2>1. PICK g \in Playable : hides' = hides \cup {Key[g]}
    BY <1>5 DEF HideItem
  <2>2. Key[g] \in Keys
    BY DEF Keys
  <2> QED
    BY <1>5, <2>1, <2>2 DEF HideItem, world, TypeOK, WorldType
<1>6. CASE UnhideItem
  BY <1>6 DEF UnhideItem, world, TypeOK, WorldType
<1>7. CASE ExcludeFolder
  BY <1>7 DEF ExcludeFolder, world, TypeOK, WorldType
<1> QED
  BY <1>1, <1>2, <1>3, <1>4, <1>5, <1>6, <1>7 DEF Meanwhile

LEMMA MeanwhileFrame ==
    ASSUME Meanwhile PROVE UNCHANGED <<tables, cycle, faults>>
BY DEF Meanwhile, LibraryChanges, OfferChanges, PeerHealthChanges, PeersChange,
       HideItem, UnhideItem, ExcludeFolder, Changing

\* A step that leaves tables, cycle and run alone keeps what is said of them.
LEMMA FrameKeeps ==
    ASSUME StrmInv, UNCHANGED <<tables, cycle, faults, files, reconcile, failed>>,
           WorldType', changes' \in Nat
    PROVE  StrmInv' /\ (OwnInv => OwnInv')
<1> USE DEF tables, cycle, reconcile
<1>1. TypeOK'
  <2>1. IndexType' /\ CycleType' /\ RunType'
    BY DEF StrmInv, TypeOK, IndexType, CycleType, RunType
  <2> QED
    BY <2>1 DEF TypeOK, WorldType, IndexType, CycleType, RunType
<1>2. RowsInv' /\ SourceInv'
  BY DEF StrmInv, RowsInv, SourceInv, Source, OfferedKeys
<1>3. /\ \A g : Want(g)' = Want(g) /\ Desired(g)' = Desired(g) /\ OldPath(g)' = OldPath(g)
      /\ \A g : Url(g)' = Url(g) /\ Moves(g)' = Moves(g)
      /\ InRun' = InRun
  BY DEF Want, Desired, OldPath, Url, Moves, InRun
<1>4. GatheredInv' /\ RecordInv'
  BY <1>3 DEF StrmInv, GatheredInv, RecordInv
<1>5. ClaimInv'
  <2>1. \A path : FirstOf(path)' = FirstOf(path)
    BY <1>3 DEF FirstOf, Claimants
  <2> QED
    BY <1>3, <2>1 DEF StrmInv, ClaimInv
<1>6. OwnInv => OwnInv'
  BY <1>3 DEF OwnInv, OwnPathsInv, KeptInv, CleanInv
<1> QED
  BY <1>1, <1>2, <1>4, <1>5, <1>6 DEF StrmInv

---------------------------------------------------------------------------
\* Before the election.

\* A step that re-reads index, registry or mirrors, gathers nothing yet.
LEMMA EarlyKeeps ==
    ASSUME StrmInv, WorldType', IndexType', CycleType',
           phase \in {"idle", "list", "pull"}, phase' \in {"list", "pull", "elect"},
           UNCHANGED <<catalog, elected, files, reconcile, failed>>
    PROVE  StrmInv' /\ (OwnInv => OwnInv')
<1> USE DEF reconcile
<1>1. TypeOK'
  <2>1. RunType'
    BY DEF StrmInv, TypeOK, RunType
  <2> QED
    BY <2>1 DEF TypeOK, WorldType, IndexType, CycleType, RunType
<1>2. RowsInv' /\ SourceInv'
  BY DEF StrmInv, RowsInv, SourceInv
<1>3. ~InRun /\ ~InRun' /\ phase' # "files" /\ phase' # "sweep"
  BY DEF InRun
<1>4. GatheredInv' /\ RecordInv' /\ ClaimInv'
  BY <1>3 DEF StrmInv, GatheredInv, RecordInv, ClaimInv
<1>5. OwnInv => OwnInv'
  BY <1>3 DEF OwnInv, OwnPathsInv, KeptInv, CleanInv, OldPath
<1> QED
  BY <1>1, <1>2, <1>4, <1>5 DEF StrmInv

LEMMA RefreshKeeps ==
    ASSUME StrmInv, NEW entries, RefreshFrom(entries), changes' \in Nat, faults' \in Nat,
           UNCHANGED <<files, reconcile, failed>>
    PROVE  StrmInv' /\ (OwnInv => OwnInv')
<1>1. IndexType'
  BY DEF RefreshFrom, StrmInv, TypeOK, IndexType
<1>2. WorldType' /\ CycleType'
  BY DEF RefreshFrom, world, jellyfin, settings, StrmInv, TypeOK, WorldType, CycleType,
         Phases
<1>3. /\ phase = "idle" /\ phase' = "list"
      /\ UNCHANGED <<catalog, elected>>
  BY DEF RefreshFrom
<1> QED
  BY <1>1, <1>2, <1>3, EarlyKeeps

LEMMA KeepLocalKeeps ==
    ASSUME StrmInv, KeepLocal, UNCHANGED <<files, reconcile, failed>>
    PROVE  StrmInv' /\ (OwnInv => OwnInv')
<1>1. WorldType' /\ IndexType' /\ CycleType'
  BY DEF KeepLocal, world, jellyfin, settings, tables, bounds, StrmInv, TypeOK,
         WorldType, IndexType, CycleType, Phases
<1>2. /\ phase = "idle" /\ phase' = "list"
      /\ UNCHANGED <<catalog, elected>>
  BY DEF KeepLocal, tables
<1> QED
  BY <1>1, <1>2, EarlyKeeps

LEMMA ListPeersKeeps ==
    ASSUME StrmInv, ListPeers, UNCHANGED <<files, reconcile, failed>>
    PROVE  StrmInv' /\ (OwnInv => OwnInv')
<1>1. listed' \in [all: SUBSET Peers, offering: SUBSET Peers] /\ todo' \subseteq Peers
  BY DEF ListPeers, StrmInv, TypeOK
<1>2. WorldType' /\ IndexType' /\ CycleType'
  BY DEF ListPeers, world, jellyfin, settings, tables, bounds, StrmInv, TypeOK,
         WorldType, IndexType, CycleType, Phases
<1>3. /\ phase = "list" /\ phase' = "pull"
      /\ UNCHANGED <<catalog, elected>>
  BY DEF ListPeers, tables
<1> QED
  BY <1>2, <1>3, EarlyKeeps

\* A pull, whatever it has copied.
LEMMA PullKeeps ==
    ASSUME StrmInv, NEW p \in Peers, PullPeer(p) \/ PullPeerFails(p),
           UNCHANGED <<files, reconcile, failed>>
    PROVE  StrmInv' /\ (OwnInv => OwnInv')
<1>1. mirror' \in [Peers -> [Items -> Offer]]
  <2>1. remote[p] \in [Items -> Offer] /\ mirror[p] \in [Items -> Offer]
    BY DEF StrmInv, TypeOK
  <2>2. \E offers \in [Items -> Offer] : mirror' = [mirror EXCEPT ![p] = offers]
    <3>1. CASE PullPeer(p)
      BY <2>1, <3>1 DEF PullPeer
    <3>2. CASE PullPeerFails(p)
      <4>1. PICK done \in SUBSET Items :
              mirror' = [mirror EXCEPT ![p] =
                 [g \in Items |-> IF g \in done THEN remote[p][g] ELSE mirror[p][g]]]
        BY <3>2 DEF PullPeerFails
      <4>2. [g \in Items |-> IF g \in done THEN remote[p][g] ELSE mirror[p][g]]
               \in [Items -> Offer]
        BY <2>1
      <4> QED
        BY <4>1, <4>2
    <3> QED
      BY <3>1, <3>2
  <2> QED
    BY <2>2 DEF StrmInv, TypeOK
<1>2. changes' \in Nat /\ faults' \in Nat
  BY DEF PullPeer, PullPeerFails, Failing, bounds, StrmInv, TypeOK
<1>3. WorldType' /\ IndexType' /\ CycleType'
  BY <1>1, <1>2
     DEF PullPeer, PullPeerFails, world, jellyfin, settings, StrmInv, TypeOK, WorldType,
         IndexType, CycleType
<1>4. /\ phase = "pull" /\ phase' = "pull"
      /\ UNCHANGED <<catalog, elected>>
  BY DEF PullPeer, PullPeerFails
<1> QED
  BY <1>3, <1>4, EarlyKeeps

LEMMA PruneKeeps ==
    ASSUME StrmInv, Prune, UNCHANGED <<files, reconcile, failed>>
    PROVE  StrmInv' /\ (OwnInv => OwnInv')
<1>1. mirror' \in [Peers -> [Items -> Offer]]
  BY DEF Prune, NoOffers, StrmInv, TypeOK
<1>2. WorldType' /\ IndexType' /\ CycleType'
  BY <1>1
     DEF Prune, world, jellyfin, bounds, StrmInv, TypeOK, WorldType, IndexType,
         CycleType, Phases
<1>3. /\ phase = "pull" /\ phase' = "elect"
      /\ UNCHANGED <<catalog, elected>>
  BY DEF Prune
<1> QED
  BY <1>2, <1>3, EarlyKeeps

---------------------------------------------------------------------------
\* The election.

\* A row elected for a peer is of one whose mirror has the item.
LEMMA DesiredRowIsSound ==
    ASSUME TypeOK, NEW g \in Items
    PROVE  /\ DesiredRow(g) \in Row
           /\ DesiredRow(g).peer # NoPeer =>
                /\ DesiredRow(g).present /\ ~DesiredRow(g).local
                /\ Source(DesiredRow(g).peer, g)
<1>1. CASE local[g] # "absent"
  <2>1. DesiredRow(g) = [NoRow EXCEPT !.present = TRUE, !.local = TRUE,
                                      !.hidden = (local[g] = "hidden")]
    BY <1>1 DEF DesiredRow
  <2>2. DesiredRow(g) = [present |-> TRUE, local |-> TRUE, peer |-> NoPeer,
          hidden |-> (local[g] = "hidden"), folder |-> FALSE, strm |-> NoPath]
    BY <2>1 DEF NoRow
  <2> QED
    BY <2>2 DEF Row
<1>2. CASE local[g] = "absent" /\ Offers(g) = {}
  BY <1>2, NoRowIsRow DEF DesiredRow, NoRow
<1>3. CASE local[g] = "absent" /\ Offers(g) # {}
  <2> DEFINE open == IF OpenOffers(g) = {} THEN Offers(g) ELSE OpenOffers(g)
             p == Min(open)
  <2>1. open \in SUBSET Nat /\ open # {} /\ open \subseteq Offers(g)
    BY <1>3 DEF Offers, OpenOffers, TypeOK
  <2>2. p \in Offers(g)
    <3> HIDE DEF open
    <3> QED
      BY <2>1, LeastElement
  <2>3. p \in Peers /\ mirror[p][g] # "none"
    BY <2>2 DEF Offers, TypeOK
  <2>4. DesiredRow(g) = [NoRow EXCEPT !.present = TRUE, !.peer = p,
                !.hidden = (Key[g] \in hides), !.folder = (OpenOffers(g) = {})]
    BY <1>3 DEF DesiredRow
  <2> HIDE DEF p
  <2>5. DesiredRow(g) = [present |-> TRUE, local |-> FALSE, peer |-> p,
          hidden |-> (Key[g] \in hides), folder |-> (OpenOffers(g) = {}), strm |-> NoPath]
    BY <2>4 DEF NoRow
  <2> QED
    BY <1>3, <2>3, <2>5 DEF Row, Source
<1> QED
  BY <1>1, <1>2, <1>3

LEMMA ElectKeeps ==
    ASSUME StrmInv, Elect, UNCHANGED <<files, reconcile, failed>>
    PROVE  StrmInv' /\ (OwnInv => OwnInv')
<1>1. /\ phase = "elect" /\ phase' = "write"
      /\ elected' = [desired |-> [g \in Items |-> DesiredRow(g)], offered |-> OfferedKeys]
      /\ UNCHANGED <<world, settings, tables, listed, todo, bounds>>
  BY DEF Elect
<1>2. /\ elected'.offered = OfferedKeys /\ OfferedKeys \in SUBSET Keys
      /\ \A g \in Items : elected'.desired[g] = DesiredRow(g)
  BY <1>1 DEF OfferedKeys, Keys
<1>3. elected' \in [desired: [Items -> Row], offered: SUBSET Keys]
  BY <1>1, <1>2, DesiredRowIsSound DEF StrmInv
<1>4. TypeOK'
  <2>1. WorldType' /\ IndexType' /\ CycleType' /\ RunType'
    BY <1>1, <1>3
       DEF world, jellyfin, settings, tables, bounds, reconcile, StrmInv, TypeOK,
           WorldType, IndexType, CycleType, RunType, Phases
  <2> QED
    BY <2>1 DEF TypeOK, WorldType, IndexType, CycleType, RunType
<1>5. RowsInv'
  BY <1>1, DesiredRowIsSound DEF tables, StrmInv, RowsInv
<1>6. SourceInv'
  <2>1. OfferedKeys' = OfferedKeys /\ \A p, g : Source(p, g)' = Source(p, g)
    BY <1>1 DEF OfferedKeys, Source, tables
  <2> QED
    BY <1>1, <2>1, DesiredRowIsSound DEF StrmInv, SourceInv
<1>7. ~InRun /\ ~InRun' /\ phase' # "files" /\ phase' # "sweep"
  BY <1>1 DEF InRun
<1>8. GatheredInv' /\ RecordInv' /\ ClaimInv'
  BY <1>7 DEF reconcile, StrmInv, GatheredInv, RecordInv, ClaimInv
<1>9. OwnInv => OwnInv'
  BY <1>1, <1>7 DEF reconcile, tables, OwnInv, OwnPathsInv, KeptInv, CleanInv, OldPath
<1> QED
  BY <1>4, <1>5, <1>6, <1>8, <1>9 DEF StrmInv

\* Writing the outcome leaves the paths of rows that are not local alone.
LEMMA WrittenRowIsSound ==
    ASSUME StrmInv, NEW g \in Items
    PROVE  LET row == WrittenRow(g) IN
           /\ row \in Row
           /\ \/ row.strm = catalog[g].strm
              \/ row.strm = NoPath /\ catalog[g].local /\ ~row.present
           /\ row.peer # NoPeer => /\ row.peer = elected.desired[g].peer
                                   /\ row.present /\ ~row.local
<1> DEFINE want == elected.desired[g]
           old == catalog[g]
           row == IF want.present THEN [want EXCEPT !.strm = old.strm]
                  ELSE IF old.local THEN NoRow
                  ELSE [old EXCEPT !.peer = NoPeer]
<1>1. want \in Row /\ old \in Row /\ NoRow \in Row
  BY NoRowIsRow DEF StrmInv, TypeOK
<1>2. want.peer # NoPeer => want.present /\ ~want.local
  BY DEF StrmInv, RowsInv
<1>3. WrittenRow(g) =
        IF ~row.local /\ row.peer = NoPeer /\ row.strm = NoPath THEN NoRow ELSE row
  BY DEF WrittenRow
<1> HIDE DEF want, old
<1>4. /\ row \in Row
      /\ row.strm = old.strm \/ (row.strm = NoPath /\ old.local /\ ~row.present)
      /\ row.peer # NoPeer => row.peer = want.peer /\ row.present /\ ~row.local
  <2>1. CASE want.present
    <3>1. row = [want EXCEPT !.strm = old.strm]
      BY <2>1
    <3> HIDE DEF row
    <3>2. row \in Row /\ row.strm = old.strm
      BY <1>1, <3>1 DEF Row
    <3>3. row.peer # NoPeer => row.peer = want.peer /\ row.present /\ ~row.local
      BY <1>1, <1>2, <3>1 DEF Row
    <3> QED
      BY <3>2, <3>3
  <2>2. CASE ~want.present /\ old.local
    <3>1. row = NoRow
      BY <2>2
    <3> QED
      BY <1>1, <2>2, <3>1 DEF NoRow
  <2>3. CASE ~want.present /\ ~old.local
    <3>1. row = [old EXCEPT !.peer = NoPeer]
      BY <2>3
    <3> HIDE DEF row
    <3>2. row \in Row /\ row.strm = old.strm /\ row.peer = NoPeer
      BY <1>1, <3>1 DEF Row
    <3> QED
      BY <3>2
  <2> QED
    BY <2>1, <2>2, <2>3
<1> HIDE DEF row
<1> QED
  BY <1>1, <1>3, <1>4 DEF old, want, NoRow

LEMMA WriteElectionKeeps ==
    ASSUME StrmInv, WriteElection, UNCHANGED <<files, reconcile, failed>>
    PROVE  StrmInv' /\ (OwnInv => OwnInv')
<1>1. /\ phase = "write" /\ phase' = "reconcile"
      /\ catalog' = [g \in Items |-> WrittenRow(g)]
      /\ hides' \subseteq hides
      /\ elected' = NotElected /\ listed' = NoListing
      /\ UNCHANGED <<world, excluded, indexed, local, mirror, todo, bounds>>
  BY DEF WriteElection
<1>2. \A g \in Items :
        LET row == catalog'[g] IN
        /\ row \in Row
        /\ row.strm = catalog[g].strm \/ row.strm = NoPath
        /\ row.peer # NoPeer => /\ row.peer = elected.desired[g].peer
                                /\ row.present /\ ~row.local
  BY <1>1, WrittenRowIsSound
<1>3. catalog' \in [Items -> Row]
  BY <1>1, <1>2
<1>4. TypeOK'
  <2>1. WorldType' /\ IndexType' /\ RunType'
    BY <1>1
       DEF world, jellyfin, reconcile, StrmInv, TypeOK, WorldType, IndexType, RunType
  <2>2. CycleType'
    BY <1>1, <1>3, NoRowIsRow DEF bounds, NoListing, StrmInv, TypeOK, CycleType, Phases
  <2> QED
    BY <2>1, <2>2 DEF TypeOK, WorldType, IndexType, CycleType, RunType
<1>5. RowsInv'
  BY <1>1, <1>2 DEF RowsInv, NotElected, NoRow
<1>6. SourceInv'
  BY <1>1, <1>2 DEF StrmInv, SourceInv, Source
<1>7. ~InRun /\ ~InRun' /\ phase' # "files" /\ phase' # "sweep"
  BY <1>1 DEF InRun
<1>8. GatheredInv' /\ RecordInv' /\ ClaimInv'
  BY <1>7 DEF reconcile, StrmInv, GatheredInv, RecordInv, ClaimInv
<1>9. OwnInv => OwnInv'
  BY <1>2, <1>7 DEF reconcile, OwnInv, OwnPathsInv, KeptInv, CleanInv, OldPath
<1> QED
  BY <1>4, <1>5, <1>6, <1>8, <1>9 DEF StrmInv

LEMMA SyncStepKeeps ==
    ASSUME StrmInv, SyncStep, filesUntouched
    PROVE  StrmInv' /\ (OwnInv => OwnInv')
<1>1. UNCHANGED <<files, reconcile, failed>> /\ changes \in Nat /\ faults \in Nat
  BY DEF filesUntouched, StrmInv, TypeOK
<1>2. CASE RefreshLocal
  BY <1>1, <1>2, RefreshKeeps DEF RefreshLocal, bounds
<1>3. CASE KeepLocal \/ ListPeers \/ Prune
  BY <1>1, <1>3, KeepLocalKeeps, ListPeersKeeps, PruneKeeps
<1>4. CASE \E p \in Peers : PullPeer(p)
  BY <1>1, <1>4, PullKeeps
<1>5. CASE Elect \/ WriteElection
  BY <1>1, <1>5, ElectKeeps, WriteElectionKeeps
<1> QED
  BY <1>2, <1>3, <1>4, <1>5 DEF SyncStep

LEMMA SyncFaultKeeps ==
    ASSUME StrmInv, filesUntouched,
           RefreshWithoutRoots \/ \E p \in Peers : PullPeerFails(p)
    PROVE  StrmInv' /\ (OwnInv => OwnInv')
<1>1. UNCHANGED <<files, reconcile, failed>> /\ changes \in Nat /\ faults \in Nat
  BY DEF filesUntouched, StrmInv, TypeOK
<1>2. CASE RefreshWithoutRoots
  <2>1. changes' \in Nat /\ faults' \in Nat
    BY <1>1, <1>2 DEF RefreshWithoutRoots, Failing
  <2> QED
    BY <1>1, <1>2, <2>1, RefreshKeeps DEF RefreshWithoutRoots
<1>3. CASE \E p \in Peers : PullPeerFails(p)
  BY <1>1, <1>3, PullKeeps
<1> QED
  BY <1>2, <1>3

LEMMA MeanwhileKeeps ==
    ASSUME StrmInv, filesUntouched, Meanwhile
    PROVE  StrmInv' /\ (OwnInv => OwnInv')
<1>1. TypeOK
  BY DEF StrmInv
<1>2. UNCHANGED <<files, reconcile, failed>>
  BY DEF filesUntouched
<1> QED
  BY <1>1, <1>2, MeanwhileTypes, MeanwhileFrame, FrameKeeps

LEMMA JellyfinScansKeeps ==
    ASSUME StrmInv, JellyfinScans PROVE StrmInv' /\ (OwnInv => OwnInv')
<1>1. scanned' \subseteq Items
  BY DEF JellyfinScans, StrmInv, TypeOK
<1>2. WorldType' /\ changes' \in Nat
  BY DEF JellyfinScans, settings, bounds, StrmInv, TypeOK, WorldType
<1>3. UNCHANGED <<tables, cycle, faults, files, reconcile, failed>>
  BY DEF JellyfinScans, bounds, filesUntouched
<1> QED
  BY <1>2, <1>3, FrameKeeps

---------------------------------------------------------------------------
\* Reconcile: rows are read, in a run that changes no table before it saves.

\* What a run does not change.
RunFrame == UNCHANGED <<world, settings, tables, listed, todo, elected>>

LEMMA RunFrameKeeps ==
    ASSUME StrmInv, RunFrame, phase' \in Phases, changes' \in Nat, faults' \in Nat, RunType'
    PROVE  /\ TypeOK' /\ RowsInv'
           /\ phase \in {"reconcile", "files", "sweep"} /\ phase' # "write" => SourceInv'
           /\ \A g : /\ Want(g)' = Want(g) /\ Desired(g)' = Desired(g)
                     /\ OldPath(g)' = OldPath(g) /\ Url(g)' = Url(g)
                     /\ Moves(g)' = Moves(g) /\ OldKept(g)' = OldKept(g)
           /\ \A path : FirstOf(path)' = FirstOf(path)
<1> USE DEF RunFrame
<1>1. TypeOK'
  <2>1. WorldType' /\ IndexType' /\ CycleType'
    BY DEF world, jellyfin, settings, tables, StrmInv, TypeOK, WorldType, IndexType,
           CycleType
  <2> QED
    BY <2>1 DEF TypeOK, WorldType, IndexType, CycleType, RunType
<1>2. RowsInv'
  BY DEF tables, StrmInv, RowsInv
<1>3. phase \in {"reconcile", "files", "sweep"} /\ phase' # "write" => SourceInv'
  BY DEF tables, StrmInv, SourceInv, Source
<1>4. \A g : /\ Want(g)' = Want(g) /\ Desired(g)' = Desired(g)
             /\ OldPath(g)' = OldPath(g) /\ Url(g)' = Url(g)
             /\ Moves(g)' = Moves(g) /\ OldKept(g)' = OldKept(g)
  BY DEF tables, Want, Desired, OldPath, Url, Moves, OldKept
<1>5. \A path : FirstOf(path)' = FirstOf(path)
  BY <1>4 DEF FirstOf, Claimants
<1> QED
  BY <1>1, <1>2, <1>3, <1>4, <1>5

\* The paths of a row are where files may be.
LEMMA RowPaths ==
    ASSUME TypeOK, NEW g \in Items
    PROVE  /\ OldPath(g) \in Paths \cup {NoPath}
           /\ Want(g) => /\ catalog[g].peer \in Peers /\ Desired(g) \in PathsOf(g)
                         /\ Desired(g) \in Paths /\ Url(g) \in Peers \X Items
                         /\ Url(g) \in StreamsOf(g)
           /\ Moves(g) => OldPath(g) \in Paths /\ OldPath(g) # Desired(g)
           /\ OldKept(g) \subseteq Paths
<1>1. catalog[g].peer \in Peers \cup {NoPeer} /\ OldPath(g) \in Paths \cup {NoPath}
  BY DEF TypeOK, Row, OldPath
<1>2. Want(g) => catalog[g].peer \in Peers
  BY <1>1 DEF Want
<1>3. \A p \in Peers : PathOf[<<p, g>>] \in Paths
  OBVIOUS
<1> QED
  BY <1>1, <1>2 DEF Desired, PathsOf, Url, StreamsOf, Moves, OldKept

LEMMA StartReconcileKeeps ==
    ASSUME StrmInv, StartReconcile PROVE StrmInv' /\ (OwnInv => OwnInv')
<1>1. /\ phase = "reconcile" /\ phase' = "files"
      /\ left' = {g \in Items : catalog[g].present}
      /\ paths' = [g \in Items |-> OldPath(g)]
      /\ failed' = FALSE
      /\ RunFrame
      /\ UNCHANGED <<bounds, files, moving, keep, claimed>>
  BY DEF StartReconcile, RunFrame
<1>2. RunType'
  BY <1>1, RowPaths DEF StrmInv, TypeOK, RunType
<1>3. /\ TypeOK' /\ RowsInv' /\ SourceInv'
      /\ \A g : Want(g)' = Want(g) /\ OldPath(g)' = OldPath(g)
  BY <1>1, <1>2, RunFrameKeeps DEF bounds, StrmInv, TypeOK, Phases
<1>4. moving = {} /\ keep = {} /\ claimed = {}
  BY <1>1 DEF StrmInv, GatheredInv, InRun
<1>5. \A g \in Items : Want(g) => g \in left'
  BY <1>1 DEF Want, StrmInv, RowsInv
<1>6. GatheredInv' /\ RecordInv' /\ ClaimInv'
  BY <1>1, <1>3, <1>4, <1>5 DEF InRun, GatheredInv, RecordInv, ClaimInv
<1>7. OwnInv => OwnInv'
  BY <1>1, <1>3, <1>4, <1>5 DEF OwnInv, OwnPathsInv, KeptInv, CleanInv
<1> QED
  BY <1>3, <1>6, <1>7 DEF StrmInv

---------------------------------------------------------------------------
\* The turn of a row.

LEMMA StreamsDiffer ==
    ASSUME NEW g \in Items
    PROVE  /\ NoFile \notin StreamsOf(g)
           /\ \A h \in Items : h # g => Url(h) \notin StreamsOf(g)
BY DEF StreamsOf, Url

\* What a step of a run leaves alone, and what follows for the tables.
LEMMA RunStep ==
    ASSUME StrmInv, RunFrame, phase = "files", phase' = "files", RunType',
           bounds' = bounds \/ Failing
    PROVE  /\ TypeOK' /\ RowsInv' /\ SourceInv'
           /\ \A g : /\ Want(g)' = Want(g) /\ Desired(g)' = Desired(g)
                     /\ OldPath(g)' = OldPath(g) /\ Url(g)' = Url(g)
                     /\ Moves(g)' = Moves(g)
           /\ \A path : FirstOf(path)' = FirstOf(path)
           /\ faults' = 0 => faults = 0
           /\ InRun /\ InRun'
<1>1. changes' \in Nat /\ faults' \in Nat /\ (faults' = 0 => faults = 0)
  BY DEF bounds, Failing, StrmInv, TypeOK
<1>2. phase' \in Phases /\ InRun /\ InRun'
  BY DEF Phases, InRun
<1> QED
  BY <1>1, <1>2, RunFrameKeeps

\* Items that do not share paths do not come in each other's way.
LEMMA PathsApart ==
    ASSUME TypeOK, OwnPathsInv, PathsDiffer, NEW g \in Items, NEW h \in Items, g # h
    PROVE  /\ Want(h) => Desired(h) # OldPath(g) /\ (Want(g) => Desired(h) # Desired(g))
           /\ paths[h] # NoPath => paths[h] # OldPath(g)
<1>1. PathsOf(g) \cap PathsOf(h) = {}
  BY DEF PathsDiffer
<1>2. NoPath \notin PathsOf(g) \cup PathsOf(h)
  <2>1. \A p \in Peers : PathOf[<<p, g>>] \in Paths /\ PathOf[<<p, h>>] \in Paths
    OBVIOUS
  <2> QED
    BY <2>1 DEF PathsOf
<1>3. OldPath(g) \in PathsOf(g) \cup {NoPath} /\ paths[h] \in PathsOf(h) \cup {NoPath}
  BY DEF OwnPathsInv
<1> QED
  BY <1>1, <1>2, <1>3, RowPaths

LEMMA SkipUnwantedKeeps ==
    ASSUME StrmInv, NEW g \in Items, SkipUnwanted(g)
    PROVE  StrmInv' /\ (PathsDiffer /\ OwnInv => OwnInv')
<1>1. /\ phase = "files" /\ phase' = "files" /\ RunFrame
      /\ moving = {} /\ g \in left /\ \A h \in left : g <= h
      /\ ~Want(g) /\ left' = left \ {g}
      /\ UNCHANGED <<bounds, files, moving, keep, claimed, paths, failed>>
  BY DEF SkipUnwanted, Turn, KeepsRest, RunFrame, cycle
<1>2. RunType'
  BY <1>1 DEF StrmInv, TypeOK, RunType
<1>3. /\ TypeOK' /\ RowsInv' /\ SourceInv'
      /\ \A h : /\ Want(h)' = Want(h) /\ Desired(h)' = Desired(h)
                /\ OldPath(h)' = OldPath(h) /\ Url(h)' = Url(h) /\ Moves(h)' = Moves(h)
      /\ \A path : FirstOf(path)' = FirstOf(path)
      /\ faults' = 0 => faults = 0
      /\ InRun /\ InRun'
  BY <1>1, <1>2, RunStep
<1>4. GatheredInv'
  BY <1>1, <1>3 DEF StrmInv, GatheredInv
<1>5. RecordInv'
  BY <1>1, <1>3 DEF StrmInv, RecordInv
<1>6. ClaimInv'
  BY <1>1, <1>3 DEF StrmInv, ClaimInv
<1>7. ASSUME PathsDiffer, OwnInv PROVE OwnInv'
  <2>1. OwnPathsInv'
    BY <1>1, <1>3, <1>7 DEF OwnInv, OwnPathsInv
  <2>2. KeptInv'
    BY <1>1, <1>3, <1>7 DEF OwnInv, KeptInv
  <2>3. CleanInv'
    BY <1>1, <1>3, <1>7 DEF OwnInv, CleanInv
  <2> QED
    BY <2>1, <2>2, <2>3 DEF OwnInv
<1> QED
  BY <1>3, <1>4, <1>5, <1>6, <1>7 DEF StrmInv

LEMMA RemoveUnwantedKeeps ==
    ASSUME StrmInv, NEW g \in Items, RemoveUnwanted(g)
    PROVE  StrmInv' /\ (PathsDiffer /\ OwnInv => OwnInv')
<1>1. /\ phase = "files" /\ phase' = "files" /\ RunFrame
      /\ moving = {} /\ g \in left /\ \A h \in left : g <= h
      /\ ~Want(g) /\ OldPath(g) # NoPath
      /\ files' = [files EXCEPT ![OldPath(g)] = NoFile]
      /\ paths' = [paths EXCEPT ![g] = NoPath]
      /\ left' = left \ {g}
      /\ UNCHANGED <<bounds, moving, keep, claimed, failed>>
  BY DEF RemoveUnwanted, Turn, KeepsRest, RunFrame, cycle
<1>2. RunType'
  BY <1>1 DEF StrmInv, TypeOK, RunType
<1>3. /\ TypeOK' /\ RowsInv' /\ SourceInv'
      /\ \A h : /\ Want(h)' = Want(h) /\ Desired(h)' = Desired(h)
                /\ OldPath(h)' = OldPath(h) /\ Url(h)' = Url(h) /\ Moves(h)' = Moves(h)
      /\ \A path : FirstOf(path)' = FirstOf(path)
      /\ faults' = 0 => faults = 0
      /\ InRun /\ InRun'
  BY <1>1, <1>2, RunStep
<1>4. GatheredInv'
  BY <1>1, <1>3 DEF StrmInv, GatheredInv
<1>5. RecordInv'
  <2>1. \A h \in Items : files'[OldPath(h)] = files[OldPath(h)] \/ files'[OldPath(h)] = NoFile
    BY <1>1, RowPaths DEF StrmInv, TypeOK
  <2>2. files'[OldPath(g)] = NoFile
    BY <1>1, RowPaths DEF StrmInv, TypeOK
  <2>3. \A h \in Items : h # g => paths'[h] = paths[h]
    BY <1>1 DEF StrmInv, TypeOK
  <2> QED
    BY <1>1, <1>3, <2>2, StreamsDiffer DEF StrmInv, RecordInv
<1>6. ClaimInv'
  <2>1. \A path \in claimed : files'[path] = files[path] \/ files'[path] = NoFile
    BY <1>1 DEF StrmInv, TypeOK
  <2> QED
    BY <1>1, <1>3 DEF StrmInv, ClaimInv
<1>7. ASSUME PathsDiffer, OwnInv PROVE OwnInv'
  <2>1. OwnPathsInv'
    BY <1>1, <1>3, <1>7 DEF OwnInv, OwnPathsInv
  <2>2. KeptInv'
    BY <1>1, <1>3, <1>7 DEF OwnInv, KeptInv
  <2>3. CleanInv'
    <3>1. \A h \in Items : Want(h) => files'[Desired(h)] = files[Desired(h)] /\ paths'[h] = paths[h]
      BY <1>1, <1>7, PathsApart DEF StrmInv, OwnInv
    <3> QED
      BY <1>1, <1>3, <1>7, <3>1 DEF OwnInv, CleanInv
  <2> QED
    BY <2>1, <2>2, <2>3 DEF OwnInv
<1> QED
  BY <1>3, <1>4, <1>5, <1>6, <1>7 DEF StrmInv

LEMMA RemoveUnwantedFailsKeeps ==
    ASSUME StrmInv, NEW g \in Items, RemoveUnwantedFails(g)
    PROVE  StrmInv' /\ (PathsDiffer /\ OwnInv => OwnInv')
<1>1. /\ phase = "files" /\ phase' = "files" /\ RunFrame
      /\ moving = {} /\ g \in left /\ \A h \in left : g <= h
      /\ ~Want(g) /\ OldPath(g) # NoPath
      /\ keep' = keep \cup {OldPath(g)} /\ left' = left \ {g} /\ failed' = TRUE
      /\ Failing /\ UNCHANGED <<files, moving, claimed, paths>>
  BY DEF RemoveUnwantedFails, Turn, KeepsRest, RunFrame, cycle
<1>2. RunType'
  BY <1>1, RowPaths DEF StrmInv, TypeOK, RunType
<1>3. /\ TypeOK' /\ RowsInv' /\ SourceInv'
      /\ \A h : /\ Want(h)' = Want(h) /\ Desired(h)' = Desired(h)
                /\ OldPath(h)' = OldPath(h) /\ Url(h)' = Url(h) /\ Moves(h)' = Moves(h)
      /\ \A path : FirstOf(path)' = FirstOf(path)
      /\ faults' = 0 => faults = 0
      /\ InRun /\ InRun'
  BY <1>1, <1>2, RunStep
<1>4. GatheredInv'
  BY <1>1, <1>3 DEF StrmInv, GatheredInv
<1>5. RecordInv'
  BY <1>1, <1>3 DEF StrmInv, RecordInv
<1>6. ClaimInv'
  BY <1>1, <1>3 DEF StrmInv, ClaimInv
<1>7. ASSUME PathsDiffer, OwnInv PROVE OwnInv'
  <2>1. OwnPathsInv'
    BY <1>1, <1>3, <1>7 DEF OwnInv, OwnPathsInv
  <2>2. KeptInv'
    BY <1>1, <1>3, <1>7 DEF OwnInv, KeptInv
  <2>3. CleanInv'
    BY <1>1 DEF CleanInv
  <2> QED
    BY <2>1, <2>2, <2>3 DEF OwnInv
<1> QED
  BY <1>3, <1>4, <1>5, <1>6, <1>7 DEF StrmInv

LEMMA SkipClaimedKeeps ==
    ASSUME StrmInv, NEW g \in Items, SkipClaimed(g)
    PROVE  StrmInv' /\ (PathsDiffer /\ OwnInv => OwnInv')
<1>1. /\ phase = "files" /\ phase' = "files" /\ RunFrame
      /\ moving = {} /\ g \in left /\ \A h \in left : g <= h
      /\ Want(g) /\ Desired(g) \in claimed
      /\ keep' = keep \cup OldKept(g) /\ left' = left \ {g} /\ failed' = TRUE
      /\ UNCHANGED <<bounds, files, moving, claimed, paths>>
  BY DEF SkipClaimed, Turn, KeepsRest, RunFrame, cycle
<1>2. RunType'
  BY <1>1, RowPaths DEF StrmInv, TypeOK, RunType
<1>3. /\ TypeOK' /\ RowsInv' /\ SourceInv'
      /\ \A h : /\ Want(h)' = Want(h) /\ Desired(h)' = Desired(h)
                /\ OldPath(h)' = OldPath(h) /\ Url(h)' = Url(h) /\ Moves(h)' = Moves(h)
      /\ \A path : FirstOf(path)' = FirstOf(path)
      /\ faults' = 0 => faults = 0
      /\ InRun /\ InRun'
  BY <1>1, <1>2, RunStep
<1>4. GatheredInv'
  BY <1>1, <1>3 DEF StrmInv, GatheredInv
<1>5. RecordInv'
  BY <1>1, <1>3 DEF StrmInv, RecordInv
<1>6. ClaimInv'
  BY <1>1, <1>3 DEF StrmInv, ClaimInv
<1>7. ASSUME PathsDiffer, OwnInv PROVE OwnInv'
  <2>1. PICK h \in Items : Want(h) /\ Desired(g) = Desired(h) /\ h \notin left
    BY <1>1, <1>3 DEF StrmInv, ClaimInv
  <2> QED
    BY <1>1, <1>7, <2>1, PathsApart DEF StrmInv, OwnInv
<1> QED
  BY <1>3, <1>4, <1>5, <1>6, <1>7 DEF StrmInv

LEMMA WriteFileKeeps ==
    ASSUME StrmInv, NEW g \in Items, WriteFile(g)
    PROVE  StrmInv' /\ (PathsDiffer /\ OwnInv => OwnInv')
<1>1. /\ phase = "files" /\ phase' = "files" /\ RunFrame
      /\ moving = {} /\ g \in left /\ \A h \in left : g <= h
      /\ Want(g) /\ Desired(g) \notin claimed
      /\ files' = [files EXCEPT ![Desired(g)] = Url(g)]
      /\ claimed' = claimed \cup {Desired(g)}
      /\ keep' = keep \cup {Desired(g)} \cup OldKept(g)
      /\ Moves(g) => moving' = {g} /\ UNCHANGED <<paths, left>>
      /\ ~Moves(g) => /\ paths' = [paths EXCEPT ![g] = Desired(g)]
                      /\ left' = left \ {g} /\ moving' = moving
      /\ UNCHANGED <<bounds, failed>>
  BY DEF WriteFile, Turn, KeepsRest, RunFrame, cycle
<1>2. RunType'
  <2>1. files' \in [Paths -> (Peers \X Items) \cup {NoFile}]
    BY <1>1, RowPaths DEF StrmInv, TypeOK
  <2>2. keep' \subseteq Paths /\ claimed' \subseteq Paths
    BY <1>1, RowPaths DEF StrmInv, TypeOK
  <2>3. paths' \in [Items -> Paths \cup {NoPath}] /\ left' \subseteq Items /\ moving' \subseteq Items
    <3>1. paths \in [Items -> Paths \cup {NoPath}] /\ left \subseteq Items /\ moving \subseteq Items
      BY DEF StrmInv, TypeOK
    <3>2. Desired(g) \in Paths
      BY <1>1, RowPaths DEF StrmInv
    <3>3. CASE Moves(g)
      BY <1>1, <3>1, <3>3
    <3>4. CASE ~Moves(g)
      <4>1. paths' = [paths EXCEPT ![g] = Desired(g)] /\ left' = left \ {g} /\ moving' = moving
        BY <1>1, <3>4
      <4>2. paths' \in [Items -> Paths \cup {NoPath}]
        BY <3>1, <3>2, <4>1
      <4> QED
        BY <3>1, <4>1, <4>2
    <3> QED
      BY <3>3, <3>4
  <2> QED
    BY <1>1, <2>1, <2>2 DEF StrmInv, TypeOK, RunType
<1>3. /\ TypeOK' /\ RowsInv' /\ SourceInv'
      /\ \A h : /\ Want(h)' = Want(h) /\ Desired(h)' = Desired(h)
                /\ OldPath(h)' = OldPath(h) /\ Url(h)' = Url(h) /\ Moves(h)' = Moves(h)
      /\ \A path : FirstOf(path)' = FirstOf(path)
      /\ faults' = 0 => faults = 0
      /\ InRun /\ InRun'
  BY <1>1, <1>2, RunStep
<1>4. GatheredInv'
  BY <1>1, <1>3 DEF StrmInv, GatheredInv
<1>5. RecordInv'
  <2>1. \A h \in Items \ {g} :
          files'[OldPath(h)] = files[OldPath(h)] \/ files'[OldPath(h)] = Url(g)
    BY <1>1, RowPaths DEF StrmInv, TypeOK
  <2>2. \A h \in Items \ {g} :
          paths'[h] = paths[h] /\ (h \in left' => h \in left) /\ Url(g) \notin StreamsOf(h)
    BY <1>1, StreamsDiffer DEF StrmInv, TypeOK
  <2>3. \A h \in Items \ {g} :
          /\ h \in left' => paths'[h] = OldPath(h)
          /\ paths'[h] # OldPath(h) /\ OldPath(h) # NoPath
               => files'[OldPath(h)] \notin StreamsOf(h)
    BY <1>1, <2>2 DEF StrmInv, RecordInv
  <2>4. CASE Moves(g)
    BY <1>1, <1>3, <2>3, <2>4 DEF StrmInv, RecordInv
  <2>5. CASE ~Moves(g)
    <3>1. paths'[g] = Desired(g) /\ g \notin left'
      BY <1>1, <2>5 DEF StrmInv, TypeOK
    <3>2. OldPath(g) = NoPath \/ OldPath(g) = Desired(g)
      BY <2>5 DEF Moves
    <3> QED
      BY <1>1, <1>3, <2>3, <3>1, <3>2 DEF RecordInv
  <2> QED
    BY <2>4, <2>5
<1>6. ClaimInv'
  <2>1. \A h \in Items : h \notin left' \/ h \in moving' => h \notin left \/ h = g
    BY <1>1 DEF StrmInv, TypeOK
  <2>2. g \notin left' \/ g \in moving'
    BY <1>1 DEF StrmInv, TypeOK
  <2>3. \A h \in Items : Want(h) /\ h \notin left' => Desired(h) \in claimed'
    BY <1>1, <1>3 DEF StrmInv, ClaimInv
  <2>4. \A path \in claimed' : \E h \in Items :
          Want(h) /\ path = Desired(h) /\ (h \notin left' \/ h \in moving')
    BY <1>1, <1>3 DEF StrmInv, ClaimInv
  <2>5. g \in FirstOf(Desired(g))
    <3>1. \A h \in Items : Want(h) /\ Desired(h) = Desired(g) => h \in left
      BY <1>1, <1>3 DEF StrmInv, ClaimInv
    <3> QED
      BY <1>1, <3>1 DEF FirstOf, Claimants
  <2>6. \A path \in claimed' : files'[path] = IF path = Desired(g) THEN Url(g) ELSE files[path]
    BY <1>1, RowPaths DEF StrmInv, TypeOK
  <2>7. faults = 0 => \A path \in claimed' :
          files'[path] = NoFile \/ \E h \in FirstOf(path) : files'[path] = Url(h)
    BY <1>1, <1>3, <2>5, <2>6 DEF StrmInv, ClaimInv
  <2> QED
    BY <1>3, <2>3, <2>4, <2>7 DEF ClaimInv
<1>7. ASSUME PathsDiffer, OwnInv PROVE OwnInv'
  <2>1. OwnPathsInv'
    BY <1>1, <1>3, <1>7, RowPaths DEF StrmInv, TypeOK, OwnInv, OwnPathsInv
  <2>2. KeptInv'
    <3>1. \A h \in Items \ {g} : paths'[h] = paths[h] /\ (h \notin left' => h \notin left)
      BY <1>1 DEF StrmInv, TypeOK
    <3>2. g \notin left' => paths'[g] \in keep'
      BY <1>1 DEF StrmInv, TypeOK
    <3>3. \A h \in moving' : /\ h = g /\ OldPath(h) \in keep' /\ Desired(h) \in keep'
                             /\ files'[Desired(h)] = Url(h)
      BY <1>1, RowPaths DEF OldKept, StrmInv, TypeOK
    <3> QED
      BY <1>1, <1>3, <1>7, <3>1, <3>2, <3>3 DEF OwnInv, KeptInv
  <2>3. CleanInv'
    <3>1. \A h \in Items \ {g} :
            /\ paths'[h] = paths[h] /\ (h \notin left' \/ h \in moving' => h \notin left)
            /\ Want(h) => files'[Desired(h)] = files[Desired(h)]
      BY <1>1, <1>7, PathsApart DEF StrmInv, TypeOK, OwnInv
    <3>2. files'[Desired(g)] = Url(g) /\ (g \notin left' => paths'[g] = Desired(g))
      BY <1>1, RowPaths DEF StrmInv, TypeOK
    <3>3. \A path \in keep' \ keep : path = Desired(g) \/ (g \in moving' /\ path = OldPath(g))
      BY <1>1 DEF OldKept
    <3> QED
      BY <1>1, <1>3, <1>7, <3>1, <3>2, <3>3 DEF OwnInv, CleanInv
  <2> QED
    BY <2>1, <2>2, <2>3 DEF OwnInv
<1> QED
  BY <1>3, <1>4, <1>5, <1>6, <1>7 DEF StrmInv

LEMMA WriteFileFailsKeeps ==
    ASSUME StrmInv, NEW g \in Items, WriteFileFails(g)
    PROVE  StrmInv' /\ (PathsDiffer /\ OwnInv => OwnInv')
<1>1. /\ phase = "files" /\ phase' = "files" /\ RunFrame
      /\ moving = {} /\ g \in left /\ \A h \in left : g <= h
      /\ Want(g)
      /\ claimed' = claimed \cup {Desired(g)}
      /\ keep' = keep \cup {Desired(g)} \cup OldKept(g)
      /\ left' = left \ {g} /\ failed' = TRUE
      /\ Failing /\ UNCHANGED <<files, moving, paths>>
  BY DEF WriteFileFails, Turn, KeepsRest, RunFrame, cycle
<1>2. RunType'
  BY <1>1, RowPaths DEF StrmInv, TypeOK, RunType
<1>3. /\ TypeOK' /\ RowsInv' /\ SourceInv'
      /\ \A h : /\ Want(h)' = Want(h) /\ Desired(h)' = Desired(h)
                /\ OldPath(h)' = OldPath(h) /\ Url(h)' = Url(h) /\ Moves(h)' = Moves(h)
      /\ \A path : FirstOf(path)' = FirstOf(path)
      /\ faults' = 0 => faults = 0
      /\ InRun /\ InRun'
  BY <1>1, <1>2, RunStep
<1>4. GatheredInv'
  BY <1>1, <1>3 DEF StrmInv, GatheredInv
<1>5. RecordInv'
  BY <1>1, <1>3 DEF StrmInv, RecordInv
<1>6. ClaimInv'
  <2>1. \A path \in claimed' : \E h \in Items :
          Want(h) /\ path = Desired(h) /\ (h \notin left' \/ h \in moving')
    BY <1>1, <1>3 DEF StrmInv, ClaimInv
  <2>2. faults' # 0
    BY <1>1 DEF Failing, StrmInv, TypeOK
  <2> QED
    BY <1>1, <1>3, <2>2 DEF StrmInv, ClaimInv
<1>7. ASSUME PathsDiffer, OwnInv PROVE OwnInv'
  <2>1. OwnPathsInv'
    BY <1>1, <1>3, <1>7 DEF OwnInv, OwnPathsInv
  <2>2. KeptInv'
    <3>1. paths[g] = OldPath(g)
      BY <1>1 DEF StrmInv, RecordInv
    <3>2. paths[g] \in keep' \cup {NoPath}
      BY <1>1, <3>1 DEF OldKept, Moves
    <3> QED
      BY <1>1, <1>3, <1>7, <3>2 DEF OwnInv, KeptInv
  <2>3. CleanInv'
    BY <1>1 DEF CleanInv
  <2> QED
    BY <2>1, <2>2, <2>3 DEF OwnInv
<1> QED
  BY <1>3, <1>4, <1>5, <1>6, <1>7 DEF StrmInv

\* The item whose old file is to go, and with it the turn of its row.
LEMMA MovingItem ==
    ASSUME StrmInv, NEW g \in moving
    PROVE  /\ phase = "files" /\ moving = {g} /\ g \in left /\ g \in Items
           /\ Want(g) /\ Moves(g) /\ Desired(g) \in claimed
<1>1. moving # {}
  OBVIOUS
<1>2. phase = "files"
  BY <1>1 DEF StrmInv, GatheredInv, InRun
<1>3. g \in left /\ Want(g) /\ Moves(g) /\ Desired(g) \in claimed
  BY DEF StrmInv, GatheredInv
<1>4. moving = {g}
  BY DEF StrmInv, GatheredInv
<1>5. g \in Items
  BY DEF StrmInv, TypeOK
<1> QED
  BY <1>2, <1>3, <1>4, <1>5

LEMMA RemoveOldKeeps ==
    ASSUME StrmInv, NEW g \in Items, RemoveOld(g)
    PROVE  StrmInv' /\ (PathsDiffer /\ OwnInv => OwnInv')
<1>1. /\ g \in moving /\ phase' = phase /\ RunFrame
      /\ files' = [files EXCEPT ![OldPath(g)] = NoFile]
      /\ keep' = keep \ {OldPath(g)}
      /\ paths' = [paths EXCEPT ![g] = Desired(g)]
      /\ moving' = {} /\ left' = left \ {g}
      /\ UNCHANGED <<bounds, claimed, failed>>
  BY DEF RemoveOld, KeepsRest, RunFrame, cycle
<1>2. RunType'
  BY <1>1, MovingItem DEF StrmInv, TypeOK, RunType
<1>3. /\ TypeOK' /\ RowsInv' /\ SourceInv'
      /\ \A h : /\ Want(h)' = Want(h) /\ Desired(h)' = Desired(h)
                /\ OldPath(h)' = OldPath(h) /\ Url(h)' = Url(h) /\ Moves(h)' = Moves(h)
      /\ \A path : FirstOf(path)' = FirstOf(path)
      /\ faults' = 0 => faults = 0
      /\ InRun /\ InRun'
  BY <1>1, <1>2, MovingItem, RunStep
<1>4. GatheredInv'
  BY <1>1, <1>3 DEF StrmInv, GatheredInv
<1>5. RecordInv'
  <2>1. \A h \in Items : files'[OldPath(h)] = files[OldPath(h)] \/ files'[OldPath(h)] = NoFile
    BY <1>1, RowPaths DEF StrmInv, TypeOK
  <2>2. files'[OldPath(g)] = NoFile
    BY <1>1, MovingItem, RowPaths DEF StrmInv, TypeOK
  <2>3. \A h \in Items : h # g => paths'[h] = paths[h]
    BY <1>1 DEF StrmInv, TypeOK
  <2> QED
    BY <1>1, <1>3, <2>1, <2>2, <2>3, MovingItem, StreamsDiffer DEF StrmInv, RecordInv
<1>6. ClaimInv'
  <2>1. \A path \in claimed : files'[path] = files[path] \/ files'[path] = NoFile
    BY <1>1 DEF StrmInv, TypeOK
  <2> QED
    BY <1>1, <1>3, MovingItem DEF StrmInv, ClaimInv
<1>7. ASSUME PathsDiffer, OwnInv PROVE OwnInv'
  <2> DEFINE old == OldPath(g)
  <2>1. /\ moving = {g} /\ Want(g) /\ old \in Paths /\ old # Desired(g)
        /\ Desired(g) \in PathsOf(g) /\ Desired(g) \in Paths /\ Desired(g) \in keep
        /\ files[Desired(g)] = Url(g)
    BY <1>1, <1>3, <1>7, MovingItem, RowPaths DEF StrmInv, OwnInv, KeptInv
  <2>2. \A h \in Items : h # g =>
          /\ Want(h) => Desired(h) # old
          /\ paths[h] # NoPath => paths[h] # old
          /\ paths'[h] = paths[h]
    BY <1>1, <1>7, PathsApart DEF StrmInv, OwnInv
  <2>3. paths'[g] = Desired(g)
    BY <1>1 DEF StrmInv, TypeOK
  <2>4. \A h \in Items : Want(h) => files'[Desired(h)] = files[Desired(h)]
    <3>1. \A path \in Paths : path # old => files'[path] = files[path]
      BY <1>1 DEF StrmInv, TypeOK
    <3>2. \A h \in Items : Want(h) => Desired(h) \in Paths /\ Desired(h) # old
      BY <2>1, <2>2, RowPaths DEF StrmInv
    <3> QED
      BY <3>1, <3>2
  <2>5. keep' = keep \ {old} /\ old = OldPath(g)
    BY <1>1
  <2> HIDE DEF old
  <2>6. OwnPathsInv'
    <3>1. \A h \in Items : /\ OldPath(h) \in PathsOf(h) \cup {NoPath}
                           /\ paths[h] \in PathsOf(h) \cup {NoPath}
      BY <1>7 DEF OwnInv, OwnPathsInv
    <3>2. \A h \in Items : paths'[h] \in PathsOf(h) \cup {NoPath}
      BY <2>1, <2>2, <2>3, <3>1
    <3> QED
      BY <1>3, <3>1, <3>2 DEF OwnPathsInv
  <2>7. KeptInv'
    <3>1. \A h \in Items : h # g /\ Want(h) /\ h \notin left' =>
            paths[h] \in keep \cup {NoPath} /\ paths[h] \in {NoPath} \cup (Paths \ {old})
      BY <1>1, <1>3, <1>7, <2>2 DEF TypeOK, OwnInv, KeptInv
    <3>2. \A h \in Items : Want(h) /\ h \notin left' => paths'[h] \in keep' \cup {NoPath}
      BY <2>1, <2>2, <2>3, <2>5, <3>1
    <3>3. moving' = {}
      BY <1>1
    <3> QED
      BY <1>3, <3>2, <3>3 DEF KeptInv
  <2>8. CleanInv'
    <3>1. SUFFICES ASSUME ~failed PROVE CleanInv'
      BY <1>1 DEF CleanInv
    <3>2. /\ \A h \in Items : Want(h) /\ (h \notin left \/ h \in moving) =>
                Desired(h) \in keep /\ files[Desired(h)] = Url(h)
          /\ \A h \in Items : Want(h) /\ h \notin left => paths[h] = Desired(h)
          /\ \A path \in keep : path # old => \E h \in Items : Want(h) /\ path = Desired(h)
      BY <1>3, <1>7, <2>1, <2>5, <3>1 DEF OwnInv, CleanInv
    <3>3. \A h \in Items : Want(h) /\ h \notin left' =>
            /\ Desired(h) \in keep' /\ files'[Desired(h)] = Url(h)
            /\ paths'[h] = Desired(h)
      <4>1. left' = left \ {g}
        BY <1>1
      <4>2. \A h \in Items : Want(h) => Desired(h) # old
        BY <2>1, <2>2
      <4>3. CASE g \in Items
        BY <2>1, <2>2, <2>3, <2>4, <2>5, <3>2, <4>1
      <4> QED
        BY <4>3
    <3> QED
      BY <1>1, <1>3, <2>5, <3>2, <3>3 DEF CleanInv
  <2> QED
    BY <2>6, <2>7, <2>8 DEF OwnInv
<1> QED
  BY <1>3, <1>4, <1>5, <1>6, <1>7 DEF StrmInv

LEMMA RemoveOldFailsKeeps ==
    ASSUME StrmInv, NEW g \in Items, RemoveOldFails(g)
    PROVE  StrmInv' /\ (PathsDiffer /\ OwnInv => OwnInv')
<1>1. /\ g \in moving /\ phase' = phase /\ RunFrame
      /\ moving' = {} /\ left' = left \ {g} /\ failed' = TRUE
      /\ Failing /\ UNCHANGED <<files, keep, claimed, paths>>
  BY DEF RemoveOldFails, KeepsRest, RunFrame, cycle
<1>2. RunType'
  BY <1>1 DEF StrmInv, TypeOK, RunType
<1>3. /\ TypeOK' /\ RowsInv' /\ SourceInv'
      /\ \A h : /\ Want(h)' = Want(h) /\ Desired(h)' = Desired(h)
                /\ OldPath(h)' = OldPath(h) /\ Url(h)' = Url(h) /\ Moves(h)' = Moves(h)
      /\ \A path : FirstOf(path)' = FirstOf(path)
      /\ faults' = 0 => faults = 0
      /\ InRun /\ InRun'
  BY <1>1, <1>2, MovingItem, RunStep
<1>4. GatheredInv'
  BY <1>1, <1>3 DEF StrmInv, GatheredInv
<1>5. RecordInv'
  BY <1>1, <1>3 DEF StrmInv, RecordInv
<1>6. ClaimInv'
  BY <1>1, <1>3, MovingItem DEF StrmInv, ClaimInv
<1>7. ASSUME PathsDiffer, OwnInv PROVE OwnInv'
  <2>1. OwnPathsInv'
    BY <1>1, <1>3, <1>7 DEF OwnInv, OwnPathsInv
  <2>2. KeptInv'
    <3>1. paths[g] = OldPath(g) /\ OldPath(g) \in keep
      BY <1>1, <1>3, <1>7, MovingItem DEF StrmInv, RecordInv, OwnInv, KeptInv
    <3> QED
      BY <1>1, <1>3, <1>7, <3>1 DEF OwnInv, KeptInv
  <2>3. CleanInv'
    BY <1>1 DEF CleanInv
  <2> QED
    BY <2>1, <2>2, <2>3 DEF OwnInv
<1> QED
  BY <1>3, <1>4, <1>5, <1>6, <1>7 DEF StrmInv

---------------------------------------------------------------------------
\* The end of a run.

LEMMA SavePathsKeeps ==
    ASSUME StrmInv, SavePaths PROVE StrmInv' /\ (OwnInv => OwnInv')
<1>1. /\ phase = "files" /\ phase' = "sweep" /\ left = {}
      /\ catalog' = [g \in Items |-> [catalog[g] EXCEPT !.strm = paths[g]]]
      /\ UNCHANGED <<world, settings, indexed, local, mirror, listed, todo, elected, bounds>>
      /\ UNCHANGED <<files, left, moving, keep, claimed, paths, failed>>
  BY DEF SavePaths
<1>2. \A g \in Items :
        /\ catalog'[g] \in Row /\ catalog'[g].strm = paths[g]
        /\ catalog'[g].present = catalog[g].present /\ catalog'[g].local = catalog[g].local
        /\ catalog'[g].peer = catalog[g].peer /\ catalog'[g].hidden = catalog[g].hidden
        /\ catalog'[g].folder = catalog[g].folder
  <2>1. SUFFICES ASSUME NEW g \in Items, NEW row, row = [catalog[g] EXCEPT !.strm = paths[g]]
                 PROVE  /\ row \in Row /\ row.strm = paths[g]
                        /\ row.present = catalog[g].present /\ row.local = catalog[g].local
                        /\ row.peer = catalog[g].peer /\ row.hidden = catalog[g].hidden
                        /\ row.folder = catalog[g].folder
    BY <1>1
  <2>2. catalog[g] \in Row /\ paths[g] \in Paths \cup {NoPath}
    BY DEF StrmInv, TypeOK
  <2> QED
    BY <2>1, <2>2 DEF Row
<1>3. catalog' \in [Items -> Row]
  BY <1>1, <1>2
<1>4. TypeOK'
  <2>1. WorldType' /\ IndexType' /\ CycleType' /\ RunType'
    BY <1>1, <1>3
       DEF world, jellyfin, settings, bounds, StrmInv, TypeOK, WorldType, IndexType,
           CycleType, RunType, Phases
  <2> QED
    BY <2>1 DEF TypeOK, WorldType, IndexType, CycleType, RunType
<1>5. RowsInv' /\ SourceInv'
  BY <1>1, <1>2 DEF StrmInv, RowsInv, SourceInv, Source
<1>6. /\ \A g \in Items : Want(g)' = Want(g) /\ Desired(g)' = Desired(g) /\ Url(g)' = Url(g)
      /\ \A g \in Items : OldPath(g)' = paths[g]
      /\ InRun /\ InRun' /\ moving = {} /\ faults' = faults
  <2>1. \A g \in Items : Want(g)' = Want(g)
    BY <1>2 DEF Want
  <2>2. \A g \in Items : Desired(g)' = Desired(g) /\ Url(g)' = Url(g)
    BY <1>2 DEF Desired, Url
  <2>3. moving = {} /\ faults' = faults
    BY <1>1 DEF bounds, StrmInv, GatheredInv
  <2> QED
    BY <1>1, <1>2, <2>1, <2>2, <2>3 DEF OldPath, InRun
<1>7. GatheredInv' /\ RecordInv'
  BY <1>1, <1>6 DEF GatheredInv, RecordInv
<1>8. ClaimInv'
  <2>1. \A path : FirstOf(path)' = FirstOf(path)
    BY <1>6 DEF FirstOf, Claimants
  <2>2. \A path : FirstOf(path) \subseteq Items
    BY DEF FirstOf, Claimants
  <2> QED
    BY <1>1, <1>6, <2>1, <2>2 DEF StrmInv, ClaimInv
<1>9. OwnInv => OwnInv'
  BY <1>1, <1>6 DEF OwnInv, OwnPathsInv, KeptInv, CleanInv
<1> QED
  BY <1>4, <1>5, <1>7, <1>8, <1>9 DEF StrmInv

\* However a run ends, nothing it has gathered is left.
LEMMA ForgetKeeps ==
    ASSUME StrmInv, Forget, UNCHANGED <<world, settings, tables>>, changes' \in Nat,
           faults' \in Nat, failed' \in BOOLEAN,
           files' \in [Paths -> (Peers \X Items) \cup {NoFile}]
    PROVE  StrmInv' /\ (OwnInv => OwnInv')
<1>1. /\ phase' = "idle" /\ listed' = NoListing /\ todo' = {} /\ elected' = NotElected
      /\ left' = {} /\ moving' = {} /\ keep' = {} /\ claimed' = {}
      /\ paths' = NothingRecorded
  BY DEF Forget
<1>2. TypeOK'
  <2>1. WorldType' /\ IndexType'
    BY DEF world, jellyfin, settings, tables, StrmInv, TypeOK, WorldType, IndexType
  <2>2. CycleType'
    BY <1>1, NoRowIsRow DEF tables, NoListing, StrmInv, TypeOK, CycleType, Phases
  <2>3. RunType'
    BY <1>1 DEF NothingRecorded, RunType
  <2> QED
    BY <2>1, <2>2, <2>3 DEF TypeOK, WorldType, IndexType, CycleType, RunType
<1>3. RowsInv'
  BY <1>1 DEF tables, StrmInv, RowsInv, NotElected, NoRow
<1>4. ~InRun' /\ phase' # "files" /\ phase' # "sweep"
  BY <1>1 DEF InRun
<1>5. SourceInv' /\ GatheredInv' /\ RecordInv' /\ ClaimInv'
  BY <1>1, <1>4 DEF SourceInv, GatheredInv, RecordInv, ClaimInv
<1>6. OwnInv => OwnInv'
  BY <1>1, <1>4
     DEF tables, NothingRecorded, OwnInv, OwnPathsInv, KeptInv, CleanInv, OldPath
<1> QED
  BY <1>2, <1>3, <1>5, <1>6 DEF StrmInv

LEMMA SweepKeeps ==
    ASSUME StrmInv, Sweep \/ SweepFails \/ RunFails PROVE StrmInv' /\ (OwnInv => OwnInv')
<1>1. /\ Forget /\ UNCHANGED <<world, settings, tables>>
      /\ bounds' = bounds \/ Failing
      /\ failed' = failed \/ failed' = TRUE
  BY DEF Sweep, SweepFails, RunFails
<1>2. changes' \in Nat /\ faults' \in Nat
  BY <1>1 DEF bounds, Failing, StrmInv, TypeOK
<1>3. files' \in [Paths -> (Peers \X Items) \cup {NoFile}]
  <2>1. files \in [Paths -> (Peers \X Items) \cup {NoFile}]
    BY DEF StrmInv, TypeOK
  <2>2. CASE RunFails
    BY <2>1, <2>2 DEF RunFails
  <2>3. CASE Sweep
    BY <2>1, <2>3 DEF Sweep
  <2>4. CASE SweepFails
    BY <2>1, <2>4 DEF SweepFails
  <2> QED
    BY <2>2, <2>3, <2>4
<1>4. failed' \in BOOLEAN
  <2>1. failed \in BOOLEAN
    BY DEF StrmInv, TypeOK
  <2> QED
    BY <1>1, <2>1
<1> QED
  BY <1>1, <1>2, <1>3, <1>4, ForgetKeeps

---------------------------------------------------------------------------
\* The invariants.

LEMMA InitEstablishes == Init => StrmInv /\ OwnInv
<1> SUFFICES ASSUME Init PROVE StrmInv /\ OwnInv
  OBVIOUS
<1>1. /\ phase = "idle" /\ left = {} /\ moving = {} /\ keep = {} /\ claimed = {}
      /\ paths = NothingRecorded /\ elected = NotElected
      /\ catalog = [g \in Items |-> NoRow]
  BY DEF Init, ElectionInit
<1>2. TypeOK
  <2>1. WorldType
    BY DEF Init, ElectionInit, WorldType
  <2>2. IndexType
    BY DEF Init, ElectionInit, NoOffers, IndexType
  <2>3. CycleType
    BY NoRowIsRow DEF Init, ElectionInit, NoListing, CycleType, Phases
  <2>4. RunType
    BY <1>1 DEF Init, NothingRecorded, RunType
  <2> QED
    BY <2>1, <2>2, <2>3, <2>4, TypeParts
<1>3. RowsInv
  BY <1>1 DEF NotElected, NoRow, RowsInv
<1>4. ~InRun
  BY <1>1 DEF InRun
<1>5. SourceInv /\ GatheredInv /\ RecordInv /\ ClaimInv
  BY <1>1, <1>4 DEF SourceInv, GatheredInv, RecordInv, ClaimInv
<1>6. OwnInv
  BY <1>1, <1>4
     DEF NothingRecorded, NoRow, OwnInv, OwnPathsInv, KeptInv, CleanInv, OldPath
<1> QED
  BY <1>2, <1>3, <1>5, <1>6 DEF StrmInv

LEMMA StepKeeps ==
    ASSUME StrmInv, [Next]_vars PROVE StrmInv' /\ (PathsDiffer /\ OwnInv => OwnInv')
<1>1. CASE SyncStep /\ filesUntouched
  BY <1>1, SyncStepKeeps
<1>2. CASE /\ filesUntouched
           /\ RefreshWithoutRoots \/ \E p \in Peers : PullPeerFails(p)
  BY <1>2, SyncFaultKeeps
<1>3. CASE Meanwhile /\ filesUntouched
  BY <1>3, MeanwhileKeeps
<1>4. CASE JellyfinScans
  BY <1>4, JellyfinScansKeeps
<1>5. CASE StartReconcile \/ SavePaths
  BY <1>5, StartReconcileKeeps, SavePathsKeeps
<1>6. CASE Sweep \/ SweepFails \/ RunFails
  BY <1>6, SweepKeeps
<1>7. CASE \E g \in Items : SkipUnwanted(g) \/ RemoveUnwanted(g) \/ RemoveUnwantedFails(g)
  BY <1>7, SkipUnwantedKeeps, RemoveUnwantedKeeps, RemoveUnwantedFailsKeeps
<1>8. CASE \E g \in Items : SkipClaimed(g) \/ WriteFile(g) \/ WriteFileFails(g)
  BY <1>8, SkipClaimedKeeps, WriteFileKeeps, WriteFileFailsKeeps
<1>9. CASE \E g \in Items : RemoveOld(g) \/ RemoveOldFails(g)
  BY <1>9, RemoveOldKeeps, RemoveOldFailsKeeps
<1>10. CASE UNCHANGED vars
  <2>1. UNCHANGED <<tables, cycle, faults, files, reconcile, failed>>
    BY <1>10 DEF vars, tables, cycle, reconcile
  <2>2. WorldType' /\ changes' \in Nat
    BY <1>10 DEF vars, StrmInv, TypeOK, WorldType
  <2> QED
    BY <2>1, <2>2, FrameKeeps
<1> QED
  BY <1>1, <1>2, <1>3, <1>4, <1>5, <1>6, <1>7, <1>8, <1>9, <1>10
     DEF Next, FileStep, FileFault

---------------------------------------------------------------------------
\* What holds whatever paths items map to.

THEOREM StrmInvHolds == Spec => []StrmInv
<1>1. Init => StrmInv
  BY InitEstablishes
<1>2. StrmInv /\ [Next]_vars => StrmInv'
  BY StepKeeps
<1> QED
  BY <1>1, <1>2, PTL DEF Spec

\* Tables, output directory and what a run holds in memory stay in their types.
THEOREM StrmTypeCorrect == Spec => []TypeOK
<1>1. StrmInv => TypeOK
  BY DEF StrmInv
<1> QED
  BY <1>1, StrmInvHolds, PTL

\* The rows are written by two steps only.
LEMMA RowsAreWrittenBy ==
    ASSUME [Next]_vars PROVE UNCHANGED catalog \/ WriteElection \/ SavePaths
<1> USE DEF tables
<1>1. SyncStep => UNCHANGED catalog \/ WriteElection
  BY DEF SyncStep, RefreshLocal, RefreshFrom, KeepLocal, ListPeers, PullPeer, Prune,
         Elect
<1>2. RefreshWithoutRoots \/ (\E p \in Peers : PullPeerFails(p)) => UNCHANGED catalog
  BY DEF RefreshWithoutRoots, RefreshFrom, PullPeerFails
<1>3. Meanwhile \/ JellyfinScans => UNCHANGED catalog
  BY MeanwhileFrame DEF JellyfinScans
<1>4. FileStep => UNCHANGED catalog \/ SavePaths
  BY DEF FileStep, StartReconcile, SkipUnwanted, RemoveUnwanted, SkipClaimed, WriteFile,
         RemoveOld, Sweep, KeepsRest
<1>5. FileFault => UNCHANGED catalog
  BY DEF FileFault, RemoveUnwantedFails, WriteFileFails, RemoveOldFails, SweepFails,
         RunFails, KeepsRest
<1> QED
  BY <1>1, <1>2, <1>3, <1>4, <1>5 DEF Next, vars

\* Where a file could not be removed, the row that names it goes on naming it,
\* so that the next run tries again, local, hidden or no longer offered; only
\* a row deleted because it is local no longer is lost with its file.
THEOREM FailedRemovalsAreRetried == Spec => FailedRemovalIsRetried
<1>1. StrmInv /\ [Next]_vars =>
        \A g \in Items :
          /\ OldPath(g) # NoPath /\ OldPath(g)' # OldPath(g)
          /\ ~(catalog[g].local /\ ~catalog'[g].present)
          => files[OldPath(g)] \notin StreamsOf(g)
  <2> SUFFICES ASSUME StrmInv, [Next]_vars, NEW g \in Items,
                      OldPath(g) # NoPath, OldPath(g)' # OldPath(g),
                      ~(catalog[g].local /\ ~catalog'[g].present)
               PROVE  files[OldPath(g)] \notin StreamsOf(g)
    OBVIOUS
  <2>1. CASE UNCHANGED catalog
    BY <2>1 DEF OldPath
  <2>2. CASE WriteElection
    <3>1. catalog'[g] = WrittenRow(g) /\ OldPath(g)' = WrittenRow(g).strm
      BY <2>2 DEF WriteElection, OldPath
    <3> QED
      BY <3>1, WrittenRowIsSound DEF OldPath
  <2>3. CASE SavePaths
    <3>1. OldPath(g)' = paths[g] /\ phase = "files"
      <4>1. catalog[g] \in Row
        BY DEF StrmInv, TypeOK
      <4>2. catalog'[g] = [catalog[g] EXCEPT !.strm = paths[g]] /\ phase = "files"
        BY <2>3 DEF SavePaths
      <4> QED
        BY <4>1, <4>2 DEF OldPath, Row
    <3> QED
      BY <3>1 DEF StrmInv, RecordInv
  <2> QED
    BY <2>1, <2>2, <2>3, RowsAreWrittenBy
<1> QED
  BY <1>1, StrmInvHolds, PTL DEF Spec, FailedRemovalIsRetried

\* A hide goes only by the user's hand, or when no source has the item: what
\* the election was made from is still there when its outcome is written.
THEOREM HidesOutliveOutages == Spec => HideOutlivesOutages
<1>1. StrmInv /\ [Next]_vars =>
        \A k \in hides \ hides' :
          UnhideItem \/ \A g \in Items :
                           Key[g] = k => /\ local[g] = "absent"
                                         /\ \A p \in Peers : mirror[p][g] = "none"
  <2> SUFFICES ASSUME StrmInv, [Next]_vars, NEW k \in hides, k \notin hides', ~UnhideItem
               PROVE  \A g \in Items : Key[g] = k => /\ local[g] = "absent"
                                                     /\ \A p \in Peers : mirror[p][g] = "none"
    OBVIOUS
  <2> USE DEF settings, tables
  <2>1. WriteElection
    <3>1. SyncStep => WriteElection
      BY DEF SyncStep, RefreshLocal, RefreshFrom, KeepLocal, ListPeers, PullPeer, Prune,
             Elect
    <3>2. ~RefreshWithoutRoots /\ ~(\E p \in Peers : PullPeerFails(p))
      BY DEF RefreshWithoutRoots, RefreshFrom, PullPeerFails
    <3>3. ~Meanwhile /\ ~JellyfinScans
      BY DEF Meanwhile, LibraryChanges, OfferChanges, PeerHealthChanges, PeersChange,
             HideItem, ExcludeFolder, JellyfinScans
    <3>4. ~FileStep
      BY DEF FileStep, StartReconcile, SkipUnwanted, RemoveUnwanted, SkipClaimed,
             WriteFile, RemoveOld, SavePaths, Sweep, KeepsRest
    <3>5. ~FileFault
      BY DEF FileFault, RemoveUnwantedFails, WriteFileFails, RemoveOldFails, SweepFails,
             RunFails, KeepsRest
    <3> QED
      BY <3>1, <3>2, <3>3, <3>4, <3>5 DEF Next, vars
  <2>2. k \notin OfferedKeys
    BY <2>1 DEF WriteElection, StrmInv, SourceInv
  <2> QED
    BY <2>2 DEF OfferedKeys
<1> QED
  BY <1>1, StrmInvHolds, PTL DEF Spec, HideOutlivesOutages

\* Of several items that want one path it is never a later one that has it
\* when a run without faults ends, also after rows came, went and moved.
THEOREM LaterClaimsNeverWin == Spec => LaterClaimNeverWins
<1>1. StrmInv /\ Sweep /\ faults = 0 =>
        \A path \in Paths :
          Claimants(path) # {} => files'[path] \in {NoFile, Url(Min(Claimants(path)))}
  <2> SUFFICES ASSUME StrmInv, Sweep, faults = 0, NEW path \in Paths, Claimants(path) # {}
               PROVE  files'[path] \in {NoFile, Url(Min(Claimants(path)))}
    OBVIOUS
  <2>1. files'[path] = NoFile \/ files'[path] = files[path]
    BY DEF Sweep
  <2>2. phase = "sweep" /\ InRun /\ left = {}
    BY DEF Sweep, InRun, StrmInv, GatheredInv
  <2>3. path \in claimed
    BY <2>2 DEF StrmInv, ClaimInv, Claimants
  <2>4. files[path] = NoFile \/ \E g \in FirstOf(path) : files[path] = Url(g)
    BY <2>2, <2>3 DEF StrmInv, ClaimInv
  <2>5. \A g \in FirstOf(path) : g = Min(Claimants(path))
    <3>1. Claimants(path) \in SUBSET Nat
      BY DEF Claimants
    <3>2. /\ Min(Claimants(path)) \in Claimants(path)
          /\ \A h \in Claimants(path) : Min(Claimants(path)) <= h
      BY <3>1, LeastElement
    <3> QED
      BY <3>1, <3>2 DEF FirstOf
  <2> QED
    BY <2>1, <2>4, <2>5
<1> QED
  BY <1>1, StrmInvHolds, PTL DEF Spec, LaterClaimNeverWins

\* What a refresh that reads Jellyfin in full takes for the node's own.
LEMMA EntriesAreOwn ==
    ASSUME TypeOK,
           NEW entries, entries = LocalEntries(Listing(lib, scanned, orphans), TRUE)
    PROVE  /\ entries \cap Playable = lib \cap Playable
           /\ \A root \in entries \ Playable :
                \/ \E g \in lib : Key[g] = Key[root]
                \/ \A g \in scanned : Key[g] # Key[root] \/ g = root
<1> DEFINE At(g, place) == [id |-> g, place |-> place]
           items == ListItems(Listing(lib, scanned, orphans), TRUE)
<1>1. items = Listed("library", lib) \cup Listed("output", scanned)
  BY DEF ListItems, Listing, Listed, IsRealMedia, UnderAny
<1> HIDE DEF items
<1>2. \A it \in items : \/ it.place = "library" /\ it.id \in lib
                        \/ it.place = "output" /\ it.id \in scanned
  <2>1. /\ \A it \in Listed("library", lib) : it.place = "library" /\ it.id \in lib
        /\ \A it \in Listed("output", scanned) : it.place = "output" /\ it.id \in scanned
    BY DEF Listed
  <2> QED
    BY <1>1, <2>1
<1>3. /\ \A g \in lib : At(g, "library") \in items
      /\ \A g \in scanned : At(g, "output") \in items
  BY <1>1 DEF Listed
<1>4. entries = {it.id : it \in {i \in items : ~IsStrm(i) /\ ~IsOwnRoot(items, i)}}
  BY DEF LocalEntries, items
<1>5. \A g \in lib \cap Playable : g \in entries
  <2> SUFFICES ASSUME NEW g \in lib \cap Playable PROVE g \in entries
    OBVIOUS
  <2>1. /\ At(g, "library").id = g /\ At(g, "library") \in items
        /\ ~IsStrm(At(g, "library")) /\ ~IsOwnRoot(items, At(g, "library"))
    BY <1>3 DEF IsStrm, IsOwnRoot
  <2> HIDE DEF At
  <2> QED
    BY <1>4, <2>1
<1>6. \A g \in entries : \E it \in items : it.id = g /\ ~IsStrm(it) /\ ~IsOwnRoot(items, it)
  BY <1>4
<1>7. ASSUME NEW g \in entries \cap Playable PROVE g \in lib
  <2>1. PICK it \in items : it.id = g /\ ~IsStrm(it)
    BY <1>6
  <2>2. it.place # "output"
    BY <2>1, <1>7 DEF IsStrm
  <2> QED
    BY <1>2, <2>1, <2>2
<1>8. ASSUME NEW root \in entries, root \notin Playable, NEW g \in scanned,
             Key[g] = Key[root], g # root
      PROVE  \E h \in lib : Key[h] = Key[root]
  <2>1. PICK it \in items : it.id = root /\ ~IsStrm(it) /\ ~IsOwnRoot(items, it)
    BY <1>6, <1>8
  <2>2. root \in Items /\ g \in Items
    BY <1>2, <1>8, <2>1 DEF TypeOK
  <2>3. g \in Playable
    BY <1>8, <2>2, RootKeyAssumption
  <2>4. At(g, "output") \in Episodes(items, root)
    BY <1>3, <1>8, <2>3 DEF Episodes
  <2>5. PICK ep \in Episodes(items, root) : ~IsStrm(ep)
    BY <1>8, <2>1, <2>4 DEF IsOwnRoot
  <2>6. ep \in items /\ ep.id \in Playable /\ Key[ep.id] = Key[root]
    BY DEF Episodes
  <2>7. ep.id \in lib
    BY <1>2, <2>5, <2>6 DEF IsStrm
  <2> QED
    BY <2>6, <2>7
<1> QED
  BY <1>5, <1>7, <1>8

\* The node's own .strm files, found by Jellyfin as media, do not come back as
\* its library, in whatever state of library, scan and output directory.
THEOREM OwnFilesAreForeign == Spec => OwnFilesStayForeign
<1>1. TypeOK /\ RefreshLocal =>
        /\ {g \in Playable : local'[g] # "absent"} = lib \cap Playable
        /\ \A root \in Items \ Playable :
              local'[root] # "absent" =>
                 \/ \E g \in lib : Key[g] = Key[root]
                 \/ \A g \in scanned : Key[g] # Key[root] \/ g = root
  <2> SUFFICES ASSUME TypeOK, RefreshLocal
               PROVE  /\ {g \in Playable : local'[g] # "absent"} = lib \cap Playable
                      /\ \A root \in Items \ Playable :
                            local'[root] # "absent" =>
                               \/ \E g \in lib : Key[g] = Key[root]
                               \/ \A g \in scanned : Key[g] # Key[root] \/ g = root
    OBVIOUS
  <2> DEFINE entries == LocalEntries(Listing(lib, scanned, orphans), TRUE)
  <2>1. \A g \in Items : local'[g] # "absent" <=> g \in entries
    BY DEF RefreshLocal, RefreshFrom
  <2>2. /\ entries \cap Playable = lib \cap Playable
        /\ \A root \in entries \ Playable :
              \/ \E g \in lib : Key[g] = Key[root]
              \/ \A g \in scanned : Key[g] # Key[root] \/ g = root
    BY EntriesAreOwn
  <2> HIDE DEF entries
  <2> QED
    BY <2>1, <2>2
<1> QED
  BY <1>1, StrmTypeCorrect, PTL DEF Spec, OwnFilesStayForeign

---------------------------------------------------------------------------
\* What holds if items do not share paths.

LEMMA StrmAndOwnInvHold == ASSUME PathsDiffer PROVE Spec => [](StrmInv /\ OwnInv)
<1>1. Init => StrmInv /\ OwnInv
  BY InitEstablishes
<1>2. (StrmInv /\ OwnInv) /\ [Next]_vars => (StrmInv /\ OwnInv)'
  BY StepKeeps
<1> QED
  BY <1>1, <1>2, PTL DEF Spec

\* After a run without failures the output directory is the elected items,
\* one file each, recorded, from a peer whose mirror has it, and no other.
THEOREM CleanRunsAreExact == ASSUME PathsDiffer PROVE Spec => CleanRunIsExact
<1> DEFINE Owners(path) == {g \in Playable : /\ catalog[g].peer # NoPeer
                                             /\ ~catalog[g].hidden /\ ~catalog[g].folder
                                             /\ Desired(g) = path}
<1>1. StrmInv /\ OwnInv /\ Sweep /\ ~failed =>
        \A path \in Paths :
          LET owners == {g \in Playable : /\ catalog[g].peer # NoPeer
                                          /\ ~catalog[g].hidden /\ ~catalog[g].folder
                                          /\ Desired(g) = path}
          IN  IF owners = {} THEN files'[path] = NoFile
              ELSE \E g \in owners : /\ files'[path] = Url(g)
                                     /\ catalog[g].strm = path
                                     /\ local[g] = "absent"
                                     /\ mirror[catalog[g].peer][g] # "none"
  <2> SUFFICES ASSUME StrmInv, OwnInv, Sweep, ~failed, NEW path \in Paths
               PROVE  IF Owners(path) = {} THEN files'[path] = NoFile
                      ELSE \E g \in Owners(path) : /\ files'[path] = Url(g)
                                                   /\ catalog[g].strm = path
                                                   /\ local[g] = "absent"
                                                   /\ mirror[catalog[g].peer][g] # "none"
    OBVIOUS
  <2>1. /\ phase = "sweep" /\ InRun /\ left = {} /\ moving = {}
        /\ files'[path] = IF path \in keep THEN files[path] ELSE NoFile
    BY DEF Sweep, InRun, StrmInv, GatheredInv
  <2>2. \A g \in Items : g \in Owners(path) <=> Want(g) /\ Desired(g) = path
    BY DEF Want, StrmInv, RowsInv
  <2>3. Owners(path) \subseteq Items
    OBVIOUS
  <2>4. CASE Owners(path) = {}
    <3>1. path \notin keep
      BY <2>1, <2>2, <2>4 DEF OwnInv, CleanInv
    <3> QED
      BY <2>1, <2>4, <3>1
  <2>5. CASE Owners(path) # {}
    <3>1. PICK g \in Owners(path) : g \in Items /\ Want(g) /\ Desired(g) = path
      BY <2>2, <2>3, <2>5
    <3>2. path \in keep /\ files[path] = Url(g) /\ paths[g] = path
      BY <2>1, <3>1 DEF OwnInv, CleanInv
    <3>3. catalog[g].strm = path
      BY <2>1, <3>2 DEF StrmInv, RecordInv, OldPath
    <3>4. local[g] = "absent" /\ mirror[catalog[g].peer][g] # "none"
      BY <2>1 DEF StrmInv, SourceInv, Source
    <3> QED
      BY <2>1, <3>2, <3>3, <3>4
  <2> QED
    BY <2>4, <2>5
<1> QED
  BY <1>1, StrmAndOwnInvHold, PTL DEF Spec, CleanRunIsExact

\* The directory after a step, as seen by an item whose recorded file streams it.
LEMMA ItemKeepsAFile ==
    ASSUME PathsDiffer, StrmInv, OwnInv, [Next]_vars, NEW g \in Items,
           Want(g), OldPath(g) # NoPath, files[OldPath(g)] \in StreamsOf(g)
    PROVE  HasFile(g)'
<1> DEFINE old == OldPath(g)
<1>1. /\ old \in Paths /\ Desired(g) \in Paths /\ Url(g) \in StreamsOf(g)
      /\ files \in [Paths -> (Peers \X Items) \cup {NoFile}]
  BY RowPaths DEF StrmInv, TypeOK
<1>2. ASSUME files'[old] = files[old] PROVE HasFile(g)'
  BY <1>1, <1>2 DEF HasFile
<1>3. CASE UNCHANGED files
  BY <1>2, <1>3
<1>4. ASSUME NEW h \in Items, RemoveUnwanted(h) PROVE HasFile(g)'
  <2>1. h # g /\ paths[h] = OldPath(h) /\ OldPath(h) # NoPath
    BY <1>4 DEF RemoveUnwanted, Turn, StrmInv, RecordInv
  <2>2. OldPath(h) # old
    BY <2>1, PathsApart DEF StrmInv, OwnInv
  <2> QED
    BY <1>2, <1>4, <2>2 DEF RemoveUnwanted
<1>5. ASSUME NEW h \in Items, WriteFile(h) PROVE HasFile(g)'
  <2>1. CASE h = g
    <3>1. files'[Desired(g)] = Url(g)
      BY <1>1, <1>5, <2>1 DEF WriteFile
    <3> QED
      BY <1>1, <3>1 DEF HasFile
  <2>2. CASE h # g
    <3>1. Desired(h) # old
      BY <1>5, <2>2, PathsApart DEF WriteFile, StrmInv, OwnInv
    <3> QED
      BY <1>2, <1>5, <3>1 DEF WriteFile
  <2> QED
    BY <2>1, <2>2
<1>6. ASSUME NEW h \in Items, RemoveOld(h) PROVE HasFile(g)'
  <2>1. /\ h \in moving /\ phase = "files" /\ h \in left /\ Moves(h)
        /\ files' = [files EXCEPT ![OldPath(h)] = NoFile]
    BY <1>6, MovingItem DEF RemoveOld
  <2>2. CASE h = g
    <3>1. files[Desired(g)] = Url(g) /\ Desired(g) # old
      BY <2>1, <2>2 DEF Moves, InRun, OwnInv, KeptInv
    <3>2. files'[Desired(g)] = Url(g)
      BY <1>1, <2>1, <2>2, <3>1
    <3> QED
      BY <1>1, <3>2 DEF HasFile
  <2>3. CASE h # g
    <3>1. paths[h] = OldPath(h) /\ OldPath(h) # NoPath
      BY <2>1 DEF Moves, StrmInv, RecordInv
    <3>2. OldPath(h) # old
      BY <2>3, <3>1, PathsApart DEF StrmInv, OwnInv
    <3> QED
      BY <1>1, <1>2, <2>1, <3>2
  <2> QED
    BY <2>2, <2>3
<1>7. CASE Sweep \/ SweepFails
  <2>1. phase = "sweep" /\ InRun /\ left = {}
    BY <1>7 DEF Sweep, SweepFails, InRun, StrmInv, GatheredInv
  <2>2. old \in keep
    BY <2>1 DEF StrmInv, RecordInv, OwnInv, KeptInv
  <2> QED
    BY <1>1, <1>2, <1>7, <2>2 DEF Sweep, SweepFails
<1>8. FileStep =>
        \/ UNCHANGED files \/ Sweep
        \/ \E h \in Items : RemoveUnwanted(h) \/ WriteFile(h) \/ RemoveOld(h)
  BY DEF FileStep, StartReconcile, SkipUnwanted, SkipClaimed, SavePaths
<1>9. FileFault => UNCHANGED files \/ SweepFails
  BY DEF FileFault, RemoveUnwantedFails, WriteFileFails, RemoveOldFails, RunFails
<1>10. FileStep \/ FileFault \/ UNCHANGED files
  BY DEF Next, vars, filesUntouched, JellyfinScans
<1> QED
  BY <1>3, <1>4, <1>5, <1>6, <1>7, <1>8, <1>9, <1>10

\* An item that stays offered does not lose its recorded file, whatever moves
\* it, fails, crashes or is swept.
THEOREM OfferedItemsKeepAFile == ASSUME PathsDiffer PROVE Spec => OfferedItemKeepsAFile
<1>1. StrmInv /\ OwnInv /\ [Next]_vars =>
        \A g \in Items :
          (Want(g) /\ OldPath(g) # NoPath /\ files[OldPath(g)] \in StreamsOf(g))
          => HasFile(g)'
  BY ItemKeepsAFile
<1> QED
  BY <1>1, StrmAndOwnInvHold, PTL DEF Spec, OfferedItemKeepsAFile
=============================================================================
