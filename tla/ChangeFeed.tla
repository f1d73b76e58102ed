---------------------------- MODULE ChangeFeed ----------------------------
(***************************************************************************)
(* The provider's half of catalog replication: the local catalog index of  *)
(* one node (internal/catalog/index.go) and the change feed it serves from *)
(* it.  Every item of the library has at most one row; a row carries the   *)
(* revision of its last change, so a follower can ask for "everything      *)
(* after revision s".  Removals stay as tombstones until they expire; the  *)
(* feed remembers in minRev the newest tombstone it has dropped.           *)
(*                                                                         *)
(* Abstractions.  An item is a number (the code orders global ids as       *)
(* strings), its catalog entry a value in Vals: the content hash of the    *)
(* code tells two entries apart exactly when the values differ.  A refresh *)
(* is one step: it holds Index.mu, the only writer of these tables, and    *)
(* writes them in one transaction.  Time is abstracted to "which of the    *)
(* tombstones have expired by now": any of them may have.                  *)
(***************************************************************************)
EXTENDS Integers, FiniteSets

CONSTANTS
    Items,      \* global ids, ordered
    Vals,       \* contents of a catalog entry
    None,       \* no entry
    Tombstone,  \* what a page says of an item that is no longer offered
    PageSize,   \* changes per page (pullPageSize, after the handler's clamp)
    MaxHead,    \* bound: revisions of one feed
    MaxEpoch    \* bound: feeds, i.e. how often the database is recreated

ASSUME ItemsAssumption == Items \subseteq Nat /\ IsFiniteSet(Items)
ASSUME ValsAssumption ==
    /\ None \notin Vals
    /\ Tombstone \notin Vals
    /\ None # Tombstone
ASSUME PageSizeAssumption == PageSize \in Nat \ {0}
ASSUME BoundsAssumption == MaxHead \in Nat /\ MaxEpoch \in Nat

VARIABLES
    epoch,      \* setting catalog_epoch: identifies this feed's history
    indexed,    \* setting catalog_indexed_at exists
    head,       \* setting catalog_head: last revision handed out
    minRev,     \* setting catalog_min_rev: newest tombstone dropped
    rows        \* table local_catalog

feedVars == <<epoch, indexed, head, minRev, rows>>

\* Epochs are random ids in the code; they are numbered in order of creation.
NoEpoch == 0
NoRow == [val |-> None, rev |-> 0, deleted |-> TRUE, hidden |-> FALSE]
Row == [val: Vals \cup {None}, rev: Nat, deleted: BOOLEAN, hidden: BOOLEAN]

\* A row offered to peers: neither removed from the library nor hidden.
Served(g) == ~rows[g].deleted /\ ~rows[g].hidden

\* Index.Entries: the catalog as peers should see it now.
Offered == [g \in Items |-> IF Served(g) THEN rows[g].val ELSE None]

---------------------------------------------------------------------------
\* Refresh: a listing maps every item to its entry in the library or None;
\* hid is the set of listed items the user has hidden.

\* Items written as live rows: new, back from a tombstone, or different.
Changed(listing, hid) ==
    {g \in Items : /\ listing[g] # None
                   /\ \/ rows[g].deleted
                      \/ rows[g].val # listing[g]
                      \/ rows[g].hidden # (g \in hid)}

\* Live rows whose item has left the library.
Removed(listing) == {g \in Items : listing[g] = None /\ ~rows[g].deleted}

\* Position of g in the sorted members of S.
Rank(S, g) == Cardinality({h \in S : h =< g})

\* Revisions are handed out to the changed items in order, then to the
\* removed ones.
HeadAfter(listing, hid) ==
    head + Cardinality(Changed(listing, hid)) + Cardinality(Removed(listing))

\* Mutant of Written: an item that is only hidden or unhidden keeps its rev.
WrittenInPlace(listing, hid, g) ==
    LET upserts == Changed(listing, hid)
        removals == Removed(listing)
    IN  IF g \in upserts
        THEN [val |-> listing[g],
              rev |-> IF rows[g].val = listing[g] /\ ~rows[g].deleted
                      THEN rows[g].rev
                      ELSE head + Rank(upserts, g),
              deleted |-> FALSE, hidden |-> g \in hid]
        ELSE IF g \in removals
        THEN [rows[g] EXCEPT !.deleted = TRUE,
                  !.rev = head + Cardinality(upserts) + Rank(removals, g)]
        ELSE rows[g]

Written(listing, hid, g) ==
    LET upserts == Changed(listing, hid)
        removals == Removed(listing)
    IN  IF g \in upserts
        THEN [val |-> listing[g], rev |-> head + Rank(upserts, g),
              deleted |-> FALSE, hidden |-> g \in hid]
        ELSE IF g \in removals
        THEN [rows[g] EXCEPT !.deleted = TRUE,
                  !.rev = head + Cardinality(upserts) + Rank(removals, g)]
        ELSE rows[g]

\* Revisions of the tombstones that were there before this refresh and that
\* it leaves: those old enough may have expired.
Tombstones(listing, hid) ==
    {rows[g].rev : g \in {h \in Items \ Changed(listing, hid) :
                             rows[h].deleted /\ rows[h].rev > 0}}

\* Mutant of Collected: old rows are dropped whether or not they are removed.
CollectedLiveToo(row, cut) == IF row.rev =< cut THEN NoRow ELSE row

\* gcTombstones: the newest expired tombstone and all older ones are dropped.
Collected(row, cut) == IF row.deleted /\ row.rev =< cut THEN NoRow ELSE row

CutAfter(cut) == IF cut = 0 THEN minRev ELSE cut

\* refreshLocked with a given outcome; cut = 0 when no tombstone has expired.
RefreshTo(listing, hid, cut) ==
    /\ HeadAfter(listing, hid) =< MaxHead
    /\ cut \in {0} \cup Tombstones(listing, hid)
    /\ indexed' = TRUE
    /\ head' = HeadAfter(listing, hid)
    /\ minRev' = CutAfter(cut)
    /\ rows' = [g \in Items |-> Collected(Written(listing, hid, g), cut)]
    /\ UNCHANGED epoch

Refresh ==
    \E listing \in [Items -> Vals \cup {None}] :
      \E hid \in SUBSET {g \in Items : listing[g] # None} :
        \E cut \in {0} \cup Tombstones(listing, hid) :
            RefreshTo(listing, hid, cut)

\* The node's database is lost and recreated: a new epoch, nothing indexed.
RecreateDB ==
    /\ epoch < MaxEpoch
    /\ epoch' = epoch + 1
    /\ indexed' = FALSE
    /\ head' = 0
    /\ minRev' = 0
    /\ rows' = [g \in Items |-> NoRow]

FeedInit ==
    /\ epoch = 1
    /\ indexed = FALSE
    /\ head = 0
    /\ minRev = 0
    /\ rows = [g \in Items |-> NoRow]

---------------------------------------------------------------------------
\* Index.Changes: the page that answers a cursor (e, s).

\* Mutant of Reset: a cursor older than the retained tombstones is accepted.
ResetWithoutMinRev(e, s) == e = NoEpoch \/ e # epoch \/ s > head

\* The cursor is unusable and the feed restarts from the beginning.
Reset(e, s) ==
    \/ e = NoEpoch
    \/ e # epoch
    \/ s > head
    \/ s > 0 /\ s < minRev

Since(e, s) == IF Reset(e, s) THEN 0 ELSE s

\* Mutant of After: the row at the cursor is served again.
AfterOrAt(s) == {g \in Items : rows[g].rev >= s /\ (s = 0 => Served(g))}

\* Rows after revision s; from scratch, only what is offered.
After(s) == {g \in Items : rows[g].rev > s /\ (s = 0 => Served(g))}

More(s) == Cardinality(After(s)) > PageSize

\* The revision the page goes up to: its PageSize-th row's, else the head.
PageEnds(s) ==
    IF More(s)
    THEN {n \in {rows[g].rev : g \in After(s)} :
             Cardinality({g \in After(s) : rows[g].rev =< n}) = PageSize}
    ELSE {head}

\* What a page from s up to n says of item g; None if g is not in it.
Change(s, n, g) ==
    IF g \in After(s) /\ rows[g].rev =< n
    THEN IF Served(g) THEN rows[g].val ELSE Tombstone
    ELSE None

Page(e, s, n) ==
    [epoch |-> epoch, next |-> n,
     more |-> More(Since(e, s)), reset |-> Reset(e, s),
     changes |-> [g \in Items |-> Change(Since(e, s), n, g)]]

=============================================================================
