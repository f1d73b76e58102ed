--------------------------- MODULE PeerPullProofs ---------------------------
(***************************************************************************)
(* Proofs about PeerPull: type correctness, the inductive invariant of     *)
(* PeerPullInv, and what follows from it, for every library, page size and *)
(* bound.  The provider's refresh is summed up once, as a fact about each  *)
(* row (RefreshMovesRows); every other step is about the follower alone.   *)
(***************************************************************************)
EXTENDS PeerPullInv, FiniteSetTheorems, TLAPS

\* The rank of a member of S lies between 1 and the size of S: the revisions
\* a refresh hands out are above the old head and reach at most the new one.
LEMMA RankBounds ==
    ASSUME NEW S \in SUBSET Items, NEW g \in S
    PROVE  /\ Cardinality(S) \in Nat
           /\ Rank(S, g) \in Nat
           /\ 0 < Rank(S, g)
           /\ Rank(S, g) =< Cardinality(S)
<1> DEFINE below == {h \in S : h =< g}
<1>1. IsFiniteSet(S)
  BY FS_Subset, ItemsAssumption
<1>2. below \subseteq S
  OBVIOUS
<1>3. IsFiniteSet(below) /\ Cardinality(below) =< Cardinality(S)
  BY <1>1, <1>2, FS_Subset
<1>4. g \in below
  BY ItemsAssumption
<1>5. Cardinality(below) # 0
  BY <1>3, <1>4, FS_EmptySet
<1>6. Cardinality(S) \in Nat /\ Cardinality(below) \in Nat
  BY <1>1, <1>3, FS_CardinalityType
<1>7. Rank(S, g) = Cardinality(below)
  BY DEF Rank
<1> QED
  BY <1>3, <1>5, <1>6, <1>7

\* The types of the provider's variables.
FeedTypeOK ==
    /\ epoch \in Nat /\ indexed \in BOOLEAN /\ head \in Nat /\ minRev \in Nat
    /\ rows \in [Items -> Row]

\* What a refresh may do to the row of g: leave it, write it above the old
\* head, or drop it as a tombstone no newer than the new minRev.
RowMoved(g) ==
    \/ rows'[g] = rows[g]
    \/ rows'[g].rev > head
    \/ /\ rows[g].deleted
       /\ rows[g].rev =< minRev'
       /\ rows'[g] = NoRow

\* A refresh keeps the provider's table well formed, moves head and minRev
\* only forward, and moves every row as RowMoved says.
LEMMA RefreshMovesRows ==
    ASSUME FeedTypeOK, FeedInv, Refresh
    PROVE  /\ FeedTypeOK' /\ FeedInv'
           /\ head =< head' /\ minRev =< minRev' /\ epoch' = epoch
           /\ \A g \in Items : RowMoved(g)
<1>0. PICK listing \in [Items -> Vals \cup {None}] :
          \E hid \in SUBSET {g \in Items : listing[g] # None} :
             \E cut \in {0} \cup Tombstones(listing, hid) : RefreshTo(listing, hid, cut)
  BY DEF Refresh
<1>1. PICK hid \in SUBSET {g \in Items : listing[g] # None} :
          \E cut \in {0} \cup Tombstones(listing, hid) : RefreshTo(listing, hid, cut)
  BY <1>0
<1>2. PICK cut \in {0} \cup Tombstones(listing, hid) : RefreshTo(listing, hid, cut)
  BY <1>1
<1> DEFINE up == Changed(listing, hid)
           rem == Removed(listing)
           nc == Cardinality(up)
           nr == Cardinality(rem)
<1>3. up \subseteq Items /\ rem \subseteq Items /\ up \cap rem = {}
  BY DEF Changed, Removed
<1>4. nc \in Nat /\ nr \in Nat
  <2>1. IsFiniteSet(up) /\ IsFiniteSet(rem)
    BY <1>3, FS_Subset, ItemsAssumption
  <2> QED
    BY <2>1, FS_CardinalityType
<1>5. /\ head' = head + nc + nr
      /\ minRev' = CutAfter(cut)
      /\ indexed' = TRUE /\ epoch' = epoch
      /\ rows' = [g \in Items |-> Collected(Written(listing, hid, g), cut)]
  BY <1>2 DEF RefreshTo, HeadAfter
<1>6. \A g \in Items : /\ rows[g] \in Row /\ rows[g].rev =< head
                       /\ rows[g].val \in Vals \cup {None} /\ rows[g].rev \in Nat
                       /\ rows[g].deleted \in BOOLEAN /\ rows[g].hidden \in BOOLEAN
                       /\ rows[g].rev = 0 => rows[g] = NoRow
                       /\ ~rows[g].deleted => rows[g].val \in Vals /\ rows[g].rev > 0
                       /\ rows[g].deleted /\ rows[g].rev > 0 => rows[g].rev > minRev
  BY DEF FeedTypeOK, FeedInv, Row
<1>7. cut \in Nat /\ cut =< head /\ (cut # 0 => cut > minRev)
  <2>1. CASE cut = 0
    BY <2>1 DEF FeedTypeOK
  <2>2. CASE cut \in Tombstones(listing, hid)
    <3>1. PICK h \in Items : rows[h].deleted /\ rows[h].rev > 0 /\ cut = rows[h].rev
      BY <2>2 DEF Tombstones
    <3> QED
      BY <3>1, <1>6
  <2> QED
    BY <1>2, <2>1, <2>2
<1>8. minRev' \in Nat /\ minRev =< minRev' /\ cut =< minRev' /\ minRev' =< head
  BY <1>5, <1>7 DEF CutAfter, FeedTypeOK, FeedInv
<1>9. ASSUME NEW g \in Items
      PROVE  LET w == Written(listing, hid, g)
             IN  /\ w \in Row
                 /\ \/ w = rows[g]
                    \/ w.rev > head /\ w.rev =< head'
                 /\ ~w.deleted => w.val \in Vals /\ w.rev > 0
  <2> DEFINE w == Written(listing, hid, g)
  <2>0. head \in Nat
    BY DEF FeedTypeOK
  <2>1. CASE g \in up
    <3>1. w = [val |-> listing[g], rev |-> head + Rank(up, g),
               deleted |-> FALSE, hidden |-> g \in hid]
      BY <2>1 DEF Written
    <3>2. Rank(up, g) \in Nat /\ 0 < Rank(up, g) /\ Rank(up, g) =< nc
      BY <2>1, <1>3, RankBounds
    <3>3. listing[g] \in Vals
      BY <2>1 DEF Changed
    <3>4. (g \in hid) \in BOOLEAN
      OBVIOUS
    <3>5. w \in Row
      BY <3>1, <3>2, <3>3, <3>4, <2>0 DEF Row
    <3>6. w.rev > head /\ w.rev =< head' /\ ~w.deleted /\ w.val \in Vals
      BY <3>1, <3>2, <3>3, <2>0, <1>4, <1>5
    <3> QED
      BY <3>5, <3>6, <2>0, <1>4, <1>5, <3>2, <3>1
  <2>2. CASE g \in rem
    <3>1. w = [rows[g] EXCEPT !.deleted = TRUE, !.rev = head + nc + Rank(rem, g)]
      BY <2>2, <1>3 DEF Written
    <3>2. Rank(rem, g) \in Nat /\ 0 < Rank(rem, g) /\ Rank(rem, g) =< nr
      BY <2>2, <1>3, RankBounds
    <3>3. rows[g] \in Row
      BY <1>6
    <3>4. w \in Row
      <4>1. head + nc + Rank(rem, g) \in Nat
        BY <3>2, <2>0, <1>4
      <4> HIDE DEF nc, rem
      <4> QED
        BY <3>1, <3>3, <4>1 DEF Row
    <3>5. w.rev = head + nc + Rank(rem, g) /\ w.deleted
      BY <3>1, <3>3 DEF Row
    <3> QED
      BY <3>2, <3>4, <3>5, <2>0, <1>4, <1>5
  <2>3. CASE g \notin up /\ g \notin rem
    <3>1. w = rows[g]
      BY <2>3 DEF Written
    <3> QED
      BY <3>1, <1>6
  <2> QED
    BY <2>1, <2>2, <2>3
<1>10. NoRow \in Row /\ NoRow.rev = 0 /\ NoRow.deleted
  BY DEF NoRow, Row
<1>11. ASSUME NEW g \in Items
       PROVE  /\ rows'[g] \in Row
              /\ RowMoved(g)
              /\ rows'[g].rev =< head'
              /\ rows'[g].rev = 0 => rows'[g] = NoRow
              /\ ~rows'[g].deleted => rows'[g].val \in Vals /\ rows'[g].rev > 0
              /\ rows'[g].deleted /\ rows'[g].rev > 0 => rows'[g].rev > minRev'
  <2> DEFINE w == Written(listing, hid, g)
  <2>1. rows'[g] = Collected(w, cut)
    BY <1>5
  <2>2. /\ w \in Row
        /\ w = rows[g] \/ (w.rev > head /\ w.rev =< head')
        /\ ~w.deleted => w.val \in Vals /\ w.rev > 0
    BY <1>9
  <2>3. head \in Nat /\ head' \in Nat /\ head =< head' /\ minRev \in Nat
    BY <1>4, <1>5 DEF FeedTypeOK
  <2>4. w.rev \in Nat /\ w.deleted \in BOOLEAN
    BY <2>2 DEF Row
  <2>5. CASE w.deleted /\ w.rev =< cut
    <3>1. rows'[g] = NoRow
      BY <2>1, <2>5 DEF Collected
    <3>2. w = rows[g]
      BY <2>2, <2>3, <2>4, <2>5, <1>7
    <3>3. RowMoved(g)
      BY <3>1, <3>2, <2>5, <2>4, <1>7, <1>8 DEF RowMoved
    <3> QED
      BY <3>1, <3>3, <1>10, <2>3
  <2>6. CASE ~(w.deleted /\ w.rev =< cut)
    <3>1. rows'[g] = w
      BY <2>1, <2>6 DEF Collected
    <3>2. RowMoved(g)
      BY <3>1, <2>2 DEF RowMoved
    <3>3. rows'[g].rev =< head' /\ (rows'[g].rev = 0 => rows'[g] = NoRow)
      BY <3>1, <2>2, <2>3, <2>4, <1>6
    <3>4. w.deleted /\ w.rev > 0 => w.rev > minRev'
      <4>1. CASE w = rows[g]
        BY <4>1, <2>6, <2>4, <1>5, <1>6, <1>7 DEF CutAfter
      <4>2. CASE w.rev > head
        BY <4>2, <2>3, <2>4, <1>8
      <4> QED
        BY <4>1, <4>2, <2>2
    <3> QED
      BY <3>1, <3>2, <3>3, <3>4, <2>2
  <2> QED
    BY <2>5, <2>6
<1>12. FeedTypeOK'
  <2>1. rows' \in [Items -> Row]
    BY <1>5, <1>11
  <2> QED
    BY <2>1, <1>4, <1>5, <1>8 DEF FeedTypeOK
<1>13. FeedInv'
  BY <1>4, <1>5, <1>8, <1>11 DEF FeedInv, FeedTypeOK
<1> QED
  BY <1>4, <1>5, <1>8, <1>11, <1>12, <1>13 DEF FeedTypeOK

---------------------------------------------------------------------------
\* The provider's steps.

\* A row with no claim on it before a refresh has none after it; a row with
\* one keeps it, or is now newer than the old head, or is dropped.
LEMMA RefreshKeepsInv ==
    ASSUME Inv, Refresh, UNCHANGED pullVars
    PROVE  Inv'
<1>1. /\ FeedTypeOK' /\ FeedInv'
      /\ head =< head' /\ minRev =< minRev' /\ epoch' = epoch
      /\ \A g \in Items : RowMoved(g)
  <2>1. FeedTypeOK /\ FeedInv /\ Refresh
    BY DEF Inv, TypeOK, FeedTypeOK
  <2> QED
    BY <2>1, RefreshMovesRows
<1>2. UNCHANGED <<state, mirror, pc, cur, page, legacy, disruptions, snap>>
  BY DEF pullVars
<1>3. TypeOK'
  BY <1>1, <1>2 DEF Inv, TypeOK, FeedTypeOK
<1>4. /\ \A g \in Items : /\ rows[g].rev \in Nat /\ rows'[g].rev \in Nat
                          /\ rows[g].deleted \in BOOLEAN
      /\ head \in Nat /\ head' \in Nat /\ minRev \in Nat /\ minRev' \in Nat
      /\ state.rev \in Nat /\ page.next \in Nat /\ cur.rev \in Nat
      /\ Base \in Nat /\ state.epoch \in Nat
  BY <1>1 DEF Inv, TypeOK, FeedTypeOK, Row, State, Cursor, Pages, Base
<1>5. ASSUME NEW g \in Items, state.rev =< head, CursorRow(g)
      PROVE  CursorRow(g)'
  <2>1. CASE rows'[g] = rows[g]
    BY <1>1, <1>2, <1>4, <1>5, <2>1 DEF CursorRow, Served
  <2>2. CASE rows'[g].rev > head
    BY <1>1, <1>2, <1>4, <1>5, <2>2 DEF CursorRow
  <2>3. CASE rows[g].deleted /\ rows[g].rev =< minRev' /\ rows'[g] = NoRow
    <3>1. rows'[g].rev = 0 /\ (rows[g].rev = 0 => rows'[g] = rows[g])
      <4>1. NoRow.rev = 0
        BY DEF NoRow
      <4> QED
        BY <2>3, <4>1 DEF Inv, FeedInv
    <3>2. CASE rows[g].rev = 0
      BY <1>1, <1>2, <1>4, <1>5, <3>1, <3>2 DEF CursorRow
    <3>3. CASE rows[g].rev > 0
      BY <1>1, <1>2, <1>4, <1>5, <2>3, <3>1, <3>3 DEF CursorRow, Served
    <3> QED
      BY <1>4, <3>2, <3>3
  <2> QED
    BY <1>1, <2>1, <2>2, <2>3 DEF RowMoved
<1>6. CursorInv'
  <2>1. SUFFICES ASSUME state.epoch = epoch
                 PROVE  state.rev =< head' /\ \A g \in Items : CursorRow(g)'
    BY <1>1, <1>2 DEF CursorInv
  <2>2. state.rev =< head /\ \A g \in Items : CursorRow(g)
    BY <2>1 DEF Inv, CursorInv
  <2> QED
    BY <1>1, <1>4, <1>5, <2>2
<1>7. ASSUME NEW g \in Items, pc = "apply", page.epoch = epoch,
             page.next =< head, PageRow(g)
      PROVE  PageRow(g)'
  <2>1. Base =< page.next /\ Base' = Base
    BY <1>2, <1>7 DEF Inv, InFlightInv, PageShape, Base
  <2>2. CASE rows'[g] = rows[g]
    BY <1>1, <1>2, <1>4, <1>7, <2>1, <2>2 DEF PageRow, Served
  <2>3. CASE rows'[g].rev > head
    BY <1>1, <1>2, <1>4, <1>7, <2>1, <2>3 DEF PageRow
  <2>4. CASE rows[g].deleted /\ rows[g].rev =< minRev' /\ rows'[g] = NoRow
    <3>1. rows'[g].rev = 0 /\ (rows[g].rev = 0 => rows'[g] = rows[g])
      <4>1. NoRow.rev = 0
        BY DEF NoRow
      <4> QED
        BY <2>4, <4>1 DEF Inv, FeedInv
    <3>2. CASE rows[g].rev = 0
      BY <1>1, <1>2, <1>4, <1>7, <2>1, <2>2, <3>1, <3>2
    <3>3. CASE rows[g].rev > 0
      <4>1. Base > 0 => Base = state.rev /\ state.epoch = epoch
        BY <1>4, <1>7
           DEF Inv, InFlightInv, PageShape, PullInv, Base, NoEpoch, EpochInv
      <4>2. rows[g].rev =< page.next => page.changes[g] \notin Vals
        BY <1>4, <1>7, <2>4, <3>3, ValsAssumption DEF PageRow, Served
      <4>3. (Base > 0 /\ page.changes[g] = None /\ mirror[g].fresh)
              => rows[g].rev > page.next
        <5>1. SUFFICES ASSUME Base > 0, page.changes[g] = None, mirror[g].fresh
                       PROVE  rows[g].rev > page.next
          OBVIOUS
        <5>2. CursorRow(g)
          BY <4>1, <5>1 DEF Inv, CursorInv
        <5>3. ~(rows[g].rev =< Base)
          BY <1>4, <2>4, <3>3, <4>1, <5>1, <5>2 DEF CursorRow, Served
        <5> QED
          BY <1>4, <1>7, <2>4, <3>3, <5>1, <5>3, ValsAssumption
             DEF PageRow, Served
      <4> QED
        BY <1>1, <1>2, <1>4, <1>7, <2>1, <2>4, <3>1, <3>3, <4>2, <4>3
           DEF PageRow
    <3> QED
      BY <1>4, <3>2, <3>3
  <2> QED
    BY <1>1, <2>2, <2>3, <2>4 DEF RowMoved
<1>8. PageSound /\ pc = "apply" => PageSound'
  <2>1. SUFFICES ASSUME PageSound, pc = "apply", page.epoch = epoch
                 PROVE  page.next =< head' /\ \A g \in Items : PageRow(g)'
    BY <1>1, <1>2 DEF PageSound
  <2>2. page.next =< head /\ \A g \in Items : PageRow(g)
    BY <2>1 DEF PageSound
  <2> QED
    BY <1>1, <1>4, <1>7, <2>1, <2>2
<1>9. InFlightInv'
  <2>1. PageShape => PageShape'
    BY <1>2 DEF PageShape, Base
  <2>2. PageSnap => PageSnap'
    BY <1>2 DEF PageSnap
  <2> QED
    BY <1>2, <1>8, <2>1, <2>2 DEF Inv, InFlightInv, Nothing
<1>10. EpochInv' /\ MirrorInv' /\ PullInv'
  BY <1>1, <1>2 DEF Inv, EpochInv, MirrorInv, PullInv, NoEpoch
<1> QED
  BY <1>1, <1>3, <1>6, <1>9, <1>10 DEF Inv

\* After the database is lost nothing is claimed about the new feed.
LEMMA RecreateKeepsInv ==
    ASSUME Inv, RecreateDB, UNCHANGED pullVars
    PROVE  Inv'
<1>1. UNCHANGED <<state, mirror, pc, cur, page, legacy, disruptions, snap>>
  BY DEF pullVars
<1>2. /\ epoch \in Nat /\ epoch' = epoch + 1 /\ indexed' = FALSE
      /\ head' = 0 /\ minRev' = 0
      /\ rows' = [g \in Items |-> NoRow]
  BY DEF RecreateDB, Inv, TypeOK
<1>3. NoRow \in Row /\ NoRow.rev = 0 /\ NoRow.deleted
  BY DEF NoRow, Row
<1>4. TypeOK'
  <2>1. rows' \in [Items -> Row]
    BY <1>2, <1>3
  <2>2. epoch' \in Nat /\ head' \in Nat /\ minRev' \in Nat
    BY <1>2
  <2>3. indexed' \in BOOLEAN
    BY <1>2
  <2>4. FeedTypeOK'
    BY <2>1, <2>2, <2>3 DEF FeedTypeOK
  <2> QED
    BY <1>1, <2>4 DEF Inv, TypeOK, FeedTypeOK
<1>5. FeedInv'
  BY <1>2, <1>3 DEF FeedInv
<1>6. state.epoch \in Nat /\ cur.epoch \in Nat /\ page.epoch \in Nat
  BY DEF Inv, TypeOK, State, Cursor, Pages
<1>7. EpochInv' /\ state.epoch # epoch' /\ page.epoch # epoch'
  BY <1>1, <1>2, <1>6 DEF Inv, EpochInv
<1>8. CursorInv' /\ PageSound'
  BY <1>1, <1>7 DEF CursorInv, PageSound
<1>9. MirrorInv' /\ PullInv'
  BY <1>1 DEF Inv, MirrorInv, PullInv, NoEpoch
<1>10. InFlightInv'
  <2>1. PageShape => PageShape'
    BY <1>1 DEF PageShape, Base
  <2>2. PageSnap => PageSnap'
    BY <1>1 DEF PageSnap
  <2> QED
    BY <1>1, <1>8, <2>1, <2>2 DEF Inv, InFlightInv, Nothing
<1> QED
  BY <1>4, <1>5, <1>7, <1>8, <1>9, <1>10 DEF Inv

---------------------------------------------------------------------------
\* The follower's steps that neither fetch nor apply.

\* The cursor a pull loads is the stored one, or starts from scratch.
LEMMA StartPullKeepsInv ==
    ASSUME Inv, StartPull
    PROVE  Inv'
<1>1. /\ pc = "idle" /\ pc' = "fetch" /\ cur' = LoadedCursor
      /\ UNCHANGED <<epoch, indexed, head, minRev, rows>>
      /\ UNCHANGED <<state, mirror, page, legacy, disruptions, snap>>
  BY DEF StartPull, feedVars
<1>2. state \in State /\ epoch \in Nat
  BY DEF Inv, TypeOK
<1>3. /\ cur' \in Cursor /\ cur'.epoch =< epoch
      /\ cur'.resync = state.resync
      /\ \/ cur'.epoch = state.epoch /\ cur'.rev = state.rev
         \/ cur'.epoch = NoEpoch /\ cur'.rev = 0
      /\ cur'.requested => cur'.epoch = NoEpoch
  BY <1>1, <1>2 DEF LoadedCursor, State, Cursor, NoEpoch, Inv, EpochInv
<1>4. TypeOK'
  BY <1>1, <1>3 DEF Inv, TypeOK, Pcs
<1>5. EpochInv' /\ PullInv'
  BY <1>1, <1>3 DEF Inv, EpochInv, PullInv
<1>6. FeedInv' /\ MirrorInv' /\ CursorInv'
  BY <1>1 DEF Inv, FeedInv, MirrorInv, CursorInv, CursorRow, Served, NoRow
<1>7. InFlightInv'
  BY <1>1 DEF Inv, InFlightInv, Nothing
<1> QED
  BY <1>4, <1>5, <1>6, <1>7 DEF Inv

LEMMA FeedUnsupportedKeepsInv ==
    ASSUME Inv, FeedUnsupported
    PROVE  Inv'
<1>1. /\ pc = "fetch" /\ pc' = "legacy"
      /\ UNCHANGED <<epoch, indexed, head, minRev, rows>>
      /\ UNCHANGED <<state, mirror, cur, page, legacy, disruptions, snap>>
  BY DEF FeedUnsupported, feedVars
<1>2. TypeOK'
  BY <1>1 DEF Inv, TypeOK, Pcs
<1>3. EpochInv' /\ PullInv'
  BY <1>1 DEF Inv, EpochInv, PullInv, NoEpoch
<1>4. FeedInv' /\ MirrorInv' /\ CursorInv'
  BY <1>1 DEF Inv, FeedInv, MirrorInv, CursorInv, CursorRow, Served, NoRow
<1>5. InFlightInv'
  BY <1>1 DEF Inv, InFlightInv, Nothing
<1> QED
  BY <1>2, <1>3, <1>4, <1>5 DEF Inv

LEMMA MarkSyncedKeepsInv ==
    ASSUME Inv, MarkSynced
    PROVE  Inv'
<1>1. /\ pc = "mark" /\ pc' = "idle"
      /\ state' = [state EXCEPT !.synced = TRUE]
      /\ UNCHANGED <<epoch, indexed, head, minRev, rows>>
      /\ UNCHANGED <<mirror, cur, page, legacy, disruptions, snap>>
  BY DEF MarkSynced, feedVars
<1>2. /\ state \in State /\ state' \in State
      /\ state'.epoch = state.epoch /\ state'.rev = state.rev
      /\ state'.resync = state.resync
  BY <1>1 DEF Inv, TypeOK, State
<1>3. TypeOK'
  BY <1>1, <1>2 DEF Inv, TypeOK, Pcs
<1>4. EpochInv' /\ PullInv'
  BY <1>1, <1>2 DEF Inv, EpochInv, PullInv
<1>5. FeedInv' /\ MirrorInv' /\ CursorInv'
  BY <1>1, <1>2 DEF Inv, FeedInv, MirrorInv, CursorInv, CursorRow, Served, NoRow
<1>6. InFlightInv'
  BY <1>1 DEF Inv, InFlightInv, Nothing
<1> QED
  BY <1>3, <1>4, <1>5, <1>6 DEF Inv

\* What a failed pull leaves, the stored cursor and the mirror, is enough.
LEMMA FailPullKeepsInv ==
    ASSUME Inv, FailPull
    PROVE  Inv'
<1>1. /\ pc' = "idle" /\ cur' = NoCursor /\ page' = NoPage /\ snap' = Nothing
      /\ disruptions' = disruptions + 1
      /\ UNCHANGED <<epoch, indexed, head, minRev, rows>>
      /\ UNCHANGED <<state, mirror, legacy>>
  BY DEF FailPull, Disrupt, feedVars
<1>2. /\ cur' \in Cursor /\ page' \in Pages /\ cur'.epoch = 0 /\ page'.epoch = 0
      /\ snap' \in [Items -> Vals \cup {None}]
  BY <1>1 DEF NoCursor, NoPage, Cursor, Pages, NoEpoch, Nothing
<1>3. disruptions' \in Nat
  BY <1>1 DEF Inv, TypeOK
<1>4. TypeOK'
  BY <1>1, <1>2, <1>3 DEF Inv, TypeOK, Pcs
<1>5. EpochInv' /\ PullInv'
  BY <1>1, <1>2 DEF Inv, EpochInv, PullInv, TypeOK
<1>6. FeedInv' /\ MirrorInv' /\ CursorInv'
  BY <1>1 DEF Inv, FeedInv, MirrorInv, CursorInv, CursorRow, Served, NoRow
<1>7. InFlightInv'
  BY <1>1 DEF InFlightInv, Nothing
<1> QED
  BY <1>4, <1>5, <1>6, <1>7 DEF Inv

LEMMA RequestResyncKeepsInv ==
    ASSUME Inv, RequestResync
    PROVE  Inv'
<1>1. /\ state' = [state EXCEPT !.requested = TRUE]
      /\ disruptions' = disruptions + 1
      /\ UNCHANGED <<epoch, indexed, head, minRev, rows>>
      /\ UNCHANGED <<mirror, pc, cur, page, legacy, snap>>
  BY DEF RequestResync, Disrupt, feedVars
<1>2. /\ state \in State /\ state' \in State
      /\ state'.epoch = state.epoch /\ state'.rev = state.rev
      /\ state'.resync = state.resync
  BY <1>1 DEF Inv, TypeOK, State
<1>3. disruptions' \in Nat
  BY <1>1 DEF Inv, TypeOK
<1>4. TypeOK'
  BY <1>1, <1>2, <1>3 DEF Inv, TypeOK
<1>5. EpochInv' /\ PullInv'
  BY <1>1, <1>2 DEF Inv, EpochInv, PullInv, NoEpoch
<1>6. FeedInv' /\ MirrorInv' /\ CursorInv'
  BY <1>1, <1>2 DEF Inv, FeedInv, MirrorInv, CursorInv, CursorRow, Served, NoRow
<1>7. InFlightInv'
  <2>1. PageShape => PageShape'
    BY <1>1 DEF PageShape, Base
  <2>2. PageSound => PageSound'
    BY <1>1 DEF PageSound, PageRow, Base, Served
  <2>3. PageSnap => PageSnap'
    BY <1>1 DEF PageSnap
  <2> QED
    BY <1>1, <2>1, <2>2, <2>3 DEF Inv, InFlightInv, Nothing
<1> QED
  BY <1>4, <1>5, <1>6, <1>7 DEF Inv

LEMMA ForgetPeerKeepsInv ==
    ASSUME Inv, ForgetPeer
    PROVE  Inv'
<1>1. /\ pc = "idle" /\ state' = NoState /\ mirror' = [g \in Items |-> Absent]
      /\ disruptions' = disruptions + 1
      /\ UNCHANGED <<epoch, indexed, head, minRev, rows>>
      /\ UNCHANGED <<pc, cur, page, legacy, snap>>
  BY DEF ForgetPeer, Disrupt, feedVars
<1>2. state' \in State /\ state'.epoch = 0
  BY <1>1 DEF NoState, State, NoEpoch
<1>3. /\ Absent \in [val: Vals \cup {None}, fresh: BOOLEAN]
      /\ Absent.val = None /\ ~Absent.fresh
  BY DEF Absent
<1>4. mirror' \in [Items -> [val: Vals \cup {None}, fresh: BOOLEAN]]
  BY <1>1, <1>3
<1>5. disruptions' \in Nat
  BY <1>1 DEF Inv, TypeOK
<1>6. TypeOK'
  BY <1>1, <1>2, <1>4, <1>5 DEF Inv, TypeOK
<1>7. EpochInv' /\ PullInv'
  BY <1>1, <1>2 DEF Inv, EpochInv, PullInv, TypeOK
<1>8. MirrorInv'
  BY <1>1, <1>3 DEF MirrorInv
<1>9. CursorInv'
  BY <1>1, <1>2 DEF CursorInv, Inv, EpochInv, TypeOK
<1>10. FeedInv' /\ InFlightInv'
  BY <1>1 DEF Inv, FeedInv, NoRow, InFlightInv, Nothing
<1> QED
  BY <1>6, <1>7, <1>8, <1>9, <1>10 DEF Inv

LEMMA ChangeVersionKeepsInv ==
    ASSUME Inv, ChangeVersion
    PROVE  Inv'
<1>1. /\ legacy' = ~legacy /\ disruptions' = disruptions + 1
      /\ UNCHANGED <<epoch, indexed, head, minRev, rows>>
      /\ UNCHANGED <<state, mirror, pc, cur, page, snap>>
  BY DEF ChangeVersion, Disrupt, feedVars
<1>2. disruptions' \in Nat
  BY <1>1 DEF Inv, TypeOK
<1>3. legacy' \in BOOLEAN
  BY <1>1
<1>4. TypeOK'
  BY <1>1, <1>2, <1>3 DEF Inv, TypeOK
<1>5. EpochInv' /\ PullInv'
  BY <1>1 DEF Inv, EpochInv, PullInv, NoEpoch
<1>6. FeedInv' /\ MirrorInv' /\ CursorInv'
  BY <1>1 DEF Inv, FeedInv, MirrorInv, CursorInv, CursorRow, Served, NoRow
<1>7. InFlightInv'
  <2>1. PageShape => PageShape'
    BY <1>1 DEF PageShape, Base
  <2>2. PageSound => PageSound'
    BY <1>1 DEF PageSound, PageRow, Base, Served
  <2>3. PageSnap => PageSnap'
    BY <1>1 DEF PageSnap
  <2> QED
    BY <1>1, <2>1, <2>2, <2>3 DEF Inv, InFlightInv, Nothing
<1> QED
  BY <1>4, <1>5, <1>6, <1>7 DEF Inv

---------------------------------------------------------------------------
\* Fetching.

\* What a page says of g: its entry, a tombstone or nothing, with the reason.
LEMMA ChangeCases ==
    ASSUME Inv, NEW s \in Nat, NEW n \in Nat, NEW g \in Items
    PROVE  \/ /\ rows[g].rev > s /\ rows[g].rev =< n /\ Served(g)
              /\ Change(s, n, g) = rows[g].val /\ rows[g].val \in Vals
           \/ /\ rows[g].rev > s /\ rows[g].rev =< n /\ ~Served(g) /\ s # 0
              /\ Change(s, n, g) = Tombstone
           \/ /\ ~(rows[g].rev > s /\ rows[g].rev =< n /\ (s = 0 => Served(g)))
              /\ Change(s, n, g) = None
<1>1. Served(g) => rows[g].val \in Vals
  BY DEF Inv, FeedInv, Served
<1>2. CASE g \in After(s) /\ rows[g].rev =< n
  <2>1. rows[g].rev > s /\ (s = 0 => Served(g))
    BY <1>2 DEF After
  <2>2. Change(s, n, g) = IF Served(g) THEN rows[g].val ELSE Tombstone
    BY <1>2 DEF Change
  <2> QED
    BY <1>1, <1>2, <2>1, <2>2
<1>3. CASE ~(g \in After(s) /\ rows[g].rev =< n)
  <2>1. Change(s, n, g) = None
    BY <1>3 DEF Change
  <2>2. ~(rows[g].rev > s /\ rows[g].rev =< n /\ (s = 0 => Served(g)))
    BY <1>3 DEF After
  <2> QED
    BY <2>1, <2>2
<1> QED
  BY <1>2, <1>3

\* A page just served is sound for the rows of now and for what is offered.
LEMMA FetchPageKeepsInv ==
    ASSUME Inv, FetchPage
    PROVE  Inv'
<1> DEFINE s == Since(cur.epoch, cur.rev)
           r == Reset(cur.epoch, cur.rev)
<1>1. PICK n \in PageEnds(s) : page' = Page(cur.epoch, cur.rev, n)
  BY DEF FetchPage
<1>2. /\ pc = "fetch" /\ pc' = "apply" /\ snap' = Offered
      /\ UNCHANGED <<epoch, indexed, head, minRev, rows>>
      /\ UNCHANGED <<state, mirror, cur, legacy, disruptions>>
  BY DEF FetchPage, feedVars
<1>3. /\ epoch \in Nat /\ epoch > 0 /\ head \in Nat /\ minRev \in Nat
      /\ cur.epoch \in Nat /\ cur.rev \in Nat
      /\ state.epoch \in Nat /\ state.rev \in Nat
      /\ \A g \in Items : /\ rows[g] \in Row /\ rows[g].rev \in Nat
                          /\ rows[g].rev =< head
                          /\ Served(g) => rows[g].val \in Vals
  BY DEF Inv, TypeOK, FeedInv, EpochInv, Row, Cursor, State, Served
<1>4. /\ s \in Nat /\ s =< head
      /\ ~r => s = cur.rev /\ cur.epoch = epoch /\ (s = 0 \/ s >= minRev)
      /\ r => s = 0
  BY <1>3 DEF Since, Reset
<1>5. /\ n \in Nat /\ n =< head /\ s =< n
      /\ More(s) => s < n
      /\ ~More(s) => n = head
  <2>1. CASE More(s)
    <3>1. PICK h \in After(s) : n = rows[h].rev
      BY <1>1, <2>1 DEF PageEnds
    <3>2. h \in Items /\ rows[h].rev > s
      BY <3>1 DEF After
    <3> QED
      BY <1>3, <1>4, <2>1, <3>1, <3>2
  <2>2. CASE ~More(s)
    <3>1. n = head
      BY <1>1, <2>2 DEF PageEnds
    <3> QED
      BY <1>3, <1>4, <2>2, <3>1
  <2> QED
    BY <2>1, <2>2
<1>6. /\ page'.epoch = epoch /\ page'.next = n
      /\ page'.more = More(s) /\ page'.reset = r
      /\ \A g \in Items : page'.changes[g] = Change(s, n, g)
      /\ page' = [epoch |-> epoch, next |-> n, more |-> More(s), reset |-> r,
                  changes |-> [g \in Items |-> Change(s, n, g)]]
  BY <1>1 DEF Page
<1>7. \A g \in Items :
           \/ /\ rows[g].rev > s /\ rows[g].rev =< n /\ Served(g)
              /\ page'.changes[g] = rows[g].val /\ rows[g].val \in Vals
           \/ /\ rows[g].rev > s /\ rows[g].rev =< n /\ ~Served(g) /\ s # 0
              /\ page'.changes[g] = Tombstone
           \/ /\ ~(rows[g].rev > s /\ rows[g].rev =< n /\ (s = 0 => Served(g)))
              /\ page'.changes[g] = None
  BY <1>4, <1>5, <1>6, ChangeCases
<1>8. \A g \in Items : Offered[g] = IF Served(g) THEN rows[g].val ELSE None
  BY DEF Offered
<1>9. Base' = s
  BY <1>2, <1>4, <1>6 DEF Base
<1>10. TypeOK'
  <2>1. More(s) \in BOOLEAN /\ r \in BOOLEAN
    BY DEF More, Reset
  <2>2. [g \in Items |-> Change(s, n, g)] \in [Items -> Vals \cup {None, Tombstone}]
    BY <1>6, <1>7
  <2>3. page' \in Pages
    BY <1>3, <1>5, <1>6, <2>1, <2>2 DEF Pages
  <2>4. snap' \in [Items -> Vals \cup {None}]
    BY <1>2, <1>3 DEF Offered
  <2> QED
    BY <1>2, <2>3, <2>4 DEF Inv, TypeOK, Pcs
<1>11. EpochInv' /\ PullInv'
  BY <1>2, <1>3, <1>6 DEF Inv, EpochInv, PullInv, NoEpoch
<1>12. FeedInv' /\ MirrorInv' /\ CursorInv'
  BY <1>2 DEF Inv, FeedInv, MirrorInv, CursorInv, CursorRow, Served, NoRow
<1>13. PageShape'
  BY <1>2, <1>3, <1>4, <1>5, <1>6, <1>9 DEF PageShape
<1>14. ~r => state.epoch = epoch /\ state.rev = s
  BY <1>2, <1>3, <1>4 DEF Inv, PullInv, NoEpoch
<1>15. ASSUME NEW g \in Items
       PROVE  PageRow(g)'
  <2>1. ~r => CursorRow(g)
    BY <1>14 DEF Inv, CursorInv
  <2>2. rows[g].rev = 0 /\ mirror[g].fresh /\ s > 0 => FALSE
    BY <1>3, <1>4, <1>14, <2>1 DEF CursorRow
  <2>3. rows'[g] = rows[g] /\ mirror'[g] = mirror[g] /\ Served(g)' = Served(g)
        /\ minRev' = minRev
    BY <1>2 DEF Served
  <2>4. /\ rows[g].rev \in Nat
        /\ \/ /\ rows[g].rev > s /\ rows[g].rev =< n /\ Served(g)
              /\ page'.changes[g] = rows[g].val /\ rows[g].val \in Vals
           \/ /\ rows[g].rev > s /\ rows[g].rev =< n /\ ~Served(g) /\ s # 0
              /\ page'.changes[g] = Tombstone
           \/ /\ ~(rows[g].rev > s /\ rows[g].rev =< n /\ (s = 0 => Served(g)))
              /\ page'.changes[g] = None
    BY <1>3, <1>7
  <2> HIDE DEF s, r
  <2> QED
    BY <1>4, <1>5, <1>6, <1>9, <2>2, <2>3, <2>4, ValsAssumption DEF PageRow
<1>16. PageSound'
  BY <1>2, <1>5, <1>6, <1>15 DEF PageSound
<1>17. PageSnap'
  <2> SUFFICES ASSUME NEW g \in Items
               PROVE  /\ page'.changes[g] = Tombstone => snap'[g] = None
                      /\ page'.changes[g] \in Vals => snap'[g] = page'.changes[g]
                      /\ page'.changes[g] = None /\ ~page'.more =>
                            snap'[g] = IF ~page'.reset /\ mirror'[g].fresh
                                       THEN mirror'[g].val ELSE None
    BY DEF PageSnap
  <2>1. snap'[g] = IF Served(g) THEN rows[g].val ELSE None
    BY <1>2, <1>8
  <2>2. page'.changes[g] = Tombstone => snap'[g] = None
    BY <1>7, <2>1, ValsAssumption
  <2>3. page'.changes[g] \in Vals => snap'[g] = page'.changes[g]
    BY <1>7, <2>1, ValsAssumption
  <2>4. ASSUME page'.changes[g] = None, ~page'.more
        PROVE  snap'[g] = IF ~r /\ mirror[g].fresh THEN mirror[g].val ELSE None
    <3>1. n = head
      BY <1>5, <1>6, <2>4
    <3>2. ~(rows[g].rev > s /\ (s = 0 => Served(g)))
      BY <1>3, <1>7, <2>4, <3>1, ValsAssumption
    <3>3. Served(g) => rows[g].rev > 0
      BY DEF Inv, FeedInv, Served
    <3>4. CASE r
      BY <1>3, <1>4, <2>1, <3>2, <3>3, <3>4
    <3>5. CASE ~r
      <4>1. /\ CursorRow(g) /\ state.rev = s
        BY <1>14, <3>5 DEF Inv, CursorInv
      <4>2. CASE s = 0
        BY <1>3, <2>1, <3>2, <3>3, <4>1, <4>2 DEF CursorRow
      <4>3. CASE s > 0 /\ rows[g].rev = 0
        BY <1>3, <1>4, <2>1, <3>3, <3>5, <4>1, <4>3 DEF CursorRow
      <4>4. CASE s > 0 /\ rows[g].rev > 0
        BY <1>3, <1>4, <2>1, <3>2, <3>5, <4>1, <4>4 DEF CursorRow
      <4> QED
        BY <1>3, <1>4, <4>2, <4>3, <4>4
    <3> QED
      BY <3>4, <3>5
  <2> QED
    BY <1>2, <1>6, <2>2, <2>3, <2>4
<1>18. InFlightInv'
  BY <1>2, <1>13, <1>16, <1>17 DEF InFlightInv
<1> QED
  BY <1>10, <1>11, <1>12, <1>18 DEF Inv

LEMMA FetchCatalogKeepsInv ==
    ASSUME Inv, FetchCatalog
    PROVE  Inv'
<1>1. /\ pc = "legacy" /\ pc' = "applyLegacy" /\ snap' = Offered
      /\ page' = [NoPage EXCEPT !.changes = Offered]
      /\ UNCHANGED <<epoch, indexed, head, minRev, rows>>
      /\ UNCHANGED <<state, mirror, cur, legacy, disruptions>>
  BY DEF FetchCatalog, feedVars
<1>2. Offered \in [Items -> Vals \cup {None}]
  BY DEF Offered, Inv, TypeOK, FeedInv, Served
<1>3. /\ page' \in Pages /\ page'.epoch = 0 /\ page'.changes = Offered
  BY <1>1, <1>2 DEF NoPage, Pages, NoEpoch
<1>4. TypeOK'
  BY <1>1, <1>2, <1>3 DEF Inv, TypeOK, Pcs
<1>5. EpochInv' /\ PullInv'
  BY <1>1, <1>3 DEF Inv, EpochInv, PullInv, NoEpoch, TypeOK
<1>6. FeedInv' /\ MirrorInv' /\ CursorInv'
  BY <1>1 DEF Inv, FeedInv, MirrorInv, CursorInv, CursorRow, Served, NoRow
<1>7. InFlightInv'
  BY <1>1, <1>3 DEF InFlightInv
<1> QED
  BY <1>4, <1>5, <1>6, <1>7 DEF Inv

---------------------------------------------------------------------------
\* Applying.

\* A mirror row after a page, by what the page says of its item.
LEMMA AppliedCases ==
    ASSUME TypeOK, NEW g \in Items,
           NEW restart \in BOOLEAN, NEW sweep \in BOOLEAN
    PROVE  /\ Applied(g, restart, sweep) \in [val: Vals \cup {None}, fresh: BOOLEAN]
           /\ page.changes[g] = Tombstone => Applied(g, restart, sweep) = Absent
           /\ page.changes[g] \in Vals =>
                 Applied(g, restart, sweep) = [val |-> page.changes[g], fresh |-> TRUE]
           /\ page.changes[g] = None =>
                 IF sweep /\ ~(mirror[g].fresh /\ ~restart)
                 THEN Applied(g, restart, sweep) = Absent
                 ELSE /\ Applied(g, restart, sweep).val = mirror[g].val
                      /\ Applied(g, restart, sweep).fresh = (mirror[g].fresh /\ ~restart)
<1> DEFINE c == page.changes[g]
           old == [mirror[g] EXCEPT !.fresh = @ /\ ~restart]
           written == IF c = None THEN old
                      ELSE IF c = Tombstone THEN Absent
                      ELSE [val |-> c, fresh |-> TRUE]
           m == Applied(g, restart, sweep)
<1>1. m = IF sweep /\ ~written.fresh THEN Absent ELSE written
  BY DEF Applied
<1>2. mirror[g] \in [val: Vals \cup {None}, fresh: BOOLEAN]
  BY DEF TypeOK
<1>3. /\ old \in [val: Vals \cup {None}, fresh: BOOLEAN]
      /\ old.val = mirror[g].val /\ old.fresh = (mirror[g].fresh /\ ~restart)
  BY <1>2
<1>4. Absent \in [val: Vals \cup {None}, fresh: BOOLEAN] /\ ~Absent.fresh
  BY DEF Absent
<1>5. c \in Vals \cup {None, Tombstone}
  BY DEF TypeOK, Pages
<1> HIDE DEF c, old, m
<1>6. CASE c = None
  <2>1. m = IF sweep /\ ~old.fresh THEN Absent ELSE old
    BY <1>1, <1>6
  <2> QED
    BY <1>3, <1>4, <1>6, <2>1, ValsAssumption DEF c, m
<1>7. CASE c = Tombstone
  <2>1. m = Absent
    BY <1>1, <1>7, ValsAssumption
  <2> QED
    BY <1>4, <1>7, <2>1, ValsAssumption DEF c, m
<1>8. CASE c \in Vals
  <2>1. m = [val |-> c, fresh |-> TRUE]
    BY <1>1, <1>8, ValsAssumption
  <2>2. [val |-> c, fresh |-> TRUE] \in [val: Vals \cup {None}, fresh: BOOLEAN]
    BY <1>8
  <2>3. c # None /\ c # Tombstone
    BY <1>8, ValsAssumption
  <2> QED
    BY <2>1, <2>2, <2>3 DEF c, m
<1> QED
  BY <1>5, <1>6, <1>7, <1>8

\* What applying the page in flight does, in the terms of the invariant.
LEMMA ApplyFacts ==
    ASSUME Inv, ApplyPage
    PROVE  /\ pc = "apply" /\ pc' \in {"fetch", "mark"}
           /\ pc' = "fetch" <=> page.more
           /\ UNCHANGED <<epoch, indexed, head, minRev, rows, legacy, disruptions>>
           /\ Restarts = page.reset
           /\ page' = NoPage /\ snap' = Nothing
           /\ state' \in State
           /\ state'.epoch = page.epoch /\ state'.rev = page.next
           /\ state'.synced = state.synced
           /\ state'.resync = (page.more /\ (state.resync \/ page.reset))
           /\ page.more =>
                 /\ cur' \in Cursor
                 /\ cur'.epoch = page.epoch /\ cur'.rev = page.next
                 /\ cur'.resync = state'.resync /\ ~cur'.requested
           /\ ~page.more => cur' = NoCursor
           /\ \A g \in Items :
                 /\ mirror'[g] \in [val: Vals \cup {None}, fresh: BOOLEAN]
                 /\ page.changes[g] = Tombstone => mirror'[g] = Absent
                 /\ page.changes[g] \in Vals =>
                       mirror'[g] = [val |-> page.changes[g], fresh |-> TRUE]
                 /\ page.changes[g] = None =>
                       IF /\ ~page.more /\ (state.resync \/ page.reset)
                          /\ ~(mirror[g].fresh /\ ~page.reset)
                       THEN mirror'[g] = Absent
                       ELSE /\ mirror'[g].val = mirror[g].val
                            /\ mirror'[g].fresh = (mirror[g].fresh /\ ~page.reset)
           /\ mirror' \in [Items -> [val: Vals \cup {None}, fresh: BOOLEAN]]
<1>1. /\ pc = "apply"
      /\ state' = Saved(NextCursor)
      /\ mirror' = [g \in Items |-> Applied(g, Restarts, Sweeps)]
      /\ page' = NoPage /\ snap' = Nothing
      /\ UNCHANGED <<epoch, indexed, head, minRev, rows, legacy, disruptions>>
      /\ page.more => pc' = "fetch" /\ cur' = [NextCursor EXCEPT !.requested = FALSE]
      /\ ~page.more => pc' = "mark" /\ cur' = NoCursor
  BY DEF ApplyPage, feedVars
<1>2. /\ state \in State /\ cur \in Cursor /\ page \in Pages /\ TypeOK
      /\ cur.resync = state.resync
  BY <1>1 DEF Inv, TypeOK, PullInv
<1>3. Restarts = page.reset /\ Restarts \in BOOLEAN /\ page.more \in BOOLEAN
  BY <1>1, <1>2 DEF Restarts, Inv, InFlightInv, PageShape, Pages
<1>4. /\ Sweeps = (~page.more /\ (state.resync \/ page.reset))
      /\ Sweeps \in BOOLEAN
  BY <1>2, <1>3 DEF Sweeps
<1>5. /\ NextCursor \in Cursor
      /\ NextCursor.epoch = page.epoch /\ NextCursor.rev = page.next
      /\ NextCursor.resync = (page.more /\ (state.resync \/ page.reset))
  BY <1>2, <1>3 DEF NextCursor, Cursor, Pages
<1>6. /\ state' \in State
      /\ state'.epoch = page.epoch /\ state'.rev = page.next
      /\ state'.synced = state.synced
      /\ state'.resync = (page.more /\ (state.resync \/ page.reset))
  BY <1>1, <1>2, <1>5 DEF Saved, State, Cursor
<1>7. page.more => /\ cur' \in Cursor
                   /\ cur'.epoch = page.epoch /\ cur'.rev = page.next
                   /\ cur'.resync = state'.resync /\ ~cur'.requested
  BY <1>1, <1>5, <1>6 DEF Cursor
<1>8. ASSUME NEW g \in Items
      PROVE  /\ mirror'[g] \in [val: Vals \cup {None}, fresh: BOOLEAN]
             /\ page.changes[g] = Tombstone => mirror'[g] = Absent
             /\ page.changes[g] \in Vals =>
                   mirror'[g] = [val |-> page.changes[g], fresh |-> TRUE]
             /\ page.changes[g] = None =>
                   IF /\ ~page.more /\ (state.resync \/ page.reset)
                      /\ ~(mirror[g].fresh /\ ~page.reset)
                   THEN mirror'[g] = Absent
                   ELSE /\ mirror'[g].val = mirror[g].val
                        /\ mirror'[g].fresh = (mirror[g].fresh /\ ~page.reset)
  <2>1. mirror'[g] = Applied(g, Restarts, Sweeps)
    BY <1>1
  <2> DEFINE m == Applied(g, Restarts, Sweeps)
  <2>2. /\ m \in [val: Vals \cup {None}, fresh: BOOLEAN]
        /\ page.changes[g] = Tombstone => m = Absent
        /\ page.changes[g] \in Vals =>
              m = [val |-> page.changes[g], fresh |-> TRUE]
        /\ page.changes[g] = None =>
              IF Sweeps /\ ~(mirror[g].fresh /\ ~Restarts)
              THEN m = Absent
              ELSE /\ m.val = mirror[g].val
                   /\ m.fresh = (mirror[g].fresh /\ ~Restarts)
    BY <1>2, <1>3, <1>4, AppliedCases
  <2> HIDE DEF m
  <2>3. mirror'[g] = m
    BY <2>1 DEF m
  <2> QED
    BY <1>3, <1>4, <2>2, <2>3
<1>9. mirror' \in [Items -> [val: Vals \cup {None}, fresh: BOOLEAN]]
  BY <1>1, <1>8
<1> QED
  BY <1>1, <1>3, <1>6, <1>7, <1>8, <1>9

\* Applying a page served earlier leaves a cursor the mirror lives up to now.
LEMMA ApplyPageKeepsInv ==
    ASSUME Inv, ApplyPage
    PROVE  Inv'
<1>1. PageShape /\ PageSound /\ PageSnap
  BY ApplyFacts DEF Inv, InFlightInv
<1>2. /\ cur.resync = state.resync
      /\ \/ cur.epoch = state.epoch /\ cur.rev = state.rev
         \/ cur.epoch = NoEpoch /\ cur.rev = 0
  BY ApplyFacts DEF Inv, PullInv
<1>3. /\ \A g \in Items : rows[g].rev \in Nat
      /\ head \in Nat /\ minRev \in Nat /\ epoch \in Nat
      /\ state.rev \in Nat /\ page.next \in Nat /\ cur.rev \in Nat
      /\ state.epoch \in Nat /\ cur.epoch \in Nat /\ page.epoch \in Nat
      /\ Base \in Nat
      /\ \A g \in Items : page.changes[g] \in Vals \cup {None, Tombstone}
      /\ \A g \in Items : Served(g) => rows[g].val \in Vals
  BY DEF Inv, TypeOK, Row, State, Cursor, Pages, Base, FeedInv, Served
<1>4. TypeOK'
  <2>1. page' \in Pages
    <3>1. NoPage \in Pages
      BY DEF NoPage, Pages, NoEpoch, Nothing
    <3> QED
      BY ApplyFacts, <3>1
  <2>2. cur' \in Cursor
    <3>1. NoCursor \in Cursor
      BY DEF NoCursor, Cursor, NoEpoch
    <3> QED
      BY ApplyFacts, <3>1
  <2>3. snap' \in [Items -> Vals \cup {None}]
    BY ApplyFacts DEF Nothing
  <2> QED
    BY ApplyFacts, <2>1, <2>2, <2>3 DEF Inv, TypeOK, Pcs
<1>5. EpochInv'
  <2>1. page'.epoch = 0
    BY ApplyFacts DEF NoPage, NoEpoch
  <2>2. cur'.epoch = 0 \/ cur'.epoch = page.epoch
    BY ApplyFacts DEF NoCursor, NoEpoch
  <2> QED
    BY ApplyFacts, <1>3, <2>1, <2>2 DEF Inv, EpochInv
<1>6. MirrorInv'
  <2> SUFFICES ASSUME NEW g \in Items
               PROVE  /\ mirror'[g].fresh => mirror'[g].val \in Vals
                      /\ ~state'.resync /\ mirror'[g].val # None => mirror'[g].fresh
    BY DEF MirrorInv
  <2>1. /\ mirror[g].fresh => mirror[g].val \in Vals
        /\ ~state.resync /\ mirror[g].val # None => mirror[g].fresh
    BY DEF Inv, MirrorInv
  <2>2. Absent.val = None /\ ~Absent.fresh
    BY DEF Absent
  <2>3. CASE page.changes[g] = Tombstone
    BY ApplyFacts, <2>2, <2>3
  <2>4. CASE page.changes[g] \in Vals
    BY ApplyFacts, <2>4
  <2>5. CASE page.changes[g] = None
    <3>1. IF /\ ~page.more /\ (state.resync \/ page.reset)
             /\ ~(mirror[g].fresh /\ ~page.reset)
          THEN mirror'[g] = Absent
          ELSE /\ mirror'[g].val = mirror[g].val
               /\ mirror'[g].fresh = (mirror[g].fresh /\ ~page.reset)
      BY ApplyFacts, <2>5
    <3>2. state'.resync = (page.more /\ (state.resync \/ page.reset))
      BY ApplyFacts
    <3> QED
      BY <2>1, <2>2, <3>1, <3>2
  <2> QED
    BY <1>3, <2>3, <2>4, <2>5
<1>7. ASSUME page.epoch = epoch, NEW g \in Items
      PROVE  CursorRow(g)'
  <2>1. /\ PageRow(g) /\ page.next =< head /\ Base =< page.next
    BY <1>1, <1>7 DEF PageSound, PageShape
  <2>2. ~page.reset => /\ CursorRow(g) /\ state.rev = Base
    BY <1>1, <1>2, <1>3, <1>7
       DEF PageShape, Base, Inv, CursorInv, EpochInv, NoEpoch
  <2>3. page.reset => Base = 0
    BY DEF Base
  <2>4. /\ state'.rev = page.next /\ rows'[g] = rows[g] /\ minRev' = minRev
        /\ Served(g)' = Served(g)
    BY ApplyFacts DEF Served
  <2>5. Absent.val = None /\ ~Absent.fresh
    BY DEF Absent
  <2>6. CASE page.changes[g] = Tombstone
    <3>1. ~mirror'[g].fresh
      BY ApplyFacts, <2>5, <2>6
    <3>2. ~(0 < rows[g].rev /\ rows[g].rev =< page.next /\ Served(g))
      BY <1>3, <2>1, <2>6, ValsAssumption DEF PageRow
    <3> QED
      BY <2>4, <3>1, <3>2 DEF CursorRow
  <2>7. CASE page.changes[g] \in Vals
    <3>1. mirror'[g].fresh /\ mirror'[g].val = page.changes[g]
      BY ApplyFacts, <2>7
    <3>2. /\ page.next > 0
          /\ rows[g].rev = 0 => page.next < minRev
          /\ rows[g].rev > 0 /\ rows[g].rev =< page.next =>
                Served(g) /\ page.changes[g] = rows[g].val
      BY <1>3, <2>1, <2>7, ValsAssumption DEF PageRow
    <3> QED
      BY <1>3, <2>4, <3>1, <3>2 DEF CursorRow
  <2>8. CASE page.changes[g] = None
    <3>1. mirror'[g].fresh => mirror[g].fresh /\ ~page.reset
      BY ApplyFacts, <2>5, <2>8
    <3>2. mirror[g].fresh /\ ~page.reset =>
             mirror'[g].fresh /\ mirror'[g].val = mirror[g].val
      BY ApplyFacts, <2>8
    <3>3. page.next = 0 => ~mirror'[g].fresh
      BY <1>3, <2>1, <2>2, <3>1 DEF CursorRow
    <3>4. rows[g].rev = 0 /\ mirror'[g].fresh => page.next < minRev
      BY <1>3, <2>1, <2>2, <2>8, <3>1 DEF PageRow, CursorRow
    <3>5. ASSUME 0 < rows[g].rev, rows[g].rev =< page.next
          PROVE  IF Served(g)
                 THEN mirror'[g].fresh /\ mirror'[g].val = rows[g].val
                 ELSE ~mirror'[g].fresh
      <4>1. CASE rows[g].rev > Base
        <5>1. ~Served(g) /\ Base = 0
          BY <1>3, <2>1, <2>8, <3>5, <4>1, ValsAssumption DEF PageRow
        <5> QED
          BY <1>3, <2>2, <3>1, <5>1 DEF CursorRow
      <4>2. CASE rows[g].rev =< Base
        <5>1. ~page.reset /\ CursorRow(g) /\ state.rev = Base
          BY <1>3, <2>2, <2>3, <3>5, <4>2
        <5> QED
          BY <1>3, <3>1, <3>2, <3>5, <4>2, <5>1 DEF CursorRow
      <4> QED
        BY <1>3, <4>1, <4>2
    <3> QED
      BY <2>4, <3>3, <3>4, <3>5 DEF CursorRow
  <2> QED
    BY <1>3, <2>6, <2>7, <2>8
<1>8. CursorInv'
  <2> SUFFICES ASSUME state'.epoch = epoch'
               PROVE  state'.rev =< head' /\ \A g \in Items : CursorRow(g)'
    BY DEF CursorInv
  <2>1. page.epoch = epoch /\ state'.rev = page.next /\ head' = head
    BY ApplyFacts
  <2> QED
    BY <1>1, <1>7, <2>1 DEF PageSound
<1>9. PullInv'
  BY ApplyFacts DEF PullInv
<1>10. FeedInv' /\ InFlightInv'
  BY ApplyFacts DEF Inv, FeedInv, NoRow, InFlightInv, Nothing
<1> QED
  BY <1>4, <1>5, <1>6, <1>8, <1>9, <1>10 DEF Inv

\* A legacy pull leaves a mirror of one generation and no position.
LEMMA ApplyCatalogKeepsInv ==
    ASSUME Inv, ApplyCatalog
    PROVE  Inv'
<1>1. /\ pc = "applyLegacy" /\ pc' = "mark"
      /\ state' = Saved(LegacyCursor)
      /\ mirror' = [g \in Items |-> Applied(g, TRUE, TRUE)]
      /\ cur' = NoCursor /\ page' = NoPage /\ snap' = Nothing
      /\ UNCHANGED <<epoch, indexed, head, minRev, rows, legacy, disruptions>>
  BY DEF ApplyCatalog, feedVars
<1>2. /\ state' \in State /\ state'.epoch = 0
  BY <1>1 DEF Saved, LegacyCursor, State, Cursor, NoEpoch, Inv, TypeOK
<1>3. /\ cur' \in Cursor /\ cur'.epoch = 0
      /\ page' \in Pages /\ page'.epoch = 0
      /\ snap' \in [Items -> Vals \cup {None}]
  BY <1>1 DEF NoCursor, NoPage, Cursor, Pages, NoEpoch, Nothing
<1>4. ASSUME NEW g \in Items
      PROVE  /\ mirror'[g] \in [val: Vals \cup {None}, fresh: BOOLEAN]
             /\ mirror'[g].fresh => mirror'[g].val \in Vals
             /\ mirror'[g].val # None => mirror'[g].fresh
  <2>1. mirror'[g] = Applied(g, TRUE, TRUE)
    BY <1>1
  <2>2. page.changes[g] \in Vals \cup {None, Tombstone} /\ TypeOK
    BY DEF Inv, TypeOK, Pages
  <2>3. Absent.val = None /\ ~Absent.fresh
    BY DEF Absent
  <2> DEFINE m == Applied(g, TRUE, TRUE)
  <2>4. /\ m \in [val: Vals \cup {None}, fresh: BOOLEAN]
        /\ page.changes[g] = Tombstone => m = Absent
        /\ page.changes[g] \in Vals =>
              m = [val |-> page.changes[g], fresh |-> TRUE]
        /\ page.changes[g] = None =>
              IF TRUE /\ ~(mirror[g].fresh /\ ~TRUE)
              THEN m = Absent
              ELSE /\ m.val = mirror[g].val
                   /\ m.fresh = (mirror[g].fresh /\ ~TRUE)
    BY <2>2, AppliedCases
  <2> HIDE DEF m
  <2>5. mirror'[g] = m
    BY <2>1 DEF m
  <2> QED
    BY <2>2, <2>3, <2>4, <2>5
<1>5. mirror' \in [Items -> [val: Vals \cup {None}, fresh: BOOLEAN]]
  BY <1>1, <1>4
<1>6. TypeOK'
  BY <1>1, <1>2, <1>3, <1>5 DEF Inv, TypeOK, Pcs
<1>7. EpochInv' /\ PullInv'
  BY <1>1, <1>2, <1>3 DEF Inv, EpochInv, PullInv, TypeOK
<1>8. MirrorInv'
  BY <1>4 DEF MirrorInv
<1>9. CursorInv'
  BY <1>1, <1>2 DEF CursorInv, Inv, EpochInv, TypeOK
<1>10. FeedInv' /\ InFlightInv'
  BY <1>1 DEF Inv, FeedInv, NoRow, InFlightInv, Nothing
<1> QED
  BY <1>6, <1>7, <1>8, <1>9, <1>10 DEF Inv

---------------------------------------------------------------------------
\* The invariant, and what it implies.

LEMMA InitInv ==
    ASSUME Init
    PROVE  Inv
<1>1. /\ epoch = 1 /\ indexed = FALSE /\ head = 0 /\ minRev = 0
      /\ rows = [g \in Items |-> NoRow]
      /\ state = NoState /\ mirror = [g \in Items |-> Absent]
      /\ pc = "idle" /\ cur = NoCursor /\ page = NoPage
      /\ legacy = FALSE /\ disruptions = 0 /\ snap = Nothing
  BY DEF Init, FeedInit
<1>2. /\ NoRow \in Row /\ NoRow.rev = 0 /\ NoRow.deleted
      /\ NoState \in State /\ NoState.epoch = 0
      /\ Absent \in [val: Vals \cup {None}, fresh: BOOLEAN]
      /\ Absent.val = None /\ ~Absent.fresh
      /\ NoCursor \in Cursor /\ NoCursor.epoch = 0
      /\ NoPage \in Pages /\ NoPage.epoch = 0
      /\ Nothing \in [Items -> Vals \cup {None}]
  BY DEF NoRow, Row, NoState, State, Absent, NoCursor, Cursor, NoPage, Pages,
         NoEpoch, Nothing
<1>3. /\ rows \in [Items -> Row]
      /\ mirror \in [Items -> [val: Vals \cup {None}, fresh: BOOLEAN]]
  BY <1>1, <1>2
<1>4. epoch \in Nat /\ head \in Nat /\ minRev \in Nat /\ disruptions \in Nat
  BY <1>1
<1>5. indexed \in BOOLEAN /\ legacy \in BOOLEAN
  BY <1>1
<1>6. TypeOK
  BY <1>1, <1>2, <1>3, <1>4, <1>5 DEF TypeOK, Pcs
<1>7. FeedInv
  BY <1>1, <1>2 DEF FeedInv
<1>8. EpochInv /\ CursorInv
  BY <1>1, <1>2 DEF EpochInv, CursorInv
<1>9. MirrorInv
  BY <1>1, <1>2 DEF MirrorInv
<1>10. PullInv /\ InFlightInv
  BY <1>1 DEF PullInv, InFlightInv
<1> QED
  BY <1>6, <1>7, <1>8, <1>9, <1>10 DEF Inv

LEMMA NextKeepsInv ==
    ASSUME Inv, [Next]_vars
    PROVE  Inv'
<1>1. CASE StartPull
  BY <1>1, StartPullKeepsInv
<1>2. CASE ProviderIndexes
  BY <1>2, RefreshKeepsInv DEF ProviderIndexes
<1>3. CASE FetchPage
  BY <1>3, FetchPageKeepsInv
<1>4. CASE FeedUnsupported
  BY <1>4, FeedUnsupportedKeepsInv
<1>5. CASE FetchCatalog
  BY <1>5, FetchCatalogKeepsInv
<1>6. CASE ApplyPage
  BY <1>6, ApplyPageKeepsInv
<1>7. CASE ApplyCatalog
  BY <1>7, ApplyCatalogKeepsInv
<1>8. CASE MarkSynced
  BY <1>8, MarkSyncedKeepsInv
<1>9. CASE FailPull
  BY <1>9, FailPullKeepsInv
<1>10. CASE RequestResync
  BY <1>10, RequestResyncKeepsInv
<1>11. CASE ForgetPeer
  BY <1>11, ForgetPeerKeepsInv
<1>12. CASE ChangeVersion
  BY <1>12, ChangeVersionKeepsInv
<1>13. CASE ProviderRefresh
  BY <1>13, RefreshKeepsInv DEF ProviderRefresh
<1>14. CASE ProviderLosesDB
  BY <1>14, RecreateKeepsInv DEF ProviderLosesDB
<1>15. CASE UNCHANGED vars
  <2>1. UNCHANGED <<epoch, indexed, head, minRev, rows>>
    BY <1>15 DEF vars
  <2>2. UNCHANGED <<state, mirror, pc, cur, page, legacy, disruptions, snap>>
    BY <1>15 DEF vars
  <2>3. TypeOK' /\ FeedInv' /\ EpochInv' /\ MirrorInv' /\ PullInv'
    BY <2>1, <2>2 DEF Inv, TypeOK, FeedInv, EpochInv, MirrorInv, PullInv,
                      NoRow, NoEpoch
  <2>4. CursorInv'
    BY <2>1, <2>2 DEF Inv, CursorInv, CursorRow, Served
  <2>5. PageShape => PageShape'
    BY <2>2 DEF PageShape, Base
  <2>6. PageSound => PageSound'
    BY <2>1, <2>2 DEF PageSound, PageRow, Base, Served
  <2>7. PageSnap => PageSnap'
    BY <2>2 DEF PageSnap
  <2>8. InFlightInv'
    BY <2>2, <2>5, <2>6, <2>7 DEF Inv, InFlightInv, Nothing
  <2> QED
    BY <2>3, <2>4, <2>8 DEF Inv
<1> QED
  BY <1>1, <1>2, <1>3, <1>4, <1>5, <1>6, <1>7, <1>8, <1>9, <1>10, <1>11,
     <1>12, <1>13, <1>14, <1>15 DEF Next, PullStep

\* Every reachable state of the replication protocol satisfies the inductive
\* invariant: stored cursors, pages in flight and mirrors stay in step with
\* the feed across refreshes, expiry, lost databases, crashes and requests.
THEOREM InvHolds == Spec => []Inv
<1>1. Init => Inv
  BY InitInv
<1>2. Inv /\ [Next]_vars => Inv'
  BY NextKeepsInv
<1> QED
  BY <1>1, <1>2, PTL DEF Spec

\* The variables keep their types, whatever the constants.
THEOREM TypeCorrect == Spec => []TypeOK
<1>1. Inv => TypeOK
  BY DEF Inv
<1> QED
  BY <1>1, InvHolds, PTL

\* A follower at the provider's head with no resync under way has an exact
\* mirror: the feed never loses a change to paging, expiry or interruption.
THEOREM CaughtUpIsExact == Spec => []CaughtUpMirrorIsExact
<1>1. ASSUME Inv, state.epoch = epoch, state.rev = head, ~state.resync,
             NEW g \in Items
      PROVE  View[g] = Offered[g]
  <2>1. /\ CursorRow(g)
        /\ rows[g].rev \in Nat /\ rows[g].rev =< head /\ minRev =< head
        /\ head \in Nat /\ minRev \in Nat
        /\ ~rows[g].deleted => rows[g].rev > 0
    BY <1>1 DEF Inv, CursorInv, FeedInv, TypeOK, Row
  <2>2. mirror[g].val # None <=> mirror[g].fresh
    BY <1>1, ValsAssumption DEF Inv, MirrorInv
  <2>3. CASE rows[g].rev = 0
    <3>1. ~Served(g)
      BY <2>1, <2>3 DEF Served
    <3>2. ~mirror[g].fresh
      BY <1>1, <2>1, <2>3 DEF CursorRow
    <3> QED
      BY <2>2, <3>1, <3>2 DEF View, Offered
  <2>4. CASE rows[g].rev > 0
    <3>1. IF Served(g)
          THEN mirror[g].fresh /\ mirror[g].val = rows[g].val
          ELSE ~mirror[g].fresh
      BY <1>1, <2>1, <2>4 DEF CursorRow
    <3> QED
      BY <2>2, <3>1 DEF View, Offered
  <2> QED
    BY <2>1, <2>3, <2>4
<1>2. Inv => CaughtUpMirrorIsExact
  BY <1>1 DEF CaughtUpMirrorIsExact, View, Offered
<1> QED
  BY <1>2, InvHolds, PTL

\* The error branch for a feed that does not advance is dead code against
\* this provider.
THEOREM FeedAlwaysAdvances == Spec => []FeedAdvances
<1>1. Inv => FeedAdvances
  BY DEF Inv, InFlightInv, PageShape, Base, FeedAdvances
<1> QED
  BY <1>1, InvHolds, PTL

\* A resync request is never lost to a pull that was already running.
THEOREM RequestsClearedByResyncs == Spec => RequestClearedByResync
<1>1. ASSUME Inv, [Next]_vars, state.requested, ~state'.requested
      PROVE  (ApplyPage /\ page.reset) \/ ApplyCatalog \/ ForgetPeer
  <2>1. CASE ApplyPage
    <3>1. state'.requested = (state.requested /\ ~cur.requested)
      BY <2>1 DEF ApplyPage, Saved, NextCursor
    <3>2. cur.requested
      BY <1>1, <3>1
    <3>3. cur.epoch = NoEpoch /\ PageShape
      BY <1>1, <2>1, <3>2 DEF ApplyPage, Inv, PullInv, InFlightInv
    <3>4. page.reset
      BY <3>3 DEF PageShape, NoEpoch
    <3> QED
      BY <2>1, <3>4
  <2>2. CASE ApplyCatalog \/ ForgetPeer
    BY <2>2
  <2>3. CASE MarkSynced \/ RequestResync
    <3>1. state'.requested = state.requested \/ state'.requested
      BY <1>1, <2>3 DEF MarkSynced, RequestResync, Inv, TypeOK, State
    <3> QED
      BY <1>1, <3>1
  <2>4. CASE \/ StartPull \/ ProviderIndexes \/ FetchPage \/ FeedUnsupported
             \/ FetchCatalog \/ FailPull \/ ChangeVersion \/ ProviderRefresh
             \/ ProviderLosesDB \/ UNCHANGED vars
    <3>1. state' = state
      BY <2>4 DEF StartPull, ProviderIndexes, FetchPage, FeedUnsupported,
                  FetchCatalog, FailPull, ChangeVersion, ProviderRefresh,
                  ProviderLosesDB, vars, pullVars
    <3> QED
      BY <1>1, <3>1
  <2> QED
    BY <1>1, <2>1, <2>2, <2>3, <2>4 DEF Next, PullStep
<1>2. Inv /\ [Next]_vars =>
        [(state.requested /\ ~state'.requested)
            => (ApplyPage /\ page.reset) \/ ApplyCatalog \/ ForgetPeer]_vars
  BY <1>1
<1> QED
  BY <1>2, InvHolds, PTL DEF Spec, RequestClearedByResync

---------------------------------------------------------------------------
\* Refinement of MirrorPromise.

LEMMA Phases ==
    /\ PhaseOf["idle"] = "idle"
    /\ PhaseOf["fetch"] = "reading" /\ PhaseOf["legacy"] = "reading"
    /\ PhaseOf["apply"] = "holding" /\ PhaseOf["applyLegacy"] = "holding"
    /\ PhaseOf["mark"] = "complete"
BY DEF PhaseOf, Pcs

LEMMA OfferedType ==
    ASSUME Inv
    PROVE  Offered \in [Items -> Vals \cup {None}]
BY DEF Offered, Inv, TypeOK, FeedInv, Served

\* A page moves some items of the view to what was read; the last one, all.
LEMMA ApplyPageCopies ==
    ASSUME Inv, ApplyPage
    PROVE  Promise!CopySome \/ Promise!CopyRest
<1>1. /\ pc = "apply" /\ pc' \in {"fetch", "mark"} /\ (pc' = "fetch" <=> page.more)
      /\ UNCHANGED rows /\ snap' = Nothing /\ state'.synced = state.synced
  BY ApplyFacts
<1>2. PageSnap
  BY <1>1 DEF Inv, InFlightInv
<1>3. Offered' = Offered
  BY <1>1 DEF Offered, Served
<1>4. ASSUME NEW g \in Items
      PROVE  /\ mirror'[g].val \in Vals \cup {None}
             /\ mirror'[g].val \in {mirror[g].val, snap[g]}
             /\ ~page.more => mirror'[g].val = snap[g]
  <2>1. /\ page.changes[g] = Tombstone => snap[g] = None
        /\ page.changes[g] \in Vals => snap[g] = page.changes[g]
        /\ page.changes[g] = None /\ ~page.more =>
              snap[g] = IF ~page.reset /\ mirror[g].fresh
                        THEN mirror[g].val ELSE None
    BY <1>2 DEF PageSnap
  <2>2. /\ mirror'[g].val \in Vals \cup {None}
        /\ page.changes[g] \in Vals \cup {None, Tombstone}
        /\ ~state.resync /\ mirror[g].val # None => mirror[g].fresh
    BY ApplyFacts DEF Inv, TypeOK, Pages, MirrorInv
  <2>3. Absent.val = None
    BY DEF Absent
  <2>4. CASE page.changes[g] = Tombstone
    <3>1. mirror'[g] = Absent
      BY ApplyFacts, <2>4
    <3> QED
      BY <2>1, <2>2, <2>3, <2>4, <3>1
  <2>5. CASE page.changes[g] \in Vals
    <3>1. mirror'[g] = [val |-> page.changes[g], fresh |-> TRUE]
      BY ApplyFacts, <2>5
    <3> QED
      BY <2>1, <2>2, <2>5, <3>1
  <2>6. CASE page.changes[g] = None
    <3>1. IF /\ ~page.more /\ (state.resync \/ page.reset)
             /\ ~(mirror[g].fresh /\ ~page.reset)
          THEN mirror'[g] = Absent
          ELSE mirror'[g].val = mirror[g].val
      BY ApplyFacts, <2>6
    <3> QED
      BY <2>1, <2>2, <2>3, <2>6, <3>1
  <2> QED
    BY <2>2, <2>4, <2>5, <2>6
<1>5. /\ View \in [Items -> Vals \cup {None}]
      /\ View' \in [Items -> Vals \cup {None}]
      /\ \A g \in Items : View[g] = mirror[g].val /\ View'[g] = mirror'[g].val
      /\ snap \in [Items -> Vals \cup {None}]
  BY <1>4 DEF View, Inv, TypeOK
<1>6. CASE page.more
  <2>1. /\ PhaseOf[pc] = "holding" /\ PhaseOf[pc'] = "reading"
    BY <1>1, <1>6, Phases
  <2>2. \A g \in Items : View'[g] \in {View[g], snap[g]}
    BY <1>4, <1>5
  <2> QED
    BY <1>1, <1>3, <1>5, <2>1, <2>2
       DEF Promise!CopySome, Promise!Catalog, Promise!Empty, Nothing
<1>7. CASE ~page.more
  <2>1. /\ PhaseOf[pc] = "holding" /\ PhaseOf[pc'] = "complete"
    BY <1>1, <1>7, Phases
  <2>2. View' = snap
    BY <1>4, <1>5, <1>7
  <2> QED
    BY <1>1, <1>3, <2>1, <2>2
       DEF Promise!CopyRest, Promise!Empty, Nothing
<1> QED
  BY <1>6, <1>7

LEMMA ApplyCatalogCopies ==
    ASSUME Inv, ApplyCatalog
    PROVE  Promise!CopyRest
<1>1. /\ pc = "applyLegacy" /\ pc' = "mark" /\ snap' = Nothing
      /\ mirror' = [g \in Items |-> Applied(g, TRUE, TRUE)]
      /\ state' = Saved(LegacyCursor) /\ UNCHANGED rows
  BY DEF ApplyCatalog, feedVars
<1>2. Offered' = Offered /\ state'.synced = state.synced
  BY <1>1 DEF Offered, Served, Saved
<1>3. page.changes = snap /\ snap \in [Items -> Vals \cup {None}] /\ TypeOK
  BY <1>1 DEF Inv, InFlightInv, TypeOK
<1>4. ASSUME NEW g \in Items
      PROVE  Applied(g, TRUE, TRUE).val = snap[g]
  <2>1. page.changes[g] = snap[g] /\ snap[g] \in Vals \cup {None}
    BY <1>3
  <2>2. Absent.val = None
    BY DEF Absent
  <2>3. CASE snap[g] \in Vals
    <3> DEFINE m == Applied(g, TRUE, TRUE)
    <3>1. m = [val |-> snap[g], fresh |-> TRUE]
      BY <1>3, <2>1, <2>3, AppliedCases
    <3> HIDE DEF m
    <3>2. m.val = snap[g]
      BY <3>1
    <3> QED
      BY <3>2 DEF m
  <2>4. CASE snap[g] = None
    <3>1. Applied(g, TRUE, TRUE) = Absent
      BY <1>3, <2>1, <2>4, AppliedCases
    <3> QED
      BY <2>2, <2>4, <3>1
  <2> QED
    BY <2>1, <2>3, <2>4
<1>5. View' = snap
  BY <1>1, <1>3, <1>4 DEF View
<1>6. PhaseOf[pc] = "holding" /\ PhaseOf[pc'] = "complete"
  BY <1>1, Phases
<1> QED
  BY <1>1, <1>2, <1>5, <1>6 DEF Promise!CopyRest, Promise!Empty, Nothing

\* No page, sweep or legacy catalog drops an item from the mirror that the
\* provider offered when it was served.
THEOREM DropsAreWithdrawals == Spec => DropsOnlyWithdrawn
<1>1. ASSUME Inv, [Next]_vars, NEW g \in Items, View[g] # None, View'[g] = None
      PROVE  ForgetPeer \/ (pc \in {"apply", "applyLegacy"} /\ snap[g] = None)
  <2>1. CASE ApplyPage
    <3>1. Promise!CopySome \/ Promise!CopyRest
      BY <1>1, <2>1, ApplyPageCopies
    <3>2. pc = "apply"
      BY <2>1 DEF ApplyPage
    <3> QED
      BY <1>1, <3>1, <3>2 DEF Promise!CopySome, Promise!CopyRest
  <2>2. CASE ApplyCatalog
    <3>1. Promise!CopyRest
      BY <1>1, <2>2, ApplyCatalogCopies
    <3>2. pc = "applyLegacy"
      BY <2>2 DEF ApplyCatalog
    <3> QED
      BY <1>1, <3>1, <3>2 DEF Promise!CopyRest
  <2>3. CASE ForgetPeer
    BY <2>3
  <2>4. CASE \/ StartPull \/ ProviderIndexes \/ FetchPage \/ FeedUnsupported
             \/ FetchCatalog \/ MarkSynced \/ FailPull \/ RequestResync
             \/ ChangeVersion \/ ProviderRefresh \/ ProviderLosesDB
             \/ UNCHANGED vars
    <3>1. mirror' = mirror
      BY <2>4 DEF StartPull, ProviderIndexes, FetchPage, FeedUnsupported,
                  FetchCatalog, MarkSynced, FailPull, RequestResync,
                  ChangeVersion, ProviderRefresh, ProviderLosesDB, vars, pullVars
    <3> QED
      BY <1>1, <3>1 DEF View
  <2> QED
    BY <1>1, <2>1, <2>2, <2>3, <2>4 DEF Next, PullStep
<1>2. Inv /\ [Next]_vars =>
        [\A g \in Items :
           View[g] # None /\ View'[g] = None
           => ForgetPeer \/ (pc \in {"apply", "applyLegacy"} /\ snap[g] = None)]_vars
  BY <1>1
<1> QED
  BY <1>2, InvHolds, PTL DEF Spec, DropsOnlyWithdrawn

\* The replication protocol implements MirrorPromise.
THEOREM PullImplementsPromise == Spec => PullKeepsPromise
<1>1. Init => Promise!Init
  <2> SUFFICES ASSUME Init PROVE Promise!Init
    OBVIOUS
  <2>1. /\ rows = [g \in Items |-> NoRow] /\ mirror = [g \in Items |-> Absent]
        /\ pc = "idle" /\ state = NoState /\ snap = Nothing
    BY DEF Init, FeedInit
  <2>2. NoRow.deleted /\ Absent.val = None /\ NoState.synced = FALSE
    BY DEF NoRow, Absent, NoState
  <2>3. Offered = Nothing /\ View = Nothing
    BY <2>1, <2>2 DEF Offered, View, Served, Nothing
  <2> QED
    BY <2>1, <2>2, <2>3, Phases DEF Promise!Init, Promise!Empty, Nothing
<1>2. ASSUME Inv, Inv', [Next]_vars
      PROVE  [Promise!Next]_(Promise!promiseVars)
  <2>1. CASE StartPull
    <3>1. Offered' = Offered /\ View' = View
      BY <2>1 DEF StartPull, feedVars, Offered, View, Served
    <3> QED
      BY <2>1, <3>1, Phases DEF StartPull, Promise!Next, Promise!Start
  <2>2. CASE ProviderIndexes \/ ProviderRefresh \/ ProviderLosesDB
    <3>1. View' = View /\ UNCHANGED <<snap, pc, state>>
      BY <2>2 DEF ProviderIndexes, ProviderRefresh, ProviderLosesDB, pullVars, View
    <3>2. Offered' \in [Items -> Vals \cup {None}]
      <4>1. \A g \in Items : Served(g)' => rows'[g].val \in Vals
        BY <1>2 DEF Inv, FeedInv, Served
      <4> QED
        BY <4>1 DEF Offered
    <3> QED
      BY <3>1, <3>2 DEF Promise!Next, Promise!Publish, Promise!Catalog
  <2>3. CASE FetchPage
    <3>1. Offered' = Offered /\ View' = View /\ snap' = Offered /\ state' = state
      BY <2>3 DEF FetchPage, feedVars, Offered, View, Served
    <3> QED
      BY <2>3, <3>1, Phases DEF FetchPage, Promise!Next, Promise!Read
  <2>4. CASE FetchCatalog
    <3>1. Offered' = Offered /\ View' = View /\ snap' = Offered /\ state' = state
      BY <2>4 DEF FetchCatalog, feedVars, Offered, View, Served
    <3> QED
      BY <2>4, <3>1, Phases DEF FetchCatalog, Promise!Next, Promise!Read
  <2>5. CASE FeedUnsupported
    <3>1. Offered' = Offered /\ View' = View /\ snap' = snap /\ state' = state
      BY <2>5 DEF FeedUnsupported, feedVars, Offered, View, Served
    <3> QED
      BY <2>5, <3>1, Phases DEF FeedUnsupported, Promise!promiseVars
  <2>6. CASE ApplyPage
    BY <1>2, <2>6, ApplyPageCopies DEF Promise!Next
  <2>7. CASE ApplyCatalog
    BY <1>2, <2>7, ApplyCatalogCopies DEF Promise!Next
  <2>8. CASE MarkSynced
    <3>1. Offered' = Offered /\ View' = View /\ snap' = snap
      BY <2>8 DEF MarkSynced, feedVars, Offered, View, Served
    <3>2. state'.synced = TRUE
      BY <1>2, <2>8 DEF MarkSynced, Inv, TypeOK, State
    <3> QED
      BY <2>8, <3>1, <3>2, Phases DEF MarkSynced, Promise!Next, Promise!Record
  <2>9. CASE FailPull
    <3>1. Offered' = Offered /\ View' = View /\ state' = state /\ snap' = Nothing
      BY <2>9 DEF FailPull, feedVars, Offered, View, Served
    <3>2. PhaseOf[pc] # "idle"
      <4>1. pc \in Pcs /\ pc # "idle"
        BY <1>2, <2>9 DEF Inv, TypeOK, FailPull
      <4> QED
        BY <4>1, Phases DEF Pcs
    <3>3. PhaseOf[pc'] = "idle"
      BY <2>9, Phases DEF FailPull
    <3> QED
      BY <3>1, <3>2, <3>3
         DEF Promise!Next, Promise!GiveUp, Promise!Empty, Nothing
  <2>10. CASE RequestResync
    <3>1. Offered' = Offered /\ View' = View /\ snap' = snap /\ pc' = pc
      BY <2>10 DEF RequestResync, feedVars, Offered, View, Served
    <3>2. state'.synced = state.synced
      BY <1>2, <2>10 DEF RequestResync, Inv, TypeOK, State
    <3> QED
      BY <3>1, <3>2 DEF Promise!promiseVars
  <2>11. CASE ForgetPeer
    <3>1. Offered' = Offered /\ snap' = snap /\ pc' = pc /\ pc = "idle"
      BY <2>11 DEF ForgetPeer, feedVars, Offered, Served
    <3>2. View' = Nothing /\ state'.synced = FALSE
      BY <2>11 DEF ForgetPeer, View, Absent, Nothing, NoState
    <3> QED
      BY <3>1, <3>2, Phases
         DEF Promise!Next, Promise!Forget, Promise!Empty, Nothing
  <2>12. CASE ChangeVersion
    <3>1. Offered' = Offered /\ View' = View /\ UNCHANGED <<snap, pc, state>>
      BY <2>12 DEF ChangeVersion, feedVars, Offered, View, Served
    <3> QED
      BY <3>1 DEF Promise!promiseVars
  <2>13. CASE UNCHANGED vars
    <3>1. Offered' = Offered /\ View' = View /\ UNCHANGED <<snap, pc, state>>
      BY <2>13 DEF vars, Offered, View, Served
    <3> QED
      BY <3>1 DEF Promise!promiseVars
  <2> QED
    BY <1>2, <2>1, <2>2, <2>3, <2>4, <2>5, <2>6, <2>7, <2>8, <2>9, <2>10,
       <2>11, <2>12, <2>13 DEF Next, PullStep
<1> QED
  BY <1>1, <1>2, InvHolds, PTL DEF Spec, PullKeepsPromise, Promise!Spec

=============================================================================
