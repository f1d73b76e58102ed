---------------------------- MODULE PeerPullInv ----------------------------
(***************************************************************************)
(* The inductive invariant of PeerPull.  It says, at every moment of a     *)
(* pull, what the stored cursor, the page in flight and the mirror still   *)
(* guarantee about the provider's rows, which may have moved on since.     *)
(***************************************************************************)
EXTENDS PeerPull

\* The provider's table: revisions lie below the head, retained tombstones
\* above the newest dropped one, and rows and entries go together.
FeedInv ==
    /\ minRev =< head
    /\ \A g \in Items :
          /\ rows[g].rev =< head
          /\ rows[g].rev = 0 => rows[g] = NoRow
          /\ ~rows[g].deleted => rows[g].val \in Vals /\ rows[g].rev > 0
          /\ rows[g].deleted /\ rows[g].rev > 0 => rows[g].rev > minRev

\* Nobody knows an epoch that is yet to come.
EpochInv ==
    /\ epoch > 0
    /\ state.epoch =< epoch /\ cur.epoch =< epoch /\ page.epoch =< epoch

\* Fresh rows hold entries; outside a resync all entries are fresh.
MirrorInv ==
    \A g \in Items :
        /\ mirror[g].fresh => mirror[g].val \in Vals
        /\ ~state.resync /\ mirror[g].val # None => mirror[g].fresh

\* Up to the stored cursor the fresh part of the mirror agrees with the
\* provider; a fresh item the provider has no row for any more was dropped
\* with a tombstone the cursor has not reached.
CursorRow(g) ==
    /\ state.rev = 0 => ~mirror[g].fresh
    /\ 0 < rows[g].rev /\ rows[g].rev =< state.rev =>
          IF Served(g)
          THEN mirror[g].fresh /\ mirror[g].val = rows[g].val
          ELSE ~mirror[g].fresh
    /\ rows[g].rev = 0 /\ mirror[g].fresh => state.rev < minRev

CursorInv ==
    state.epoch = epoch =>
        /\ state.rev =< head
        /\ \A g \in Items : CursorRow(g)

\* The running pull's cursor is the stored one, or starts from scratch.
PullInv ==
    pc \in {"fetch", "apply", "legacy", "applyLegacy"} =>
        /\ cur.resync = state.resync
        /\ \/ cur.epoch = state.epoch /\ cur.rev = state.rev
           \/ cur.epoch = NoEpoch /\ cur.rev = 0
        /\ cur.requested => cur.epoch = NoEpoch

\* The revision the page in flight starts from.
Base == IF page.reset THEN 0 ELSE cur.rev

\* The shape of the page in flight.
PageShape ==
    /\ page.epoch > 0
    /\ ~page.reset => page.epoch = cur.epoch
    /\ Base =< page.next
    /\ page.more => Base < page.next

\* What the page in flight guarantees about the provider's row of g as it
\* is now.
PageRow(g) ==
    /\ Base < rows[g].rev /\ rows[g].rev =< page.next =>
          IF Served(g)
          THEN page.changes[g] = rows[g].val
          ELSE \/ page.changes[g] = Tombstone
               \/ page.changes[g] = None /\ Base = 0
    /\ page.changes[g] \in Vals =>
          /\ page.next > 0
          /\ \/ rows[g].rev > Base
             \/ rows[g].rev = 0 /\ page.next < minRev
    /\ page.changes[g] = Tombstone => rows[g].rev = 0 \/ rows[g].rev > Base
    /\ (/\ page.changes[g] = None /\ rows[g].rev = 0
        /\ mirror[g].fresh /\ Base > 0)
          => page.next < minRev

PageSound ==
    page.epoch = epoch =>
        /\ page.next =< head
        /\ \A g \in Items : PageRow(g)

\* The page in flight against the catalog offered when it was served.
PageSnap ==
    \A g \in Items :
        /\ page.changes[g] = Tombstone => snap[g] = None
        /\ page.changes[g] \in Vals => snap[g] = page.changes[g]
        /\ page.changes[g] = None /\ ~page.more =>
              snap[g] = IF ~page.reset /\ mirror[g].fresh
                        THEN mirror[g].val ELSE None

InFlightInv ==
    /\ pc = "apply" => PageShape /\ PageSound /\ PageSnap
    /\ pc = "applyLegacy" => page.changes = snap
    /\ pc \notin {"apply", "applyLegacy"} => snap = Nothing

\* The inductive invariant: the conjunction of all of the above with the
\* types.  It is what makes a page fetched earlier safe to apply now, and a
\* cursor stored earlier safe to resume from.
Inv ==
    /\ TypeOK
    /\ FeedInv
    /\ EpochInv
    /\ MirrorInv
    /\ CursorInv
    /\ PullInv
    /\ InFlightInv
=============================================================================
