----------------------------- MODULE PeerPull -----------------------------
(***************************************************************************)
(* The follower's half of catalog replication: one node pulling one peer's *)
(* change feed into its mirror (internal/catalog/pull.go), composed with   *)
(* the provider of module ChangeFeed.                                      *)
(*                                                                         *)
(* The pull is a loop of "fetch a page" and "apply the page and the cursor *)
(* it leads to in one transaction".  Between the two the provider may      *)
(* refresh its index, expire tombstones or lose its database, the user may *)
(* request a resync, and the pull may fail or the node crash: the cursor   *)
(* of the running pull lives in memory, the one in peer_sync_state and the *)
(* mirror survive.  Pulls of one peer never overlap (there is one sync     *)
(* loop); mirrors of different peers share nothing but their prune, which  *)
(* comes after the pulls of its cycle.                                     *)
(*                                                                         *)
(* Generations.  The code numbers the generations of a mirror (gen) and    *)
(* only ever asks whether a row is of the newest one, which is the one in  *)
(* the cursor: no row has a larger number, and a running pull is the only  *)
(* one to move the peer's cursor.  So a row carries just that answer, in   *)
(* "fresh", and to start a generation is to make every row not fresh.      *)
(***************************************************************************)
EXTENDS ChangeFeed

CONSTANT MaxDisruptions     \* bound: failures, requests and version changes

ASSUME DisruptionsAssumption == MaxDisruptions \in Nat

VARIABLES
    state,      \* the peer's row of peer_sync_state; NoState when there is none
    mirror,     \* the peer's rows of peer_catalog
    pc,         \* where pullPeer is
    cur,        \* pullPeer's cursor
    page,       \* the response being applied
    legacy,     \* the peer runs a version without the change feed
    disruptions,\* counts what MaxDisruptions bounds
    snap        \* history: what the provider offered when it served page

pullVars == <<state, mirror, pc, cur, page, legacy, disruptions, snap>>
vars == <<epoch, indexed, head, minRev, rows,
          state, mirror, pc, cur, page, legacy, disruptions, snap>>

NoState == [epoch |-> NoEpoch, rev |-> 0, resync |-> FALSE,
            requested |-> FALSE, synced |-> FALSE]
NoCursor == [epoch |-> NoEpoch, rev |-> 0, resync |-> FALSE,
             requested |-> FALSE]
Nothing == [g \in Items |-> None]
Absent == [val |-> None, fresh |-> FALSE]
NoPage == [epoch |-> NoEpoch, next |-> 0, more |-> FALSE, reset |-> FALSE,
           changes |-> Nothing]

\* The mirror as the election reads it.
View == [g \in Items |-> mirror[g].val]

Init ==
    /\ FeedInit
    /\ state = NoState
    /\ mirror = [g \in Items |-> Absent]
    /\ pc = "idle"
    /\ cur = NoCursor
    /\ page = NoPage
    /\ legacy = FALSE
    /\ disruptions = 0
    /\ snap = Nothing

Disrupt ==
    /\ disruptions < MaxDisruptions
    /\ disruptions' = disruptions + 1

---------------------------------------------------------------------------
\* The pull.

\* loadCursor: a requested resync forgets the position and keeps gen.
LoadedCursor ==
    [epoch |-> IF state.requested THEN NoEpoch ELSE state.epoch,
     rev |-> IF state.requested THEN 0 ELSE state.rev,
     resync |-> state.resync,
     requested |-> state.requested]

StartPull ==
    /\ pc = "idle"
    /\ cur' = LoadedCursor
    /\ pc' = "fetch"
    /\ UNCHANGED <<feedVars, state, mirror, page, legacy, disruptions, snap>>

\* fetchChanges, answered by ChangesHandler once the index exists.
FetchPage ==
    /\ pc = "fetch"
    /\ ~legacy
    /\ indexed
    /\ \E n \in PageEnds(Since(cur.epoch, cur.rev)) :
           page' = Page(cur.epoch, cur.rev, n)
    /\ snap' = Offered
    /\ pc' = "apply"
    /\ UNCHANGED <<feedVars, state, mirror, cur, legacy, disruptions>>

\* fetchChanges finds no such endpoint; pullLegacy takes over.
FeedUnsupported ==
    /\ pc = "fetch"
    /\ legacy
    /\ pc' = "legacy"
    /\ UNCHANGED <<feedVars, state, mirror, cur, page, legacy, disruptions, snap>>

\* FetchPeerCatalog: every offered item in one response.
FetchCatalog ==
    /\ pc = "legacy"
    /\ indexed
    /\ page' = [NoPage EXCEPT !.changes = Offered]
    /\ snap' = Offered
    /\ pc' = "applyLegacy"
    /\ UNCHANGED <<feedVars, state, mirror, cur, legacy, disruptions>>

\* The page restarts the feed: pullPeer starts a new generation.
Restarts == page.reset \/ page.epoch # cur.epoch

\* Mutant of Sweeps: at every page of a resync.
SweepsEveryPage == cur.resync \/ Restarts

\* The last page of a resync: older generations are swept.
Sweeps == ~page.more /\ (cur.resync \/ Restarts)

\* pullPeer's cursor after the page.
NextCursor ==
    [epoch |-> page.epoch, rev |-> page.next,
     resync |-> page.more /\ (cur.resync \/ Restarts),
     requested |-> cur.requested]

\* pullLegacy's: the empty epoch makes a later feed pull resync.
LegacyCursor ==
    [epoch |-> NoEpoch, rev |-> 0, resync |-> FALSE,
     requested |-> cur.requested]

\* Mutants of Applied: a tombstone is stored like any other entry; a
\* resync is written under the generation of the rows it replaces.
AppliedTombstone(g, restart, sweep) ==
    LET c == page.changes[g]
        old == [mirror[g] EXCEPT !.fresh = @ /\ ~restart]
        written == IF c = None THEN old ELSE [val |-> c, fresh |-> TRUE]
    IN  IF sweep /\ ~written.fresh THEN Absent ELSE written
AppliedSameGen(g, restart, sweep) ==
    LET c == page.changes[g]
        written == IF c = None THEN mirror[g]
                   ELSE IF c = Tombstone THEN Absent
                   ELSE [val |-> c, fresh |-> TRUE]
    IN  IF sweep /\ ~written.fresh THEN Absent ELSE written

\* applyChanges: the mirror row of g after the page; restart when the page is
\* written under a new generation, sweep when older ones are then dropped.
Applied(g, restart, sweep) ==
    LET c == page.changes[g]
        old == [mirror[g] EXCEPT !.fresh = @ /\ ~restart]
        written == IF c = None THEN old
                   ELSE IF c = Tombstone THEN Absent
                   ELSE [val |-> c, fresh |-> TRUE]
    IN  IF sweep /\ ~written.fresh THEN Absent ELSE written

\* Mutants of Saved: every pull clears the request; no pull does.
SavedClearing(c) ==
    [epoch |-> c.epoch, rev |-> c.rev, resync |-> c.resync,
     requested |-> FALSE, synced |-> state.synced]
SavedKeeping(c) ==
    [epoch |-> c.epoch, rev |-> c.rev, resync |-> c.resync,
     requested |-> state.requested, synced |-> state.synced]

\* applyChanges: the cursor row; the request is cleared if this pull had it.
Saved(c) ==
    [epoch |-> c.epoch, rev |-> c.rev, resync |-> c.resync,
     requested |-> state.requested /\ ~c.requested, synced |-> state.synced]

ApplyPage ==
    /\ pc = "apply"
    /\ ~(page.more /\ page.next =< cur.rev /\ ~page.reset)
    /\ state' = Saved(NextCursor)
    /\ mirror' = [g \in Items |-> Applied(g, Restarts, Sweeps)]
    /\ IF page.more
       THEN pc' = "fetch" /\ cur' = [NextCursor EXCEPT !.requested = FALSE]
       ELSE pc' = "mark" /\ cur' = NoCursor
    /\ page' = NoPage
    /\ snap' = Nothing
    /\ UNCHANGED <<feedVars, legacy, disruptions>>

ApplyCatalog ==
    /\ pc = "applyLegacy"
    /\ state' = Saved(LegacyCursor)
    /\ mirror' = [g \in Items |-> Applied(g, TRUE, TRUE)]
    /\ pc' = "mark"
    /\ cur' = NoCursor
    /\ page' = NoPage
    /\ snap' = Nothing
    /\ UNCHANGED <<feedVars, legacy, disruptions>>

\* markSynced, after a pull without error.
MarkSynced ==
    /\ pc = "mark"
    /\ state' = [state EXCEPT !.synced = TRUE]
    /\ pc' = "idle"
    /\ UNCHANGED <<feedVars, mirror, cur, page, legacy, disruptions, snap>>

\* A request times out, a transaction fails, or the node stops: the pull is
\* over and what it held in memory is lost.
FailPull ==
    /\ pc # "idle"
    /\ Disrupt
    /\ pc' = "idle"
    /\ cur' = NoCursor
    /\ page' = NoPage
    /\ snap' = Nothing
    /\ UNCHANGED <<feedVars, state, mirror, legacy>>

---------------------------------------------------------------------------
\* What happens around the pull.

\* RequestResync: stored, for the next pull to load.
RequestResync ==
    /\ Disrupt
    /\ state' = [state EXCEPT !.requested = TRUE]
    /\ UNCHANGED <<feedVars, mirror, pc, cur, page, legacy, snap>>

\* pruneRemovedPeers, once the peer has left the registry.
ForgetPeer ==
    /\ pc = "idle"
    /\ Disrupt
    /\ state' = NoState
    /\ mirror' = [g \in Items |-> Absent]
    /\ UNCHANGED <<feedVars, pc, cur, page, legacy, snap>>

\* The peer is downgraded to, or upgraded from, a version without the feed.
ChangeVersion ==
    /\ Disrupt
    /\ legacy' = ~legacy
    /\ UNCHANGED <<feedVars, state, mirror, pc, cur, page, snap>>

\* The provider's own sync cycle.
ProviderRefresh == Refresh /\ UNCHANGED pullVars

\* EnsureIndexed, on a request that finds no index.
ProviderIndexes ==
    /\ pc \in {"fetch", "legacy"}
    /\ ~indexed
    /\ Refresh
    /\ UNCHANGED pullVars

ProviderLosesDB == RecreateDB /\ UNCHANGED pullVars

PullStep ==
    \/ StartPull \/ ProviderIndexes \/ FetchPage \/ FeedUnsupported
    \/ FetchCatalog \/ ApplyPage \/ ApplyCatalog \/ MarkSynced

Next ==
    \/ PullStep
    \/ FailPull \/ RequestResync \/ ForgetPeer \/ ChangeVersion
    \/ ProviderRefresh \/ ProviderLosesDB

Spec == Init /\ [][Next]_vars

\* Sync cycles recur (the sync timer) and an unfailed pull goes on.
FairSpec == Spec /\ WF_vars(PullStep)

---------------------------------------------------------------------------
\* Properties.

Pcs == {"idle", "fetch", "apply", "legacy", "applyLegacy", "mark"}
Cursor == [epoch: Nat, rev: Nat, resync: BOOLEAN, requested: BOOLEAN]
State == [epoch: Nat, rev: Nat, resync: BOOLEAN, requested: BOOLEAN,
          synced: BOOLEAN]
Pages == [epoch: Nat, next: Nat, more: BOOLEAN, reset: BOOLEAN,
          changes: [Items -> Vals \cup {None, Tombstone}]]

\* Every variable of the provider and of the follower stays in the range the
\* tables and pullPeer's locals give it.
TypeOK ==
    /\ epoch \in Nat
    /\ indexed \in BOOLEAN
    /\ head \in Nat
    /\ minRev \in Nat
    /\ rows \in [Items -> Row]
    /\ state \in State
    /\ mirror \in [Items -> [val: Vals \cup {None}, fresh: BOOLEAN]]
    /\ pc \in Pcs
    /\ cur \in Cursor
    /\ page \in Pages
    /\ legacy \in BOOLEAN
    /\ disruptions \in Nat
    /\ snap \in [Items -> Vals \cup {None}]

\* A follower whose stored cursor is the provider's head, with no resync
\* under way, mirrors exactly what the provider offers: no refresh, tombstone
\* expiry, lost database or interrupted pull makes the "nothing changed"
\* answer of the feed hide a difference.
CaughtUpMirrorIsExact ==
    (state.epoch = epoch /\ state.rev = head /\ ~state.resync)
        => View = Offered

\* An item leaves the mirror only because the response being applied was
\* served when the provider did not offer it (or with the peer): a resync,
\* its sweep or a legacy catalog never makes items vanish that the peer has.
DropsOnlyWithdrawn ==
    [][\A g \in Items :
          View[g] # None /\ View'[g] = None
          => ForgetPeer \/ (pc \in {"apply", "applyLegacy"} /\ snap[g] = None)]_vars

\* pullPeer's "change feed did not advance" error is never met with this
\* provider: every page that announces more moves the cursor.
FeedAdvances ==
    (pc = "apply" /\ page.more /\ ~page.reset) => page.next > cur.rev

\* A stored resync request is cleared only by a write that starts the
\* mirror over (or by forgetting the peer): a pull that was already running
\* when the user asked does not swallow it.
RequestClearedByResync ==
    [][(state.requested /\ ~state'.requested)
          => (ApplyPage /\ page.reset) \/ ApplyCatalog \/ ForgetPeer]_vars

\* Refinement: every pull keeps the promise of module MirrorPromise.
PhaseOf == [p \in Pcs |->
    CASE p = "idle" -> "idle"
      [] p \in {"fetch", "legacy"} -> "reading"
      [] p \in {"apply", "applyLegacy"} -> "holding"
      [] OTHER -> "complete"]

Promise == INSTANCE MirrorPromise WITH
    offered <- Offered, snap <- snap, view <- View,
    phase <- PhaseOf[pc], synced <- state.synced

\* The replication protocol implements MirrorPromise: whatever the provider
\* does meanwhile, a completed pull leaves the mirror equal to the catalog
\* offered when its last page was served, and a failed or interrupted one
\* leaves every item as it was or as the provider offered it.
PullKeepsPromise == Promise!Spec

\* A resync that takes several pages and whose first page ends below the
\* newest dropped tombstone: the feed refuses the cursor it has just handed
\* out, and the pull starts over (see PullCatchesUp).
ResyncLoops == More(0) /\ \E n \in PageEnds(0) : n < minRev

\* Once the provider's library, both nodes and the user are quiet, the
\* mirror becomes and stays equal to what the provider offers, unless a
\* resync can no longer get past its first page.
EventuallyInSync == <>[](View = Offered) \/ <>[]ResyncLoops

\* The same without the exception, as pullPeer's comment has it: it "follows
\* p's change feed from the stored cursor until caught up".
PullCatchesUp == <>[](View = Offered)

\* Every requested resync is eventually carried out (or forgotten with the
\* peer), unless a pull is stuck in a resync that cannot finish.
RequestsAreHonoured == (state.requested ~> ~state.requested) \/ <>[]ResyncLoops

=============================================================================
