# Specifications of jellysync

jellysync federates Jellyfin servers. Every node offers its own library to its
peers, mirrors what they offer, elects one owner for each title it does not
have itself, and writes a `.strm` file for it that its Jellyfin plays through
the node's stream proxy. This directory holds TLA+ models of the parts of a
node that decide something over time, the TLC configurations that check them
on small instances, and proofs, checked by TLAPS, of the safety of all of them.
File names below are relative to `src/internal/` unless they
begin with `src/`.

- [The system](#the-system): components, state, operations, what is hard
- [The modules](#the-modules): what each models and how it corresponds to the code
- [What is checked](#what-is-checked): runs, bounds, fairness
- [What is proved](#what-is-proved)
- [Where code and documentation disagree](#where-code-and-documentation-disagree)
- [What is not modelled](#what-is-not-modelled), and [the plan](#the-plan)

To check everything: `tlc -config X.cfg MCM.tla` for each configuration (the
name of a configuration begins with that of its module), and `tlapm M.tla` for
each module `M` whose name ends in `Proofs`.

## The system

One process per node; a SQLite database that survives it; everything else is
in memory. Nodes talk HTTP(S), and nothing one node does is in a transaction
with anything on another.

| Component | State | Operations | Interacts with |
|---|---|---|---|
| Catalog index and change feed (`catalog/index.go`) | tables `local_catalog`, settings `catalog_epoch`, `catalog_head`, `catalog_min_rev`, `catalog_indexed_at` | Refresh, EnsureIndexed, Changes, Entries, tombstone expiry | Jellyfin listing; served to followers |
| Pull of a peer (`catalog/pull.go`) | tables `peer_catalog` (the mirror), `peer_sync_state` (the cursor); the cursor of a running pull | pullPeer page by page, pullLegacy, RequestResync, pruneRemovedPeers | the peer's feed; the election reads the mirror |
| Election (`catalog/catalog.go`, `hidden.go`, `folders.go`) | tables `catalog_items`, `hidden_items`, `peer_excluded_folders` | Sync = refresh, pulls, prune, elect, write; SetHidden, SetExcludedFolders | registry, mirrors; Reconcile reads its result |
| `.strm` files (`strm/strm.go`) | the output directory; `catalog_items.strm_path` | Reconcile: per row remove, write, move; savePaths; sweep | the election's rows; Jellyfin scans the files |
| Sync queue and loop (`syncrun/syncrun.go`, `app/app.go`) | the pending request, the wake channel, the timer | Push, Take, waitForNextRun, RunLocal | everybody who wants a sync |
| Manual sync of a peer (`synctrigger/http.go`, `syncstatus/`) | tracker entries per peer, one goroutine per request | triggerRemote, waitForLocalRun, pollRemoteStatus | the peer's trigger and status endpoints; both sync loops |
| Peer registry (`peers/registry.go`) | table `peers`, the in-memory entries, heartbeat goroutines | AddPeer, RemovePeer, checkOnce, SetTransports, NewRegistry | election (Offering), sync queue (onOfferingChange) |
| Node ids, invites, clients (`peers/ids.go`, `peers/http.go`, `peerauth/store.go`, `peerauth/http.go`) | tables `peers`, `clients`, `invites` | add by URL, redeem, pair, revoke, migrateUUIDIDs | two locks, one namespace of ids |
| Mutual TLS and caller authentication (`peerauth/`) | the node's key | handshake, Authenticate | tables of peers, clients and invites |
| Traffic metrics (`metrics/`) | counters, table `peer_traffic` | RecordBytes, flush, Reset, resolvedSnapshot | proxy; registry, for names |
| Stream proxy (`proxy/`) | none between requests | relay a stream, attribute it | registry, Jellyfin, peers, metrics |
| Jellyfin client (`jellyfin/client.go`) and `LocalEntries` | none | list, filter and identify items | index; its listing has the `.strm` files Reconcile wrote |
| Read API, settings, config, schema, web UI, logging | | | |

What is hard, and what has to be right:

- **Replication.** A follower reads a feed in pages while the provider's
  library changes, tombstones expire, either side restarts or loses its
  database, the user asks for a full resync, and peers of older versions
  serve a whole catalog instead. *Right* means: a follower that is told
  "nothing changed" has an exact mirror; no item vanishes that the provider
  still offers; a request for a resync is not swallowed; the mirror catches up.
- **Election and files.** A cycle takes minutes, during which users hide
  items, peers come and go and libraries change; any file operation can fail
  and the process can end between two of them. *Right* means: an item that
  stays offered keeps a file, a clean run leaves exactly the files called for,
  a failed removal is retried, hides outlive outages.
- **Queue and loop.** Push works outside its lock for the last step, the
  timer competes with the channel. *Right*: no request is lost, none waits for
  the timer, merged requests do all that either asked for.
- **Manual sync.** Goroutines infer the outcome of a request from a status
  that says nothing of requests. *Right*: what is reported is the outcome of a
  run that served the request, and every request ends.
- **Registry.** State is kept twice, in a row and in an entry, and written by
  handlers and heartbeats at once; offering depends on the clock. *Right*:
  every peer is probed, withdrawn only after it has been missed for long
  enough, restored when it is back, and what was added stays.
- **Ids.** An id is picked under one lock and stored under another, and every
  start merges what the environment lists with what the table has learned
  since. *Right*: no two nodes share an id, no peer loses its own, an invite
  is used once, a start costs nobody its pairing or address.
- **Own files.** Jellyfin lists the `.strm` files this node has written beside
  the media it has, and rows of libraries it has lost. *Right*: none of the
  former is taken for local, or the election would withdraw the file, Jellyfin
  forget it, and the election want it again.
- **Traffic.** Streams add to counters that other streams create, a flush
  copies row by row and a reset drops. *Right*: every byte is counted once, a
  reset is final, the table catches up.

## The modules

```
ChangeFeed <-- PeerPull <-- PeerPullInv <-- PeerPullProofs
                  \-- implements MirrorPromise
LocalLibrary <-- Election <-- StrmFiles <-- StrmFilesProofs
SyncQueue <-- SyncQueueProofs
    \-- implements RunQueue  (as which RemoteSync, PeerHealth use the loop)
RemoteSync <-- RemoteSyncProofs      PeerHealth <-- PeerHealthProofs
NodeIds <-- NodeIdsProofs            Traffic <-- TrafficProofs
```

`MC<Module>` gives names to the sets the configurations use. Mutants of a
definition (`AppliedTombstone`, `ResetWithoutMinRev`, ...) stand before it:
each is the definition with a plausible mistake, for which some property of a
run fails. They are used nowhere else.

### ChangeFeed and PeerPull: replication

`ChangeFeed` is one provider's index: `rows` is `local_catalog`, `epoch`,
`head`, `minRev`, `indexed` the settings. `Refresh` is `refreshLocked` as a
whole: it holds `Index.mu`, nobody else writes these tables, and it writes
them in one transaction, so followers see it at once. It writes changed rows
and tombstones at new revisions in the order of the ids, lets any of the
tombstones expire, and remembers the newest one that did. `Page(since...)` is
`Changes`.

`PeerPull` adds one follower: `state` is its row of `peer_sync_state`,
`mirror` its rows of `peer_catalog`, `cur`, `page` and `pc` the locals of
`pullPeer` between two requests. A page is served at one moment (one read
transaction) and applied at a later one (one write transaction together with
the cursor), the provider goes on meanwhile. `FetchCatalog` and `ApplyCatalog`
are the legacy download, `ChangeVersion` an upgrade or downgrade of the
provider, `FailPull` an error or a crash, `ForgetPeer` the prune of a removed
peer, `ProviderLosesDB` a fresh database.

The code stamps mirror rows with a *generation* and lets the end of a resync
sweep rows of older ones. Only "of the current generation or not" matters, so
a row is `fresh` or not, and a restart of the resync makes all rows stale. A
generation counter would grow without bound and be compared only for equality.

`MirrorPromise` is what this amounts to for the rest of the node: a view, a
catalog that changes, reads of it, and between two reads a copy of *some* of
what was read; a completed pull leaves exactly the catalog last read.

### LocalLibrary, Election and StrmFiles: the sync cycle

`LocalLibrary` has no state. It says which items of a listing `ListItems` and
`LocalEntries` keep: not placeholders, not orphans of removed libraries (if
the libraries could be listed), not what is in the node's own output
directory, recognised by path where Jellyfin and the node mount it alike
(`SameMount`) and by its extension, and not a series root all of whose
episodes are such. The configurations have `SameMount = FALSE`, the harder
case, in which a root is a folder at a path that tells nothing.

`Election` is `catalog.Sync` with everything that may happen during it: the
local refresh (or keeping the last index), listing the registry, pulls one by
one, `pruneRemovedPeers`, `elect`, `writeElection`. The refresh reads
Jellyfin's listing through `LocalLibrary`: the library, `orphans` that a lost
library leaves behind (`RefreshWithoutRoots` is a refresh that cannot tell
them), and `scanned`, what Jellyfin's last scan has found of the node's own
files. Elect and write are steps
of their own: users change hides and exclusions between them, and the write is
one transaction. Elect reads by several queries without a transaction; index
and mirrors are written by the cycle alone, so these queries agree, and the
two settings are taken at one moment here (of a hide and an exclusion saved
while it reads, in this order, the code could see the second only). A pull is one step
here, and a failed one leaves the mirror part old, part new: that is what
`MirrorPromise` says. `StrmFiles` adds `strm.Reconcile`, row by row in the
order of the query: removal of what is unwanted, claim of a path, write, then
removal of the old file, `savePaths`, sweep. Each file operation may fail, and
`RunFails` ends a run at any point (an error, a crash); files and tables stay,
the run's own variables go. `JellyfinScans` closes the loop: what Reconcile
wrote appears in the listing, and stays there until a scan after it is gone.

### SyncQueue and RunQueue

`SyncQueue` is `syncrun.Queue` and `waitForNextRun` at the grain of their
critical sections: merging and waking are two steps of a pusher, receiving a
token and taking the request two steps of the loop. `RunQueue` is the promise:
asks are wanted until a run takes all of them. The other modules use the queue
in that form.

### RemoteSync

Two nodes, their loops, and the goroutines of `triggerRemote` on one of them.
A run is begun, refreshes, pulls, writes and ends, and tells the tracker.
Times are the number of runs begun so far. `due` carries the one fact about
real time the code relies on: it sleeps three seconds before it looks at the
peer's status, so a peer that was idle has begun the run by then. Catalogs
are counted by the changes they include.

### PeerHealth

One peer in the registry of one node; peers share nothing there. Row, entry
and heartbeat are separate, and so are the two or three critical sections of
`AddPeer`, `RemovePeer` and `checkOnce`. At most one cancelled heartbeat is on
its way at a time. Time is in heartbeats, ages end at `WithdrawAfter`. `crossed`
remembers whether an `AddPeer` and a `RemovePeer` have come between each
other's halves, which is what separates the two parts of
`RemovedPeersStayRemoved`.

### NodeIds

Peers, clients and invites of one node as tables from ids and keys. A handler
is picking an id (under the registry's read lock) and later storing it. Of a
redeemed invite the exchange with the issuer happens before the id is picked,
so nothing of it needs to be kept. An id is a name and a number, or a UUID.
`Restart` is `NewRegistry` up to the load: `Seeded` puts in what PEERS lists
(`Configured`, reserved names and names of other nodes included: `parsePeers`
checks neither), which sets the URL of a row that is there and keeps its key.
`Renames` are the ways in which `migrateUUIDIDs` may name all UUID peers whose
name is known by now, each peer's name being taken for those after it, and
`Migrated` is the table with one of them. The code goes by `rowid`; the model
does not keep the order of rows and allows any.

### Traffic

`Collector` at the grain of its locks and statements: `peerCounters` looks
(`LookUp`) and looks again before it creates (`Create`), the bytes are added
(`Add`) under no lock; `flush` reads both totals of a key and writes a row for
each direction; `Reset` clears the table, then replaces the map. Counters a
stream holds that are no longer in the map are read by nobody, so of an object
only `held` is kept. The two loads of a flush for one key are one step: what is
added between them is added as if before or after both. A request is
attributed when it starts (`CallerPeerIDs`: an id of the registry, or the name
the caller reports) and recorded when its copy is over. `Shown` is the dashboard's view, in which entries under a peer's
name are folded into its id. `Restart` is a crash at any point, the renaming of
UUID peers, which adds the rows of the old id to those the new one may have
(`Summed`), and the load of the table.

Beside the collector, `sure` and `torn` count what the calls of `RecordBytes`
have brought since the last reset, those that began after it and those it has
met on their way. A crash does not change them. What it may take is counted by
itself: `recent` are the bytes of calls that came after the last read of the
row's total that was stored, `during` those after the read of the flush that
is on its way, and a crash moves `recent` to `lost`. `due` is what each stream
had moved when the last flush began.

## What is checked

Runs that pass:

| Run | Question | Bounds | States |
|---|---|---|---|
| `PeerPull_safety` | Is a caught-up mirror exact, are items dropped only when withdrawn, do resync requests survive and get honoured, does the protocol implement `MirrorPromise`, does the mirror converge? Does the invariant the proofs rest on hold? | 3 items, 2 contents, pages of 1, 3 revisions, 2 epochs, 2 disruptions, cut by `Affordable` | 0.29M |
| `StrmFiles_peers` | Does an item that moves between peers keep a file, is a clean run exact, are removals retried, does the directory converge to what the world calls for, though Jellyfin lists the node's own files? | 1 item, 2 peers, 2 changes, 2 faults | 1.1M |
| `StrmFiles_series` | Rows of one run that have a hide key and a path in common: hides outlive outages, a path goes to the same item whatever came before; is a series of the node's own files ever taken for its library? | 3 items (a series root and two episodes), 1 peer, 2 changes, 1 fault | 2.6M |
| `SyncQueue` | Lost wake-ups, merging, stale tokens; the promise with its liveness | 3 askers, 5 pushes, 1 restart | 28k |
| `RemoteSync_safety` | What is reported of a request, and does every request end? | 2 requests, 1 change, 1 unasked run, 1 failure | 0.7M |
| `PeerHealth_safety` | Is every peer probed, withdrawn for misses only, withdrawn when gone? Does a removed peer leave a row behind? | `WithdrawAfter` of 4 heartbeats, 3 edits | 73k |
| `NodeIds_overlap` | What the store's own lock guarantees when two handlers overlap; does a start cost a pairing that seeds what PEERS lists over what is in the table, and renames both nodes at once to one name? | 2 nodes of one name that is also reserved, without it at first; PEERS lists another reserved id; 2 invites, 2 handlers at once, 4 calls | 0.5M, up to `Alike` |
| `Traffic_totals` | Are bytes counted once and lost to crashes only where no flush has stored them, also when a start renames a peer to a name that has rows already? Is a reset final, does the table get every total? | 2 requests, 1 byte each, a UUID, the name, and 2 faults (failed writes, resets, restarts) | 1.9M |

Why the bounds are enough to meet the interesting cases: with pages of one
change every resync of two items takes several pages; three revisions let an
item be added, removed, its tombstone expire and another be added while a pull
is between two of its pages; three items are needed for a resync to sweep one
item while another is refreshed between two pages, two contents for an entry
that changes in place to be missed, and two disruptions for a resync to be
interrupted twice; two epochs are one loss of the database. The constraint
`Affordable` does not combine all of these: three items occur in one epoch of
two revisions, an entry changes while there are two items and one epoch, and a
lost database comes with one disruption. That no larger instance breaks a
safety property of a passing run is proved. Two peers are
one election with a loser; two changes and two faults are a move or a
withdrawal whose file operations fail, and another change before they are
retried. In `PeerHealth`, 4 is the
smallest `WithdrawAfter` above the three misses that make a peer offline, and
three edits are one add and remove that overlap and another add. The ids need
two nodes of one name; a third would only repeat the suffix. In `Traffic` two
requests can want the counters of one key at once; one byte each is enough to
tell a loss from a double count. A renaming needs rows under the old and the
new id, one request each, and of two faults one can be a reset or a failed
write before the start. In `NodeIds` two nodes without a name take four calls
to be added and paired; one start then renames both, to the name with one
number and with the next, in either order. Handlers and invites are
interchangeable there, so states are looked at up to `Alike`.

Properties worth reading first: `CaughtUpMirrorIsExact`, `PullKeepsPromise`
(PeerPull), `OfferedItemKeepsAFile`, `CleanRunIsExact` (StrmFiles),
`OwnFilesStayForeign` (StrmFiles), `KeepsQueuePromise` (SyncQueue),
`SuccessIsOfALaterRun` (RemoteSync), `NoBytesLost` (Traffic).

**Fairness.**
- `PeerPull`: weak fairness of the follower's own steps. The sync timer starts
  a pull over and over, and every request has a timeout.
- `StrmFiles`: weak fairness of the cycle's steps, again the timer, and strong
  fairness of `RefreshLocal`: a run that a notification asked for keeps the
  index as it is, but the scheduled ones, which come round forever, refresh.
- `SyncQueue`: weak fairness of pushers and loop. Of the timer nothing is
  assumed: no request depends on it.
- `RemoteSync`: weak fairness of both loops and of the goroutines, whose calls
  have timeouts. The half-hour timeout is not among what is assumed, so
  `EverySyncEnds` says requests end by themselves.
- `PeerHealth`: time passes, heartbeats go on, a call of `AddPeer` or
  `RemovePeer` that has begun ends, a queued sync runs (`RunQueue`).
  `ScheduledSpec` adds the schedule, to show what it is needed for.
- `Traffic`: the flush comes round by its ticker and goes on until it ends, and
  a reset that has begun ends. Of streams nothing is assumed: one may copy
  forever.

Deadlock is checked everywhere but in `RemoteSync`, whose requests, runs and
changes are finite in number, so that it may come to rest. Faults, changes,
edits and crashes are bounded by counters in their guards; no property
mentions those counters but `LaterClaimNeverWins` and `FirstClaimWins`, which
are about runs without faults, and `TotalsAreOneFlushBehind`, about the first
crash.

## What is proved

Every safety property of the passing runs, invariants and action properties
alike, and every type invariant, for all values of the constants that satisfy
the assumptions named in the modules: any finite set of items, any contents, page size
and bounds in `PeerPull`; any askers; any peers, names and requests in
`Traffic`; any requests in `RemoteSync`; any `WithdrawAfter` in `PeerHealth`;
any finite sets of nodes and calls, any names, invites and `PEERS` in
`NodeIds`; any items, peers, hide keys and paths in `StrmFiles`.

The assumptions that are not mere types: in `NodeIds`, that a UUID is neither a
name nor reserved, and that there are at least as many
numbers as calls, the bound on numbers being the model's (of `PEERS` it is
assumed only that its ids are plain names, so they may be reserved ones, and
that of two entries with one id the last counts); in `LocalLibrary`,
that two series roots have different hide keys (a root's key is its own global id). Two theorems of `StrmFiles` have the
hypothesis `PathsDiffer`, discussed below.

**PeerPullProofs.** `InvHolds` (the inductive invariant), `TypeCorrect`,
`CaughtUpIsExact`, `FeedAlwaysAdvances`, `DropsAreWithdrawals`,
`RequestsClearedByResyncs`, and `PullImplementsPromise`: the protocol
implements `MirrorPromise`.

`CaughtUpMirrorIsExact` is not inductive: it says something of cursors that
are at the head only, and a cursor gets there by pages which were served
earlier and are applied later. `PeerPullInv!Inv` says what holds at every
moment:
- `FeedInv`: revisions lie below the head, retained tombstones above `minRev`;
- `CursorInv`: for the rows up to the stored cursor, the fresh part of the
  mirror agrees with the provider *now*. A row that changes moves beyond the
  head, out of what the cursor covers, which is why this is kept by every
  refresh. A fresh item the provider has no row for any more was dropped with
  a tombstone that the cursor has not reached (`state.rev < minRev`), which
  is why the feed must refuse such cursors;
- `PullInv` and the conjuncts on the page in flight: what the page says of an
  item is true of the rows up to `page.next`, unless the row has moved on, and
  what the page leaves out up to there has no row in that range;
- `MirrorInv`: outside a resync everything in the mirror is fresh.

At the head, with no resync, the first three give exactness. The action
properties and the refinement follow from the same invariant, action by
action. The arithmetic of ranks (`RankBounds`: the revisions a refresh hands
out are distinct and lie above the old head) rests on the library's theorems
on finite cardinalities.

**SyncQueueProofs.** `QueueInv` adds to `NoLostWakeup` and `RefreshesAsAsked`
that requests with reasons are not nil and that the loop's own requests
refresh. From it `TypeCorrect`, `WakeupsAreNotLost`, `MergesKeepRefreshes`,
`RunsHaveReasons`, and `QueueImplementsRunQueue`: each step of queue and loop
is a step of `RunQueue` or a stutter. That the two are fair in the same way is
checked by TLC (`KeepsQueuePromise`).

**TrafficProofs.** `TrafficInvHolds`, and from it `TrafficTypeCorrect`,
`BytesAreCountedOnce` and `ResetsAreFinal`. `NoBytesLost` says nothing of
streams between finding counters and adding to them, and `ResetIsFinal`
nothing of a flush between reading and writing; neither says what of it the
table has. `TrafficInv` adds
- `HoldersInv`: a stream that holds counters holds those in the map, and one
  that is about to add and holds none was met by the last reset, so what it
  adds to nothing is `torn`;
- `StoredInv`: the table is behind the calls by what is `recent` and what was
  lost before, so that a crash takes no more than that;
- `FlushInv`: what a flush has read is not ahead of the totals and behind the
  calls by what came `during` the flush, and no flush is
  on its way while a reset is, which is what `flushMu` is for;
- `ResettingInv`: between the halves of a reset the table is empty.

For the renaming at a start, `FoldedOrder` says that sums of rows keep what
holds row by row, and `RenamedTable` that rows which are not there count
nothing.

**StrmFilesProofs** (with `Election` and `LocalLibrary`). None of the
properties is inductive: they speak of a step, and what makes the step right
was gathered many steps earlier. `StrmInv`, which needs nothing of paths, says
- `SourceInv`: from `Elect` to the end of the run, index and mirrors are what
  the election was made from, though offers, health and registry change
  meanwhile. Hence `HidesOutliveOutages`: the hides a run drops are those of
  items that are in no mirror when it drops them;
- `RowsInv`: a row is a peer's or local, not both, and a row with a peer is
  present (so every wanted row is among those Reconcile reads);
- `GatheredInv`: nothing gathered survives a run, and an item that is being
  moved has claimed its new path;
- `RecordInv`: what is to be recorded differs from what is recorded only where
  the file is gone. Hence `FailedRemovalsAreRetried`, of local and remote rows
  alike; only `writeElection` deleting the row of a local item that is no more
  takes a path with it (`StrmFiles_forgotten`);
- `ClaimInv`: claimed paths are those of the wanted rows whose turn is over,
  and hold, while nothing has failed, the stream of the first row that wants
  them, or nothing. Hence `LaterClaimsNeverWin`.

`OwnFilesAreForeign` is a fact about `LocalEntries` alone (`EntriesAreOwn`).

`OwnInv` adds what holds if items do not share paths (`PathsDiffer`: the paths
of two items, over all peers, are different, as in the configurations
`StrmFiles_peers` and `StrmFiles_items`). `pathFor` puts the item's id
into every path to that end; only where it shortens an id to eight characters
could two of them be alike. Recorded paths are the item's own (`OwnPathsInv`);
what is to be recorded of a wanted row is kept by the sweep, and while its old
file is still to go the new one is in place (`KeptInv`); while nothing has
failed, files and the sweep's list are those of the wanted rows (`CleanInv`).
From it `OfferedItemsKeepAFile` and `CleanRunsAreExact`. Without `PathsDiffer`
both are false: `StrmFiles_collision` shows an item that loses its file to the
withdrawal of another.

**RemoteSyncProofs.** `RemoteInv` links three clocks. `TrackerInv`: the
tracker's entry is that of the last run begun. `PullInv`: a run that writes or
has succeeded has come to its pull. `AskedInv`: the refresh that a forced
request asked of a calm peer is still wanted by a loop at rest, or under way,
or what the request asked for is in the peer's catalog; and `RefreshedInv`
carries that over to the copy. From them `SuccessesAreOfLaterRuns` and
`CalmPeersAreFresh`; `RunningInv` gives `NoRequestLeftRunning`.

**PeerHealthProofs.** Row, entry and heartbeat are written in turn, so
`PeerInv` says which may be ahead of which: `RowInv` and `UncrossedInv` for
`AddPeer` and `RemovePeer`, `DisabledInv` and `BeatInv` for heartbeats that
have been cancelled and are still about to write, `DownInv` for restarts.
`AgeInv` compares the entry's age, in ticks, with the checks missed since the
last success: they differ by the tick of the check that is due. From it
`WithdrawalsAreForMisses`; `PeersAreProbed` and `RemovedPeersAreGone` follow
from the others.

**NodeIdsProofs.** The hard part is that `IdFor` finds an id at all: a
`CHOOSE` from no candidates could be anything, for instance another client's
id. `NumbersInv` keeps an account. Peers whose id is not a plain name, clients
and calls under way each have been paid for by a call that was started, so
that with `MaxCalls <= MaxNumber` one of the numbers is free
(`IdForIsFree`, by cardinalities). `CallsInv` says what a call under way holds,
`SpentInv` that an invite is gone once it has authorized a node. From
`IdsInv`: `ClientsHaveTheirOwnIds`, `InvitesAreSpentOnce`, and
`StartsLosePairingsNever`: seeding keeps keys (`SeededTable`), and the renaming
moves rows to ids that were free (`RenamesAreFree`: however many peers are
renamed at one start and whatever names they share, no peer of the table has
any of the new ids and no two get the same, which again is a matter of
counting; `MigratedTable`: so the paired ids of a node before and after are in
bijection).

Only model-checked: what needs fairness (`EventuallyInSync`,
`RequestsAreHonoured`, `DirectorySettles`, `EverySyncEnds`,
`GonePeerIsWithdrawn`, `TotalsGetStored`, and that `KeepsQueuePromise` holds
with the fairness of `RunQueue`), since liveness and `ENABLED` are out of the
prover's reach; and the configurations of the next section, which show that
something does *not* hold, or hold under one more restriction
(`NodeIds_serial`, `PeerHealth_scheduled`).

## Where code and documentation disagree

Each of these runs checks one property, stated after a comment in the code,
that the model violates.

| Run | What happens |
|---|---|
| `PeerPull_resync_loop` | Once the newest expired tombstone lies above the end of a resync's first page, the feed refuses the cursor it has just handed out, and the resync starts over at every second page. |
| `StrmFiles_pruned` | The prune at the end of the pulls uses the list of peers from before them and deletes the folder exclusions of a peer added meanwhile. |
| `RemoteSync_stale` | A forced sync of a busy peer takes the outcome of another run for that of the refresh it asked for; the copy stays behind and the dashboard says success. `ForcedSyncOfCalmPeerIsFresh` is what holds. |
| `NodeIds_reseeded` | A peer that PEERS lists and that was paired later is set back to its old plain-HTTP address by every start, its key staying. |

More configurations stand beside these. They are not listed in `PROJECT.json`
and each answers one further question:

| Configuration | Module | Result |
|---|---|---|
| `StrmFiles_forgotten` | `MCStrmFiles` | `RecordedFileIsNotForgotten` is violated. A remote item that becomes local and then vanishes while the removal of its file has failed loses the row that remembers the file. The sweep still finds it if it lies below the current output directory. |
| `StrmFiles_collision` | `MCStrmFiles` | `FirstClaimWins` is violated. Of two items with one path, the withdrawal of the one that comes second deletes the file just written for the first, until the next cycle. `LaterClaimNeverWins` is what holds. |
| `StrmFiles_items` | `MCStrmFiles` | Two items and two peers with a path each: `OfferedItemKeepsAFile` and `CleanRunIsExact` hold. |
| `StrmFiles_leftover` | `MCStrmFiles` | `OwnRootsStayForeign` is violated. A series whose episodes are all gone from the output directory, but whose folder Jellyfin keeps (it has saved artwork there), is listed as a root without episodes and taken for local. `OwnFilesStayForeign` is what holds. |
| `PeerHealth_back` | `MCPeerHealth` | `BackPeerIsRestored` is violated. A sync between two heartbeats evaluates `Offering` by the clock and withdraws the peer; the next heartbeat succeeds, sees no flip and tells nobody. The items come back with the next scheduled sync. |
| `PeerHealth_downtime` | `MCPeerHealth` | `WithdrawnForMissesOnly` is violated. After a downtime of this node longer than `WithdrawAfter`, one missed heartbeat withdraws everything a peer shares. `WithdrawnForMissesOnceSeen` is what holds. |
| `PeerHealth_lost` | `MCPeerHealth` | `PeersPersist` is violated. `AddPeer` and `RemovePeer`, one between the halves of the other, leave a peer in memory without a row; it is gone after a restart. |
| `PeerHealth_scheduled` | `MCPeerHealth` | With the scheduled sync, `BackPeerIsRestored` holds. |
| `NodeIds_serial` | `MCNodeIds` | One handler at a time, no UUID peers: no id names two nodes, and a peer loses its id to none but the paired peer that upgrades it. |
| `NodeIds_shared` | `MCNodeIds` | `NoIdForTwoNodes` is violated. A node added by URL and a client paired at the same time get one id. |
| `NodeIds_renamed` | `MCNodeIds` | `NoIdForTwoNodes` is violated. The renaming of UUID peers at start gives a peer the id of a client. |
| `NodeIds_upgraded` | `MCNodeIds` | `OneIdPerNode` is violated. A peer first added by URL keeps its id when paired, though its key is a client's under another. |
| `Traffic_behind` | `MCTraffic` | `TotalsAreOneFlushBehind`, a comment of `metrics.go:21`, is violated. A stream is counted once, when its copy is over, so a node that dies loses all that its streams had moved, however long ago, and not an interval of the flush. |
| `Traffic_reset` | `MCTraffic` | `ResetStartsFromZero`, a comment of `metrics.go:219`, is violated. A stream is counted as a whole when its copy is over, so what it moved before a reset counts after it. |
| `Traffic_mixed` | `MCTraffic` | `TrafficIsNotMixedUp` is violated. Of two nodes that report one name the second has it with a suffix for its id; the dashboard folds what is counted under the name, which is the first one's id, into the second. |

## What is not modelled

- **Mutual TLS, handshakes, invite strings**: cryptography; the authorization
  of a request is a read of the tables in `NodeIds`. Other nodes do not change
  their keys there, so what `PinForAddr` (`registry.go:292`) answers when two
  entries have one address, of a peer that lost its key and was paired with
  again, is named as a hazard and not checked.
- **Stream proxy**: beyond attribution and recording it is a relay without
  state of its own.
- **Bitrates, stream histograms, the text format of `/metrics`**: output.
- **How a global id is computed** (provider ids, hashes of names): an id is a
  value. That a film and a series with one provider number get one id is a
  property of the formula, not of any order of events.
- **Read API, settings, configuration, schema migrations, web UI, logging**:
  they change no state the other parts depend on, or only format it.
- **A database restored from a backup**: the code has no notion of it.
- Within the modelled parts: the contents of entries, names, addresses,
  versions and round-trip times, the wording of statuses and log lines, gzip,
  page-size parsing; `Touch` of clients; temporary files of a write
  that was interrupted before its rename.

## The plan

1. **Done.** Replication with its abstract specification; the sync cycle with
   its files and what Jellyfin lists of them; queue and loop with abstract
   specification; manual sync; peer health; ids; traffic; the safety of all of
   them proved.
2. **Model next.** A pairing as an exchange of two nodes: the issuer redeems
   and its answer is lost, or either restarts before the redeemer has stored
   the peer. Two nodes that are provider and follower of each other. A peer
   that has lost its key and is paired again at the same address.
3. **Prove next.** What holds of ids while handlers do not overlap
   (`NodeIds_serial`); that the pull of `Election` is what `MirrorPromise`
   allows; an abstract specification of the sync cycle (wanted items, files)
   that `StrmFiles` implements.
