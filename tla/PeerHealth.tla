----------------------------- MODULE PeerHealth -----------------------------
(***************************************************************************)
(* What a node knows of one of its peers (internal/peers/registry.go):     *)
(* the row in its database, the entry in memory, the heartbeat goroutine   *)
(* that probes the peer, and whether the peer's items take part in the     *)
(* election of the node's syncs.  Peers share nothing here, so one is      *)
(* enough.                                                                 *)
(*                                                                         *)
(* Time goes by in ticks of one heartbeat interval.  A time is kept as its *)
(* age, up to WithdrawAfter, beyond which nothing depends on it; a peer    *)
(* never seen is of that age.  The sync loop is the queue of module        *)
(* RunQueue and, at some moment of a run, a look at the registry.          *)
(***************************************************************************)
EXTENDS Naturals

CONSTANTS
    WithdrawAfter,  \* in heartbeats
    Configured,     \* the peer is listed in PEERS
    MaxEdits        \* bound: peers added and removed by the user

ASSUME PeerHealthAssumption ==
    /\ WithdrawAfter \in Nat \ {0}
    /\ Configured \in BOOLEAN
    /\ MaxEdits \in Nat

VARIABLES
    up,         \* this node runs
    reach,      \* the peer answers at its address
    row,        \* its row of the peers table
    entry,      \* Registry.peers[id]
    beat,       \* goroutines of checkOnce
    beaten,     \* this tick's heartbeat is over
    adding,     \* how far an AddPeer is
    removing,   \* how far a RemovePeer is
    queued,     \* a sync is wanted
    elected,    \* the last sync let the peer's items take part
    edits,      \* counts what MaxEdits bounds
    missing,    \* history: checks missed since one that was answered
    seen,       \* history: a check has been answered since the node started
    crossed     \* history: since it started, the halves of an AddPeer and of
                \* a RemovePeer have come between each other

vars == <<up, reach, row, entry, beat, beaten, adding, removing, queued,
          elected, edits, missing, seen, crossed>>

\* The heartbeat of startHeartbeat, and one that was cancelled on its way.
Slots == {"live", "cancelled"}

OfflineAfter == 3
Absent == [state |-> "NONE", age |-> WithdrawAfter]
NoEntry == [state |-> "NONE", age |-> WithdrawAfter, missed |-> 0, offering |-> FALSE]
NoBeat == [at |-> "none", healthy |-> FALSE, state |-> "NONE", flipped |-> FALSE]
Asleep == [NoBeat EXCEPT !.at = "sleeping"]
NewEntry == [state |-> "ONLINE", age |-> 0, missed |-> 0, offering |-> TRUE]

Known == entry.state # "NONE"
Older(age) == IF age < WithdrawAfter THEN age + 1 ELSE age

\* Mutant of Offering: one missed check withdraws.
OfferingOnline(p) == p.state = "ONLINE"

\* Peer.Offering.
Offering(p) ==
    \/ p.state = "ONLINE"
    \/ p.state \in {"DEGRADED", "OFFLINE"} /\ p.age < WithdrawAfter

\* The peer is known, online and offering.
Init ==
    /\ up = TRUE /\ reach = TRUE
    /\ row = [state |-> "ONLINE", age |-> 0]
    /\ entry = NewEntry
    /\ beat = [s \in Slots |-> IF s = "live" THEN Asleep ELSE NoBeat]
    /\ beaten = FALSE
    /\ adding = "no" /\ removing = "no"
    /\ queued = FALSE
    /\ elected = TRUE
    /\ edits = 0
    /\ missing = 0
    /\ seen = TRUE
    /\ crossed = FALSE

---------------------------------------------------------------------------
\* The peer, and time.

ReachChanges ==
    /\ reach' = ~reach
    /\ UNCHANGED <<up, row, entry, beat, beaten, adding, removing, queued,
                   elected, edits, missing, seen, crossed>>

\* A running heartbeat beats once per tick; calls are over within one.
Tick ==
    /\ ~up \/ beat["live"].at = "none" \/ beaten
    /\ beat["cancelled"].at = "none" /\ adding = "no" /\ removing = "no"
    /\ beaten' = FALSE
    /\ row' = [row EXCEPT !.age = Older(@)]
    /\ entry' = [entry EXCEPT !.age = Older(@)]
    /\ UNCHANGED <<up, reach, beat, adding, removing, queued, elected, edits,
                   missing, seen, crossed>>

---------------------------------------------------------------------------
\* checkOnce, in the three parts that take the registry's lock or the
\* database's.

Probed == entry.state \notin {"NONE", "DISABLED"}

\* The peer's address is read, and probed.
BeginProbe ==
    /\ beat["live"].at = "sleeping" /\ ~beaten
    /\ IF Probed
       THEN /\ beat' = [beat EXCEPT !["live"].at = "probing", !["live"].healthy = reach]
            /\ UNCHANGED beaten
       ELSE beaten' = TRUE /\ UNCHANGED beat
    /\ UNCHANGED <<up, reach, row, entry, adding, removing, queued, elected,
                   edits, missing, seen, crossed>>

Missed(p) == IF p.missed < OfflineAfter THEN p.missed + 1 ELSE p.missed

Answered(p) == [p EXCEPT !.state = "ONLINE", !.missed = 0, !.age = 0]

Unanswered(p) ==
    [p EXCEPT !.missed = Missed(p),
              !.state = IF Missed(p) >= OfflineAfter THEN "OFFLINE" ELSE "DEGRADED"]

Checked(p, healthy) ==
    LET q == IF healthy THEN Answered(p) ELSE Unanswered(p)
    IN  [q EXCEPT !.offering = Offering(q)]

Rest(s) == IF s = "live" THEN Asleep ELSE NoBeat

\* The answer goes to whatever entry the id has by then.
EndProbe(s) ==
    /\ beat[s].at = "probing"
    /\ IF Known
       THEN LET healthy == beat[s].healthy IN
            /\ entry' = Checked(entry, healthy)
            /\ beat' = [beat EXCEPT ![s] =
                   [at |-> "writing", healthy |-> healthy, state |-> entry'.state,
                    flipped |-> entry'.offering # entry.offering]]
            /\ missing' = IF healthy THEN 0 ELSE Older(missing)
            /\ seen' = (seen \/ healthy)
            /\ UNCHANGED beaten
       ELSE /\ beat' = [beat EXCEPT ![s] = Rest(s)]
            /\ beaten' = (beaten \/ s = "live")
            /\ UNCHANGED <<entry, missing, seen>>
    /\ UNCHANGED <<up, reach, row, adding, removing, queued, elected, edits, crossed>>

\* Mutant of Tells: nobody is told.
TellsNobody(s) == FALSE

\* onOfferingChange.
Tells(s) == beat[s].flipped

\* Mutant of RowToWrite: an upsert.
AnyRowToWrite == TRUE

\* UPDATE: a row that is gone stays gone.
RowToWrite == row.state # "NONE"

\* The row is written, unless the goroutine was cancelled, and a sync queued
\* if the peer's offering has flipped.
WriteState(s) ==
    /\ beat[s].at = "writing"
    /\ LET new == [state |-> beat[s].state,
                   age |-> IF beat[s].healthy THEN 0 ELSE row.age] IN
       \/ RowToWrite /\ row' = new
       \/ (~RowToWrite \/ s = "cancelled") /\ UNCHANGED row
    /\ queued' = (queued \/ Tells(s))
    /\ beat' = [beat EXCEPT ![s] = Rest(s)]
    /\ beaten' = (beaten \/ s = "live")
    /\ UNCHANGED <<up, reach, entry, adding, removing, elected, edits, missing, seen, crossed>>

---------------------------------------------------------------------------
\* AddPeer: the row, the entry, the heartbeat.

AddRow ==
    /\ up /\ adding = "no" /\ edits < MaxEdits
    /\ edits' = edits + 1
    /\ adding' = "stored"
    /\ crossed' = (crossed \/ removing # "no")
    /\ row' = [state |-> IF row.state = "NONE" THEN "ONLINE" ELSE row.state, age |-> 0]
    /\ UNCHANGED <<up, reach, entry, beat, beaten, removing, queued, elected,
                   missing, seen>>

AddEntry ==
    /\ adding = "stored"
    /\ adding' = "entered"
    /\ entry' = NewEntry
    /\ missing' = 0
    /\ seen' = TRUE
    /\ UNCHANGED <<up, reach, row, beat, beaten, removing, queued, elected, edits, crossed>>

\* startHeartbeat, which leaves a running heartbeat alone.
AddBeat ==
    /\ adding = "entered"
    /\ adding' = "no"
    /\ beat' = IF beat["live"].at = "none" /\ entry.state # "DISABLED"
               THEN [beat EXCEPT !["live"] = Asleep]
               ELSE beat
    /\ UNCHANGED <<up, reach, row, entry, beaten, removing, queued, elected,
                   edits, missing, seen, crossed>>

\* Mutant of Cancelled: the heartbeat goes on.
CancelledNot(b) == {b}

\* A heartbeat on its way is cancelled: its probe fails unless it is over.
Cancelled(b) ==
    IF b.at \in {"none", "sleeping"} THEN {NoBeat}
    ELSE {b, [b EXCEPT !.healthy = @ /\ b.at # "probing"]}

\* Mutant of Stopped: RemovePeer leaves the cancel function in its map, so
\* that a new heartbeat takes it for a running one.
StoppedInMap ==
    \E b \in Cancelled(beat["live"]) :
        beat' = [live |-> [NoBeat EXCEPT !.at = "cancelled"], cancelled |-> b]

Stopped ==
    \E b \in Cancelled(beat["live"]) : beat' = [live |-> NoBeat, cancelled |-> b]

\* RemovePeer: entry and heartbeat, then the row.
RemoveEntry ==
    /\ up /\ removing = "no" /\ edits < MaxEdits
    /\ beat["cancelled"].at = "none"
    /\ edits' = edits + 1
    /\ removing' = "dropped"
    /\ crossed' = (crossed \/ adding # "no")
    /\ entry' = NoEntry
    /\ Stopped
    /\ UNCHANGED <<up, reach, row, beaten, adding, queued, elected, missing, seen>>

RemoveRow ==
    /\ removing = "dropped"
    /\ removing' = "no"
    /\ row' = Absent
    /\ UNCHANGED <<up, reach, entry, beat, beaten, adding, queued, elected,
                   edits, missing, seen, crossed>>

---------------------------------------------------------------------------
\* The node.

Crash ==
    /\ up
    /\ up' = FALSE
    /\ entry' = NoEntry
    /\ beat' = [s \in Slots |-> NoBeat]
    /\ adding' = "no" /\ removing' = "no"
    /\ queued' = FALSE
    /\ UNCHANGED <<reach, row, beaten, elected, edits, missing, seen, crossed>>

\* What NewRegistry puts in memory for a row.
Loaded(r) ==
    IF r.state = "NONE" THEN NoEntry
    ELSE [state |-> r.state, age |-> r.age, missed |-> 0, offering |-> Offering(r)]

\* NewRegistry, SetTransports and RunHeartbeat.  Misses are not persisted,
\* and a configured peer that is not in the table is taken to be online.
\* Which transports are on may change from start to start.
Start ==
    /\ ~up
    /\ up' = TRUE
    /\ row' = IF Configured /\ row.state = "NONE"
              THEN [state |-> "ONLINE", age |-> WithdrawAfter] ELSE row
    /\ \E enabled \in BOOLEAN :
         entry' = IF enabled \/ row'.state = "NONE" THEN Loaded(row')
                  ELSE [Loaded(row') EXCEPT !.state = "DISABLED"]
    /\ beat' = [beat EXCEPT !["live"] =
           IF entry'.state \in {"NONE", "DISABLED"} THEN NoBeat ELSE Asleep]
    /\ queued' = TRUE
    /\ seen' = FALSE
    /\ crossed' = FALSE
    /\ UNCHANGED <<reach, beaten, adding, removing, elected, edits, missing>>

\* catalog.Sync looks at the registry.
Sync ==
    /\ up
    /\ elected' = Offering(entry)
    /\ queued' = FALSE
    /\ UNCHANGED <<up, reach, row, entry, beat, beaten, adding, removing,
                   edits, missing, seen, crossed>>

QueuedSync == queued /\ Sync
ScheduledSync == Sync

Beat == BeginProbe \/ \E s \in Slots : EndProbe(s) \/ WriteState(s)
FinishEdit == AddEntry \/ AddBeat \/ RemoveRow
Edit == AddRow \/ RemoveEntry \/ FinishEdit

Next ==
    \/ ReachChanges \/ Tick
    \/ Beat
    \/ Edit
    \/ Crash \/ Start
    \/ Sync

Spec == Init /\ [][Next]_vars

\* Time goes by, heartbeats go on, a call that has begun ends, and a queued
\* sync runs; nothing is said of the schedule, whose interval the user sets.
FairSpec ==
    Spec /\ WF_vars(Tick) /\ WF_vars(Beat) /\ WF_vars(FinishEdit)
         /\ WF_vars(QueuedSync)

\* The schedule comes round, too.
ScheduledSpec == FairSpec /\ WF_vars(ScheduledSync)

---------------------------------------------------------------------------
\* Properties.

PeerStates == {"NONE", "ONLINE", "DEGRADED", "OFFLINE", "DISABLED"}
Ages == 0..WithdrawAfter

\* Type correctness.  A disabled state is never persisted, and a cancelled
\* heartbeat ends with the check it is at.
TypeOK ==
    /\ up \in BOOLEAN /\ reach \in BOOLEAN
    /\ row \in [state : PeerStates \ {"DISABLED"}, age : Ages]
    /\ entry \in [state : PeerStates, age : Ages, missed : 0..OfflineAfter,
                  offering : BOOLEAN]
    /\ beat \in [Slots ->
           [at : {"none", "sleeping", "probing", "writing"}, healthy : BOOLEAN,
            state : PeerStates, flipped : BOOLEAN]]
    /\ beat["cancelled"].at # "sleeping"
    /\ beaten \in BOOLEAN /\ queued \in BOOLEAN /\ elected \in BOOLEAN
    /\ adding \in {"no", "stored", "entered"} /\ removing \in {"no", "dropped"}
    /\ edits \in 0..MaxEdits
    /\ missing \in Ages /\ seen \in BOOLEAN /\ crossed \in BOOLEAN

\* Every peer in memory whose transport is on is probed by a heartbeat that
\* has not been cancelled, however adding and removing it overlap.
EveryPeerIsProbed ==
    up /\ Known /\ entry.state # "DISABLED" /\ adding # "entered"
        => beat["live"].at \in {"sleeping", "probing", "writing"}

\* Items of a peer are withdrawn for missed checks only when as many have
\* been missed as WithdrawAfter has room for.
WithdrawnForMissesOnly ==
    Known /\ entry.state # "DISABLED" /\ ~Offering(entry)
        => missing >= WithdrawAfter - 1

\* That is so once the node has seen the peer since it was started.
WithdrawnForMissesOnceSeen ==
    Known /\ entry.state # "DISABLED" /\ ~Offering(entry) /\ seen
        => missing >= WithdrawAfter - 1

\* With no edit on its way, memory and table agree on whether the peer is
\* known: a peer added at runtime survives a restart, a removed one does not
\* come back.
PeersPersist ==
    up /\ adding = "no" /\ removing = "no" => (Known <=> row.state # "NONE")

\* That is so of calls that did not overlap.  Of those that did, one half
\* remains: AddPeer stores the row first and RemovePeer drops it last, so that
\* no row is left of a peer that is gone from memory, whatever heartbeats
\* still write, and a removed peer comes back with a restart only if PEERS
\* lists it.
RemovedPeersStayRemoved ==
    up /\ adding = "no" /\ removing = "no"
        => /\ row.state # "NONE" => Known
           /\ crossed \/ (Known => row.state # "NONE")

Settled(answers) == <>[](up /\ reach = answers /\ Known /\ entry.state # "DISABLED")

\* A peer that is gone for good is withdrawn, without a scheduled sync.
GonePeerIsWithdrawn == Settled(FALSE) => <>[]~elected

\* A peer that is back for good takes part again, likewise.
BackPeerIsRestored == Settled(TRUE) => <>[]elected
=============================================================================
