-------------------------- MODULE PeerHealthProofs --------------------------
(***************************************************************************)
(* Proofs about module PeerHealth, for any WithdrawAfter, configured or    *)
(* not, and any number of edits.  Adding and removing a peer, its checks   *)
(* and restarts write row, entry and heartbeat in turn; the invariant says *)
(* which of the three may be ahead of which.                               *)
(***************************************************************************)
EXTENDS PeerHealth, TLAPS

\* Nothing is in memory of a node that is down.
DownInv ==
    ~up => /\ ~Known /\ adding = "no" /\ removing = "no"
           /\ \A s \in Slots : beat[s].at = "none"

\* A disabled peer has no heartbeat, not even one on its way out.
DisabledInv ==
    entry.state = "DISABLED" =>
        adding # "entered" /\ \A s \in Slots : beat[s].at = "none"

\* What a heartbeat is about to write is the outcome of a check, and the
\* heartbeat that is to go on checks once per tick.
BeatInv ==
    /\ \A s \in Slots :
         beat[s].at = "writing" => beat[s].state \in {"ONLINE", "DEGRADED", "OFFLINE"}
    /\ beaten => beat["live"].at \in {"none", "sleeping"}

\* A row is ahead of the entry while the peer is being added, and outlives it
\* while the peer is being removed.
RowInv ==
    up /\ row.state # "NONE" => Known \/ adding = "stored" \/ removing = "dropped"

\* While calls have not crossed, an entry has a row.
UncrossedInv ==
    up /\ ~crossed =>
        /\ adding = "no" \/ removing = "no"
        /\ Known \/ adding = "stored" => row.state # "NONE"
        /\ removing = "dropped" => ~Known

\* A peer seen since the start has been away for as many ticks as checks of
\* it were missed, and this tick's.
AgeInv ==
    Known /\ entry.state # "DISABLED" /\ seen =>
        /\ entry.age <= missing + 1
        /\ beaten \/ beat["live"].at = "writing" => entry.age <= missing

PeerInv ==
    /\ TypeOK
    /\ DownInv
    /\ DisabledInv
    /\ BeatInv
    /\ EveryPeerIsProbed
    /\ RowInv
    /\ UncrossedInv
    /\ AgeInv

USE DEF Slots, Known
USE PeerHealthAssumption

---------------------------------------------------------------------------
\* Ages, entries and heartbeats.

Entries == [state : PeerStates, age : Ages, missed : 0..OfflineAfter, offering : BOOLEAN]
Rows == [state : PeerStates \ {"DISABLED"}, age : Ages]
Beats == [at : {"none", "sleeping", "probing", "writing"}, healthy : BOOLEAN,
          state : PeerStates, flipped : BOOLEAN]

\* Growing older keeps an age an age, by one unless it is the last.
LEMMA OlderIsAge ==
    ASSUME NEW age \in Ages
    PROVE  /\ Older(age) \in Ages
           /\ Older(age) <= age + 1
           /\ \A other \in Ages : age <= other + 1 => age <= Older(other)
BY DEF Ages, Older

LEMMA Constants ==
    /\ NoEntry \in Entries /\ NewEntry \in Entries /\ Absent \in Rows
    /\ NoBeat \in Beats /\ Asleep \in Beats
<1>1. 0 \in Ages /\ WithdrawAfter \in Ages /\ 0 \in 0..OfflineAfter
  BY DEF Ages, OfflineAfter
<1>2. NoEntry \in Entries /\ NewEntry \in Entries /\ Absent \in Rows
  BY <1>1 DEF NoEntry, NewEntry, Absent, Entries, Rows, PeerStates
<1>3. NoBeat \in Beats
  BY DEF NoBeat, Beats, PeerStates
<1>4. Asleep \in Beats
  BY <1>3 DEF Asleep, Beats
<1> QED
  BY <1>2, <1>3, <1>4

\* A check makes an entry of an entry: online and new if it was answered, of
\* the same age and not online if it was not.
LEMMA CheckedEntry ==
    ASSUME NEW p \in Entries, NEW healthy \in BOOLEAN
    PROVE  /\ Checked(p, healthy) \in Entries
           /\ healthy => Checked(p, healthy).state = "ONLINE" /\ Checked(p, healthy).age = 0
           /\ ~healthy => /\ Checked(p, healthy).state \in {"DEGRADED", "OFFLINE"}
                          /\ Checked(p, healthy).age = p.age
<1>1. Answered(p) \in Entries
  <2>1. 0 \in Ages /\ 0 \in 0..OfflineAfter
    BY DEF Ages, OfflineAfter
  <2> QED
    BY <2>1 DEF Answered, Entries, PeerStates
<1>2. Missed(p) \in 0..OfflineAfter
  BY DEF Missed, Entries, OfflineAfter
<1>3. Unanswered(p) \in Entries
  BY <1>2 DEF Unanswered, Entries, PeerStates
<1>4. \A q \in Entries : Offering(q) \in BOOLEAN
  BY DEF Offering
<1> QED
  BY <1>1, <1>3, <1>4 DEF Checked, Answered, Unanswered, Entries

\* A start makes an entry of a row.
LEMMA LoadedEntry ==
    ASSUME NEW r \in Rows
    PROVE  Loaded(r) \in Entries
<1>1. 0 \in 0..OfflineAfter /\ Offering(r) \in BOOLEAN
  BY DEF OfflineAfter, Offering
<1> QED
  BY <1>1, Constants DEF Loaded, Entries, Rows

---------------------------------------------------------------------------
\* The initial state.

LEMMA InitEstablishes == Init => PeerInv
<1> SUFFICES ASSUME Init PROVE PeerInv
  OBVIOUS
<1>1. TypeOK
  <2>1. beat \in [Slots -> Beats] /\ entry \in Entries /\ beat["cancelled"].at = "none"
    BY Constants DEF Init, NoBeat
  <2>2. row \in Rows
    BY DEF Init, Rows, PeerStates, Ages
  <2>3. edits \in 0..MaxEdits /\ missing \in Ages
    BY DEF Init, Ages
  <2> QED
    BY <2>1, <2>2, <2>3 DEF Init, TypeOK, Entries, Rows, Beats
<1>2. DownInv /\ DisabledInv /\ BeatInv /\ EveryPeerIsProbed
  BY DEF Init, DownInv, DisabledInv, BeatInv, EveryPeerIsProbed, NewEntry, Asleep,
         NoBeat
<1>3. RowInv /\ UncrossedInv /\ AgeInv
  BY DEF Init, RowInv, UncrossedInv, AgeInv, NewEntry
<1> QED
  BY <1>1, <1>2, <1>3 DEF PeerInv

---------------------------------------------------------------------------
\* Steps of the peer, of time and of heartbeats.

LEMMA ReachChangesKeeps ==
    ASSUME PeerInv, ReachChanges PROVE PeerInv'
<1>1. TypeOK'
  BY DEF PeerInv, TypeOK, ReachChanges
<1>2. DownInv' /\ DisabledInv'
  BY DEF PeerInv, DownInv, DisabledInv, ReachChanges
<1>3. BeatInv'
  BY DEF PeerInv, BeatInv, ReachChanges
<1>4. EveryPeerIsProbed'
  BY DEF PeerInv, EveryPeerIsProbed, ReachChanges
<1>5. RowInv' /\ UncrossedInv'
  BY DEF PeerInv, RowInv, UncrossedInv, ReachChanges
<1>6. AgeInv'
  BY DEF PeerInv, AgeInv, ReachChanges
<1> QED
  BY <1>1, <1>2, <1>3, <1>4, <1>5, <1>6 DEF PeerInv

LEMMA TickKeeps ==
    ASSUME PeerInv, Tick PROVE PeerInv'
<1>1. TypeOK'
  BY OlderIsAge DEF PeerInv, TypeOK, Tick
<1>2. DownInv' /\ DisabledInv'
  BY DEF PeerInv, DownInv, DisabledInv, Tick
<1>3. BeatInv'
  BY DEF PeerInv, BeatInv, Tick
<1>4. EveryPeerIsProbed'
  BY DEF PeerInv, EveryPeerIsProbed, Tick
<1>5. RowInv' /\ UncrossedInv'
  BY DEF PeerInv, RowInv, UncrossedInv, Tick
<1>6. AgeInv'
  <2>1. entry.age \in Ages /\ missing \in Ages /\ entry'.age = Older(entry.age)
    BY DEF PeerInv, TypeOK, Tick
  <2>2. up /\ Known /\ entry.state # "DISABLED" => adding = "no"
    BY DEF Tick
  <2>3. Known /\ entry.state # "DISABLED" /\ seen => entry.age <= missing
    BY DEF PeerInv, AgeInv, DownInv, EveryPeerIsProbed, Tick
  <2>4. Known /\ entry.state # "DISABLED" /\ seen => Older(entry.age) <= missing + 1
    BY <2>1, <2>3 DEF Ages, Older
  <2>5. ~beaten' /\ (Known => beat["live"].at # "writing")
    BY DEF PeerInv, BeatInv, DownInv, Tick
  <2> QED
    BY <2>4, <2>5 DEF AgeInv, Tick
<1> QED
  BY <1>1, <1>2, <1>3, <1>4, <1>5, <1>6 DEF PeerInv

LEMMA BeginProbeKeeps ==
    ASSUME PeerInv, BeginProbe PROVE PeerInv'
<1>1. TypeOK'
  <2>1. beat' \in [Slots -> Beats] /\ beat'["cancelled"] = beat["cancelled"]
    BY DEF PeerInv, TypeOK, Beats, BeginProbe
  <2> QED
    BY <2>1 DEF PeerInv, TypeOK, Beats, BeginProbe
<1>2. DownInv' /\ DisabledInv'
  BY DEF PeerInv, DownInv, DisabledInv, BeginProbe
<1>3. BeatInv'
  BY DEF PeerInv, TypeOK, BeatInv, BeginProbe
<1>4. EveryPeerIsProbed'
  BY DEF PeerInv, TypeOK, EveryPeerIsProbed, BeginProbe
<1>5. RowInv' /\ UncrossedInv'
  BY DEF PeerInv, RowInv, UncrossedInv, BeginProbe
<1>6. AgeInv'
  BY DEF PeerInv, TypeOK, AgeInv, BeginProbe, Probed
<1> QED
  BY <1>1, <1>2, <1>3, <1>4, <1>5, <1>6 DEF PeerInv

\* A check that ends makes the entry what its answer says, or finds none.
LEMMA EndProbeEntry ==
    ASSUME PeerInv, NEW s \in Slots, EndProbe(s), Known
    PROVE  LET healthy == beat[s].healthy IN
           /\ healthy \in BOOLEAN
           /\ entry' \in Entries
           /\ healthy => entry'.state = "ONLINE" /\ entry'.age = 0
           /\ ~healthy => entry'.state \in {"DEGRADED", "OFFLINE"} /\ entry'.age = entry.age
           /\ \E flipped \in BOOLEAN :
                beat' = [beat EXCEPT ![s] = [at |-> "writing", healthy |-> healthy,
                                             state |-> entry'.state, flipped |-> flipped]]
           /\ missing' = IF healthy THEN 0 ELSE Older(missing)
           /\ seen' = (seen \/ healthy)
           /\ beaten' = beaten
<1> DEFINE healthy == beat[s].healthy
<1>1. entry \in Entries /\ healthy \in BOOLEAN
  BY DEF PeerInv, TypeOK, Entries
<1>2. /\ entry' = Checked(entry, healthy)
      /\ beat' = [beat EXCEPT ![s] = [at |-> "writing", healthy |-> healthy,
                 state |-> entry'.state, flipped |-> entry'.offering # entry.offering]]
      /\ missing' = IF healthy THEN 0 ELSE Older(missing)
      /\ seen' = (seen \/ healthy)
      /\ beaten' = beaten
  BY DEF EndProbe
<1> HIDE DEF healthy
<1>3. /\ entry' \in Entries
      /\ healthy => entry'.state = "ONLINE" /\ entry'.age = 0
      /\ ~healthy => entry'.state \in {"DEGRADED", "OFFLINE"} /\ entry'.age = entry.age
  BY <1>1, <1>2, CheckedEntry
<1>4. (entry'.offering # entry.offering) \in BOOLEAN
  OBVIOUS
<1> QED
  BY <1>1, <1>2, <1>3 DEF healthy

LEMMA EndProbeKeeps ==
    ASSUME PeerInv, NEW s \in Slots, EndProbe(s) PROVE PeerInv'
<1>1. CASE Known
  <2> DEFINE healthy == beat[s].healthy
  <2>1. PICK flipped \in BOOLEAN :
          beat' = [beat EXCEPT ![s] = [at |-> "writing", healthy |-> healthy,
                                       state |-> entry'.state, flipped |-> flipped]]
    BY <1>1, EndProbeEntry
  <2>2. /\ healthy \in BOOLEAN
        /\ entry' \in Entries
        /\ healthy => entry'.state = "ONLINE" /\ entry'.age = 0
        /\ ~healthy => entry'.state \in {"DEGRADED", "OFFLINE"} /\ entry'.age = entry.age
        /\ missing' = IF healthy THEN 0 ELSE Older(missing)
        /\ seen' = (seen \/ healthy)
        /\ beaten' = beaten
    BY <1>1, EndProbeEntry
  <2>3. /\ beat[s].at = "probing"
        /\ UNCHANGED <<up, reach, row, adding, removing, queued, elected, edits, crossed>>
    BY DEF EndProbe
  <2> HIDE DEF healthy
  <2>4. /\ beat' \in [Slots -> Beats]
        /\ \A t \in Slots : beat'[t] = IF t = s
             THEN [at |-> "writing", healthy |-> healthy, state |-> entry'.state,
                   flipped |-> flipped]
             ELSE beat[t]
    BY <2>1, <2>2 DEF PeerInv, TypeOK, Beats, Entries
  <2>5. entry'.state \in {"ONLINE", "DEGRADED", "OFFLINE"}
    BY <2>2
  <2>6. 0 \in Ages /\ missing \in Ages /\ Older(missing) \in Ages
    BY OlderIsAge DEF PeerInv, TypeOK, Ages
  <2>7. TypeOK'
    BY <2>2, <2>3, <2>4, <2>6 DEF PeerInv, TypeOK, Entries
  <2>8. DownInv' /\ DisabledInv'
    BY <2>3, <2>5 DEF PeerInv, DownInv, DisabledInv
  <2>9. BeatInv' /\ EveryPeerIsProbed'
    BY <1>1, <2>2, <2>3, <2>4 DEF PeerInv, DisabledInv, BeatInv, EveryPeerIsProbed
  <2>10. RowInv' /\ UncrossedInv'
    BY <1>1, <2>3, <2>5 DEF PeerInv, RowInv, UncrossedInv
  <2>11. AgeInv'
    <3>1. entry.age \in Ages /\ entry.state # "DISABLED"
      BY <2>3 DEF PeerInv, TypeOK, DisabledInv
    <3>2. CASE healthy
      BY <2>2, <3>2 DEF AgeInv
    <3>3. CASE ~healthy /\ seen
      <4>1. entry.age <= missing + 1
        BY <1>1, <3>1, <3>3 DEF PeerInv, AgeInv
      <4>2. entry.age <= Older(missing)
        BY <3>1, <4>1, <2>6 DEF Ages, Older
      <4>3. /\ entry'.age = entry.age /\ missing' = Older(missing)
            /\ entry.age \in Nat /\ Older(missing) \in Nat
        BY <2>2, <2>6, <3>1, <3>3 DEF Ages
      <4> QED
        BY <4>2, <4>3 DEF AgeInv
    <3>4. CASE ~healthy /\ ~seen
      BY <2>2, <3>4 DEF AgeInv
    <3> QED
      BY <3>2, <3>3, <3>4
  <2> QED
    BY <2>7, <2>8, <2>9, <2>10, <2>11 DEF PeerInv
<1>2. CASE ~Known
  <2>1. /\ beat[s].at = "probing"
        /\ beat' = [beat EXCEPT ![s] = Rest(s)]
        /\ beaten' = (beaten \/ s = "live")
        /\ UNCHANGED <<up, reach, row, entry, adding, removing, queued, elected,
                       edits, missing, seen, crossed>>
    BY <1>2 DEF EndProbe
  <2>2. Rest(s) \in Beats /\ Rest(s).at = IF s = "live" THEN "sleeping" ELSE "none"
    BY Constants DEF Rest, Asleep, NoBeat
  <2>3. /\ beat' \in [Slots -> Beats]
        /\ \A t \in Slots : beat'[t] = IF t = s THEN Rest(s) ELSE beat[t]
    BY <2>1, <2>2 DEF PeerInv, TypeOK, Beats
  <2>4. TypeOK'
    BY <2>1, <2>2 DEF PeerInv, TypeOK, Beats
  <2>5. DownInv' /\ DisabledInv' /\ BeatInv'
    BY <2>1, <2>2, <2>3 DEF PeerInv, DownInv, DisabledInv, BeatInv
  <2>6. EveryPeerIsProbed' /\ RowInv' /\ UncrossedInv' /\ AgeInv'
    BY <1>2, <2>1 DEF PeerInv, EveryPeerIsProbed, RowInv, UncrossedInv, AgeInv
  <2> QED
    BY <2>4, <2>5, <2>6 DEF PeerInv
<1> QED
  BY <1>1, <1>2

LEMMA WriteStateKeeps ==
    ASSUME PeerInv, NEW s \in Slots, WriteState(s) PROVE PeerInv'
<1>1. TypeOK'
  <2>1. Rest(s) \in Beats /\ (s = "cancelled" => Rest(s).at # "sleeping")
    BY Constants DEF Rest, NoBeat
  <2>2. beat' \in [Slots -> Beats] /\ beat'["cancelled"].at # "sleeping"
    BY <2>1 DEF PeerInv, TypeOK, Beats, WriteState
  <2>3. 0 \in Ages /\ row.age \in Ages /\ beat[s].healthy \in BOOLEAN
    BY DEF PeerInv, TypeOK, Ages
  <2>4. beat[s].state \in PeerStates \ {"DISABLED"}
    BY DEF PeerInv, BeatInv, WriteState, PeerStates
  <2>5. row' \in Rows
    BY <2>3, <2>4 DEF PeerInv, TypeOK, Rows, WriteState
  <2>6. queued' \in BOOLEAN /\ beaten' \in BOOLEAN
    BY DEF WriteState
  <2> QED
    BY <2>2, <2>5 DEF PeerInv, TypeOK, Rows, Beats, WriteState
<1>2. DownInv' /\ DisabledInv'
  BY DEF PeerInv, DownInv, DisabledInv, WriteState
<1>3. BeatInv'
  BY DEF PeerInv, TypeOK, BeatInv, WriteState, Rest, Asleep, NoBeat
<1>4. EveryPeerIsProbed'
  BY DEF PeerInv, EveryPeerIsProbed, WriteState, Rest, Asleep
<1>5. RowInv' /\ UncrossedInv'
  BY DEF PeerInv, BeatInv, RowInv, UncrossedInv, WriteState, RowToWrite
<1>6. AgeInv'
  BY DEF PeerInv, TypeOK, AgeInv, WriteState
<1> QED
  BY <1>1, <1>2, <1>3, <1>4, <1>5, <1>6 DEF PeerInv

---------------------------------------------------------------------------
\* Steps of the user.

LEMMA AddRowKeeps ==
    ASSUME PeerInv, AddRow PROVE PeerInv'
<1>1. TypeOK'
  <2>1. 0 \in Ages /\ edits' \in 0..MaxEdits
    BY DEF PeerInv, TypeOK, AddRow, Ages
  <2>2. row' \in Rows
    BY <2>1 DEF PeerInv, TypeOK, AddRow, Rows, PeerStates
  <2> QED
    BY <2>2 DEF PeerInv, TypeOK, AddRow, Rows
<1>2. DownInv' /\ DisabledInv'
  BY DEF PeerInv, DownInv, DisabledInv, AddRow
<1>3. BeatInv'
  BY DEF PeerInv, BeatInv, AddRow
<1>4. EveryPeerIsProbed'
  BY DEF PeerInv, EveryPeerIsProbed, AddRow
<1>5. RowInv' /\ UncrossedInv'
  BY DEF RowInv, UncrossedInv, AddRow
<1>6. AgeInv'
  BY DEF PeerInv, AgeInv, AddRow
<1> QED
  BY <1>1, <1>2, <1>3, <1>4, <1>5, <1>6 DEF PeerInv

LEMMA AddEntryKeeps ==
    ASSUME PeerInv, AddEntry PROVE PeerInv'
<1>1. TypeOK'
  BY Constants DEF PeerInv, TypeOK, Entries, AddEntry, NewEntry
<1>2. DownInv' /\ DisabledInv'
  BY DEF PeerInv, DownInv, DisabledInv, AddEntry, NewEntry
<1>3. BeatInv'
  BY DEF PeerInv, BeatInv, AddEntry
<1>4. EveryPeerIsProbed'
  BY DEF EveryPeerIsProbed, AddEntry
<1>5. RowInv' /\ UncrossedInv'
  BY DEF PeerInv, RowInv, UncrossedInv, AddEntry, NewEntry
<1>6. AgeInv'
  BY DEF AgeInv, AddEntry, NewEntry
<1> QED
  BY <1>1, <1>2, <1>3, <1>4, <1>5, <1>6 DEF PeerInv

LEMMA AddBeatKeeps ==
    ASSUME PeerInv, AddBeat PROVE PeerInv'
<1>1. TypeOK'
  BY Constants DEF PeerInv, TypeOK, Beats, AddBeat
<1>2. DownInv' /\ DisabledInv'
  BY DEF PeerInv, DownInv, DisabledInv, AddBeat
<1>3. BeatInv'
  BY DEF PeerInv, BeatInv, AddBeat, Asleep
<1>4. EveryPeerIsProbed'
  BY DEF PeerInv, TypeOK, EveryPeerIsProbed, AddBeat, Asleep
<1>5. RowInv' /\ UncrossedInv'
  BY DEF PeerInv, RowInv, UncrossedInv, AddBeat
<1>6. AgeInv'
  BY DEF PeerInv, AgeInv, AddBeat, Asleep
<1> QED
  BY <1>1, <1>2, <1>3, <1>4, <1>5, <1>6 DEF PeerInv

LEMMA RemoveEntryKeeps ==
    ASSUME PeerInv, RemoveEntry PROVE PeerInv'
<1>1. TypeOK'
  <2>1. PICK b \in Cancelled(beat["live"]) : beat' = [live |-> NoBeat, cancelled |-> b]
    BY DEF RemoveEntry, Stopped
  <2>2. beat["live"] \in Beats
    BY DEF PeerInv, TypeOK, Beats
  <2>3. b \in Beats /\ b.at # "sleeping"
    BY <2>2, Constants DEF Cancelled, Beats, NoBeat
  <2>4. beat' \in [Slots -> Beats] /\ beat'["cancelled"].at # "sleeping"
    BY <2>1, <2>3, Constants
  <2>5. edits' \in 0..MaxEdits
    BY DEF PeerInv, TypeOK, RemoveEntry
  <2> QED
    BY <2>4, Constants DEF PeerInv, TypeOK, Entries, Beats, RemoveEntry
<1>2. DownInv' /\ DisabledInv'
  BY DEF DownInv, DisabledInv, RemoveEntry, NoEntry
<1>3. BeatInv'
  BY DEF PeerInv, TypeOK, BeatInv, RemoveEntry, Stopped, Cancelled, NoBeat
<1>4. EveryPeerIsProbed'
  BY DEF EveryPeerIsProbed, RemoveEntry, NoEntry
<1>5. RowInv' /\ UncrossedInv'
  BY DEF RowInv, UncrossedInv, RemoveEntry, NoEntry
<1>6. AgeInv'
  BY DEF AgeInv, RemoveEntry, NoEntry
<1> QED
  BY <1>1, <1>2, <1>3, <1>4, <1>5, <1>6 DEF PeerInv

LEMMA RemoveRowKeeps ==
    ASSUME PeerInv, RemoveRow PROVE PeerInv'
<1>1. TypeOK'
  BY Constants DEF PeerInv, TypeOK, Rows, RemoveRow
<1>2. DownInv' /\ DisabledInv'
  BY DEF PeerInv, DownInv, DisabledInv, RemoveRow
<1>3. BeatInv'
  BY DEF PeerInv, BeatInv, RemoveRow
<1>4. EveryPeerIsProbed'
  BY DEF PeerInv, EveryPeerIsProbed, RemoveRow
<1>5. RowInv' /\ UncrossedInv'
  BY DEF PeerInv, RowInv, UncrossedInv, RemoveRow, Absent
<1>6. AgeInv'
  BY DEF PeerInv, AgeInv, RemoveRow
<1> QED
  BY <1>1, <1>2, <1>3, <1>4, <1>5, <1>6 DEF PeerInv

---------------------------------------------------------------------------
\* Steps of the node.

LEMMA CrashKeeps ==
    ASSUME PeerInv, Crash PROVE PeerInv'
<1>1. TypeOK'
  BY Constants DEF PeerInv, TypeOK, Entries, Beats, Crash, NoBeat
<1>2. DownInv' /\ DisabledInv'
  BY DEF DownInv, DisabledInv, Crash, NoEntry, NoBeat
<1>3. BeatInv'
  BY DEF BeatInv, Crash, NoBeat
<1>4. EveryPeerIsProbed'
  BY DEF EveryPeerIsProbed, Crash
<1>5. RowInv' /\ UncrossedInv'
  BY DEF RowInv, UncrossedInv, Crash
<1>6. AgeInv'
  BY DEF AgeInv, Crash, NoEntry
<1> QED
  BY <1>1, <1>2, <1>3, <1>4, <1>5, <1>6 DEF PeerInv

LEMMA StartKeeps ==
    ASSUME PeerInv, Start PROVE PeerInv'
<1>1. TypeOK'
  <2>1. WithdrawAfter \in Ages
    BY DEF Ages
  <2>2. row' \in Rows
    BY <2>1 DEF PeerInv, TypeOK, Start, Rows, PeerStates
  <2>3. entry' \in Entries
    BY <2>2, LoadedEntry DEF Start, Entries, PeerStates
  <2>4. beat' \in [Slots -> Beats] /\ beat'["cancelled"] = beat["cancelled"]
    BY Constants DEF PeerInv, TypeOK, Beats, Start
  <2> QED
    BY <2>2, <2>3, <2>4 DEF PeerInv, TypeOK, Entries, Rows, Beats, Start
<1>2. DownInv' /\ DisabledInv'
  BY DEF PeerInv, DownInv, DisabledInv, Start, NoBeat
<1>3. BeatInv'
  BY DEF PeerInv, BeatInv, Start, Asleep, NoBeat
<1>4. EveryPeerIsProbed'
  BY DEF PeerInv, TypeOK, EveryPeerIsProbed, Start, Asleep
<1>5. RowInv' /\ UncrossedInv'
  BY DEF PeerInv, DownInv, RowInv, UncrossedInv, Start, Loaded, NoEntry
<1>6. AgeInv'
  BY DEF AgeInv, Start
<1> QED
  BY <1>1, <1>2, <1>3, <1>4, <1>5, <1>6 DEF PeerInv

LEMMA SyncKeeps ==
    ASSUME PeerInv, Sync PROVE PeerInv'
<1>1. TypeOK'
  BY DEF PeerInv, TypeOK, Sync, Offering
<1>2. DownInv' /\ DisabledInv'
  BY DEF PeerInv, DownInv, DisabledInv, Sync
<1>3. BeatInv'
  BY DEF PeerInv, BeatInv, Sync
<1>4. EveryPeerIsProbed'
  BY DEF PeerInv, EveryPeerIsProbed, Sync
<1>5. RowInv' /\ UncrossedInv'
  BY DEF PeerInv, RowInv, UncrossedInv, Sync
<1>6. AgeInv'
  BY DEF PeerInv, AgeInv, Sync
<1> QED
  BY <1>1, <1>2, <1>3, <1>4, <1>5, <1>6 DEF PeerInv

---------------------------------------------------------------------------
\* Together.

LEMMA StutterKeeps == ASSUME PeerInv, UNCHANGED vars PROVE PeerInv'
BY DEF PeerInv, TypeOK, DownInv, DisabledInv, BeatInv, EveryPeerIsProbed, RowInv,
       UncrossedInv, AgeInv, vars

LEMMA StepKeeps == PeerInv /\ [Next]_vars => PeerInv'
<1> SUFFICES ASSUME PeerInv, [Next]_vars PROVE PeerInv'
  OBVIOUS
<1>1. CASE ReachChanges \/ Tick
  BY <1>1, ReachChangesKeeps, TickKeeps
<1>2. CASE Beat
  BY <1>2, BeginProbeKeeps, EndProbeKeeps, WriteStateKeeps DEF Beat
<1>3. CASE Edit
  BY <1>3, AddRowKeeps, AddEntryKeeps, AddBeatKeeps, RemoveEntryKeeps, RemoveRowKeeps
     DEF Edit, FinishEdit
<1>4. CASE Crash \/ Start \/ Sync
  BY <1>4, CrashKeeps, StartKeeps, SyncKeeps
<1>5. CASE UNCHANGED vars
  BY <1>5, StutterKeeps
<1> QED
  BY <1>1, <1>2, <1>3, <1>4, <1>5 DEF Next

\* The inductive invariant: row, entry and heartbeat of a peer, whatever the
\* user, the peer and the node do between their writes.
THEOREM PeerInvHolds == Spec => []PeerInv
<1> QED
  BY InitEstablishes, StepKeeps, PTL DEF Spec

\* Row, entry and heartbeat stay in their types; a disabled state is never
\* persisted.
THEOREM PeerTypeCorrect == Spec => []TypeOK
<1>1. PeerInv => TypeOK
  BY DEF PeerInv
<1> QED
  BY <1>1, PeerInvHolds, PTL

\* No overlap of AddPeer, RemovePeer and cancelled heartbeats leaves a peer in
\* memory that nothing probes.
THEOREM PeersAreProbed == Spec => []EveryPeerIsProbed
<1>1. PeerInv => EveryPeerIsProbed
  BY DEF PeerInv
<1> QED
  BY <1>1, PeerInvHolds, PTL

\* Between calls no row is left of a peer that memory has forgotten, and none
\* is missing unless calls have crossed.
THEOREM RemovedPeersAreGone == Spec => []RemovedPeersStayRemoved
<1>1. PeerInv => RemovedPeersStayRemoved
  BY DEF PeerInv, RowInv, UncrossedInv, RemovedPeersStayRemoved
<1> QED
  BY <1>1, PeerInvHolds, PTL

\* A peer the node has seen since it started is withdrawn for missed checks
\* only when there were enough of them, however checks, ticks and edits fall.
THEOREM WithdrawalsAreForMisses == Spec => []WithdrawnForMissesOnceSeen
<1>1. PeerInv => WithdrawnForMissesOnceSeen
  BY DEF PeerInv, TypeOK, AgeInv, WithdrawnForMissesOnceSeen, Offering, PeerStates, Ages
<1> QED
  BY <1>1, PeerInvHolds, PTL
=============================================================================
