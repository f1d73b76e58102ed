------------------------------ MODULE Traffic ------------------------------
(***************************************************************************)
(* How a node counts the bytes it relays (internal/proxy/proxy.go,         *)
(* internal/metrics/metrics.go): stream requests, each of which tells the  *)
(* collector once, after its copy, how much it has moved; the collector's  *)
(* counters, which exist from the first bytes of a key on; the flush that  *)
(* copies them to the table peer_traffic, row by row; the reset that       *)
(* clears both; and the restart, which renames peers with the ids of older *)
(* builds (internal/peers/ids.go) and loads the table.                     *)
(*                                                                         *)
(* A key is a peer's id, or the NODE_ID of a caller nobody knew.  Of the   *)
(* counters object a stream has looked up it matters only whether it is    *)
(* still the one in the collector's map.                                   *)
(***************************************************************************)
EXTENDS Naturals, SequencesExt

CONSTANTS
    Peers,      \* ids the registry may give
    Uuids,      \* those that a start changes once the peer's name is known
    Names,      \* NODE_IDs
    NameOf,     \* Peer.Name
    Streams,    \* bound: the requests
    MaxBytes,   \* bound: what one of them moves
    MaxFaults   \* bound: failed writes, resets and restarts

ASSUME TrafficAssumption ==
    /\ Names # {}
    /\ Uuids \subseteq Peers
    /\ NameOf \in [Peers -> Names]
    /\ MaxBytes \in Nat
    /\ MaxFaults \in Nat

VARIABLES
    known,      \* the peers of the registry
    stream,     \* the requests
    here,       \* keys of Collector.peers
    total,      \* totalIn and totalOut, 0 of keys not here
    saved,      \* rows of peer_traffic
    bytes,      \* their bytes, 0 of rows that are not there
    flushing,   \* the flush on its way
    resetting,  \* a Reset has cleared the table and not yet the map
    faults,     \* counts what MaxFaults bounds
    sure,       \* history: bytes of calls of RecordBytes since the last reset
    torn,       \* history: those of calls which that reset has met on their way
    recent,     \* history: of sure, those the table cannot have yet
    during,     \* history: of recent, those since the flush has read the totals
    lost,       \* history: of sure, those that crashes may have lost
    due         \* history: what a stream had moved when the last flush began

collector == <<here, total>>
table == <<saved, bytes>>
history == <<sure, torn, recent, during, lost, due>>
vars == <<known, stream, collector, table, flushing, resetting, faults, history>>

Dirs == {"in", "out"}
Keys == Peers \cup Names
Rows == Keys \X Dirs

Zero == [row \in Rows |-> 0]
Empty == [d \in Dirs |-> 0]

\* n bytes more at a row.
Plus(f, row, n) == [f EXCEPT ![row] = @ + n]

AnyRow == CHOOSE row \in Rows : TRUE
AnyKey == CHOOSE k \in Keys : TRUE
NoStream == [at |-> "none", row |-> AnyRow, n |-> 0, base |-> 0, held |-> FALSE, met |-> FALSE]
NoFlush == [at |-> "no", todo |-> {}, key |-> AnyKey, read |-> Empty]

Init ==
    /\ known \in SUBSET Peers
    /\ stream = [s \in Streams |-> NoStream]
    /\ here = {} /\ total = Zero
    /\ saved = {} /\ bytes = Zero
    /\ flushing = NoFlush
    /\ resetting = FALSE
    /\ faults = 0
    /\ sure = Zero /\ torn = Zero /\ recent = Zero /\ during = Zero /\ lost = Zero
    /\ due = [s \in Streams |-> 0]

---------------------------------------------------------------------------
\* Stream requests.

\* ResolveCaller: any peer that matches, for the map has no order; with no
\* match by name, one at the caller's address, or none.
ResolveCaller(name) ==
    LET matching == {p \in known : NameOf[p] = name \/ p = name}
    IN  IF matching # {} THEN matching ELSE known \cup {name}

\* callerPeerID: the key of the connection, or what a caller says it is.
CallerPeerIDs == known \cup UNION {ResolveCaller(name) : name \in Names}

\* A request for this node's library, or for that of a peer that is known.
StreamStarted(s) ==
    /\ stream[s].at = "none"
    /\ \E row \in (CallerPeerIDs \X {"out"}) \cup (known \X {"in"}) :
         stream' = [stream EXCEPT ![s] = [@ EXCEPT !.at = "copying", !.row = row]]
    /\ UNCHANGED <<known, collector, table, flushing, resetting, faults, history>>

Copy(s) ==
    /\ stream[s].at = "copying" /\ stream[s].n < MaxBytes
    /\ stream' = [stream EXCEPT ![s].n = @ + 1]
    /\ UNCHANGED <<known, collector, table, flushing, resetting, faults, history>>

\* The copy is over, or never began; RecordBytes returns at once if nothing
\* was moved.
CopyEnds(s) ==
    /\ stream[s].at = "copying"
    /\ stream' = [stream EXCEPT ![s].at = IF stream[s].n = 0 THEN "ended" ELSE "looking"]
    /\ UNCHANGED <<known, collector, table, flushing, resetting, faults, history>>

---------------------------------------------------------------------------
\* RecordBytes: peerCounters looks under the read lock, then once more under
\* the write lock, and the bytes are added under none.

LookUp(s) ==
    /\ stream[s].at = "looking"
    /\ stream' = IF stream[s].row[1] \in here
                 THEN [stream EXCEPT ![s] = [@ EXCEPT !.at = "adding", !.held = TRUE]]
                 ELSE [stream EXCEPT ![s].at = "creating"]
    /\ UNCHANGED <<known, collector, table, flushing, resetting, faults, history>>

\* Mutant of Kept: the second look is left out.
KeptNot(k) == FALSE

\* The counters another stream has put in the map meanwhile stay there.
Kept(k) == k \in here

\* The key has counters now, and s holds them.  Had there been others, the
\* streams holding those would hold what nobody reads.
Create(s) ==
    LET k == stream[s].row[1] IN
    /\ stream[s].at = "creating"
    /\ here' = here \cup {k}
    /\ total' = [row \in Rows |-> IF row[1] = k /\ ~Kept(k) THEN 0 ELSE total[row]]
    /\ stream' = [t \in Streams |->
           IF t = s THEN [stream[s] EXCEPT !.at = "adding", !.held = TRUE]
           ELSE [stream[t] EXCEPT !.held = @ /\ (stream[t].row[1] = k => Kept(k))]]
    /\ UNCHANGED <<known, table, flushing, resetting, faults, history>>

Add(s) ==
    LET st == stream[s] IN
    /\ st.at = "adding"
    /\ total' = IF st.held THEN Plus(total, st.row, st.n) ELSE total
    /\ IF st.met
       THEN torn' = Plus(torn, st.row, st.n) /\ UNCHANGED <<sure, recent, during>>
       ELSE /\ sure' = Plus(sure, st.row, st.n)
            /\ recent' = Plus(recent, st.row, st.n)
            /\ during' = IF flushing.at \in Dirs THEN Plus(during, st.row, st.n) ELSE during
            /\ torn' = torn
    /\ stream' = [stream EXCEPT ![s] = [@ EXCEPT !.at = "ended", !.held = FALSE]]
    /\ UNCHANGED <<known, here, table, flushing, resetting, faults, lost, due>>

---------------------------------------------------------------------------
\* flush: under flushMu, for one key after the other both totals are read
\* and written.  The two reads are one step here: a total that grows between
\* them grows as if it had before or after both.

FlushBegins ==
    /\ flushing.at = "no" /\ ~resetting
    /\ flushing' = [flushing EXCEPT !.at = "next", !.todo = here]
    /\ due' = [s \in Streams |-> stream[s].n]
    /\ UNCHANGED <<known, stream, collector, table, resetting, faults>>
    /\ UNCHANGED <<sure, torn, recent, during, lost>>

FlushReads(k) ==
    /\ flushing.at = "next" /\ k \in flushing.todo
    /\ flushing' = [at |-> "in", todo |-> flushing.todo \ {k}, key |-> k,
                    read |-> [d \in Dirs |-> total[<<k, d>>]]]
    /\ during' = Zero
    /\ UNCHANGED <<known, stream, collector, table, resetting, faults>>
    /\ UNCHANGED <<sure, torn, recent, lost, due>>

\* Mutant of Upserted: INSERT OR IGNORE.
UpsertedOnce(row, n) == IF row \in saved THEN bytes ELSE [bytes EXCEPT ![row] = n]

Upserted(row, n) == [bytes EXCEPT ![row] = n]

\* The row of one direction is written, the one of "in" first.
FlushWrites(d) ==
    LET row == <<flushing.key, d>> IN
    /\ flushing.at = d
    /\ bytes' = Upserted(row, flushing.read[d])
    /\ saved' = saved \cup {row}
    /\ flushing' = [flushing EXCEPT !.at = IF d = "in" THEN "out" ELSE "next"]
    /\ recent' = [recent EXCEPT ![row] = during[row]]
    /\ during' = IF d = "in" THEN during ELSE Zero
    /\ UNCHANGED <<known, stream, collector, resetting, faults, sure, torn, lost, due>>

\* A write fails; that of "in" takes the one of "out" with it.
FlushFails ==
    /\ flushing.at \in Dirs /\ faults < MaxFaults
    /\ faults' = faults + 1
    /\ flushing' = [flushing EXCEPT !.at = "next"]
    /\ during' = Zero
    /\ UNCHANGED <<known, stream, collector, table, resetting>>
    /\ UNCHANGED <<sure, torn, recent, lost, due>>

FlushEnds ==
    /\ flushing.at = "next" /\ flushing.todo = {}
    /\ flushing' = NoFlush
    /\ UNCHANGED <<known, stream, collector, table, resetting, faults, history>>

---------------------------------------------------------------------------
\* Reset.

\* Mutant of ResetMayBegin: Reset does without flushMu.
ResetMayBeginAnytime == ~resetting

\* flushMu.
ResetMayBegin == ~resetting /\ flushing.at = "no"

\* The table is cleared; if that fails nothing is.
ResetClearsTable ==
    /\ ResetMayBegin /\ faults < MaxFaults
    /\ faults' = faults + 1
    /\ resetting' = TRUE
    /\ saved' = {} /\ bytes' = Zero
    /\ UNCHANGED <<known, stream, collector, flushing, history>>

Calling(st) == st.at \in {"looking", "creating", "adding"}

\* The map is replaced by an empty one: what streams hold is nobody's now.
ResetClearsMap ==
    /\ resetting
    /\ resetting' = FALSE
    /\ here' = {} /\ total' = Zero
    /\ sure' = Zero /\ torn' = Zero /\ recent' = Zero /\ during' = Zero /\ lost' = Zero
    /\ stream' = [s \in Streams |-> [stream[s] EXCEPT
           !.held = FALSE, !.base = stream[s].n, !.met = Calling(stream[s])]]
    /\ UNCHANGED <<known, table, flushing, faults, due>>

---------------------------------------------------------------------------
\* A restart.

\* The new ids of the peers to be renamed, whose names have become known: a
\* peer has the same name under its new id, which was no peer's.
Renames ==
    {new \in UNION {[renamed -> Peers \ (Uuids \cup known)] :
                       renamed \in SUBSET (known \cap Uuids)} :
        /\ IsInjective(new)
        /\ \A p \in DOMAIN new : NameOf[new[p]] = NameOf[p]}

OldId(new, k) == CHOOSE p \in DOMAIN new : new[p] = k

\* What is counted under an old id is added to what the new one has.
Folded(f, new) ==
    [row \in Rows |->
        IF row[1] \in DOMAIN new THEN 0
        ELSE IF row[1] \in Range(new) THEN f[row] + f[<<OldId(new, row[1]), row[2]>>]
        ELSE f[row]]

\* Mutant of Summed: INSERT OR REPLACE.
SummedNot(new) ==
    [row \in Rows |->
        IF row[1] \in DOMAIN new THEN 0
        ELSE IF row[1] \in Range(new) /\ <<OldId(new, row[1]), row[2]>> \in saved
        THEN bytes[<<OldId(new, row[1]), row[2]>>]
        ELSE bytes[row]]

\* The bytes of the table once renamePeerID has been through it: a peer's name
\* may have rows, under which older builds counted what it fetched.
Summed(new) == Folded(bytes, new)

RenamedRows(new) ==
    {<<IF row[1] \in DOMAIN new THEN new[row[1]] ELSE row[1], row[2]>> : row \in saved}

\* Mutant of LoadedKeys: only one of the directions gets its key counters.
LoadedKeysOfOut(rows) == {row[1] : row \in {r \in rows : r[2] = "out"}}

LoadedKeys(rows) == {row[1] : row \in rows}

\* A crash, NewRegistry and NewCollector.  What the table did not have is gone;
\* a reset that had cleared it is through.  The flush at the end of Run never
\* happens: main gives it a context nobody cancels.
Restart ==
    /\ faults < MaxFaults
    /\ faults' = faults + 1
    /\ \E new \in Renames :
         /\ known' = (known \ DOMAIN new) \cup Range(new)
         /\ saved' = RenamedRows(new) /\ bytes' = Summed(new)
         /\ here' = LoadedKeys(saved') /\ total' = bytes'
         /\ IF resetting THEN sure' = Zero /\ torn' = Zero /\ lost' = Zero
            ELSE /\ sure' = Folded(sure, new) /\ torn' = Folded(torn, new)
                 /\ lost' = Folded([row \in Rows |-> lost[row] + recent[row]], new)
    /\ recent' = Zero /\ during' = Zero
    /\ flushing' = NoFlush
    /\ resetting' = FALSE
    /\ stream' = [s \in Streams |-> IF stream[s].at = "none" THEN stream[s]
                                    ELSE [stream[s] EXCEPT !.at = "ended", !.held = FALSE]]
    /\ due' = due

\* Peers are added and removed; their traffic is left alone.
RegistryChanges ==
    /\ \E p \in Peers : known' = IF p \in known THEN known \ {p} ELSE known \cup {p}
    /\ UNCHANGED <<stream, collector, table, flushing, resetting, faults, history>>

---------------------------------------------------------------------------
RecordBytes(s) == LookUp(s) \/ Create(s) \/ Add(s)

Flush ==
    \/ FlushBegins \/ FlushEnds
    \/ \E k \in Keys : FlushReads(k)
    \/ \E d \in Dirs : FlushWrites(d)

Next ==
    \/ \E s \in Streams : StreamStarted(s) \/ Copy(s) \/ CopyEnds(s) \/ RecordBytes(s)
    \/ Flush \/ FlushFails
    \/ ResetClearsTable \/ ResetClearsMap
    \/ Restart
    \/ RegistryChanges

Spec == Init /\ [][Next]_vars

\* The flush comes round by its ticker, and a reset that has begun ends.
FairSpec == Spec /\ WF_vars(Flush) /\ WF_vars(ResetClearsMap)

---------------------------------------------------------------------------
\* What the dashboard shows.

\* resolvedSnapshot for one peer: the entry of its name joins that of its id.
FoldedIn(snap, p) ==
    LET q == NameOf[p] IN
    IF q = p \/ q \notin snap.keys THEN snap
    ELSE [keys |-> (snap.keys \ {q}) \cup {p},
          of |-> [row \in Rows |-> IF row[1] = p THEN snap.of[row] + snap.of[<<q, row[2]>>]
                                   ELSE IF row[1] = q THEN 0 ELSE snap.of[row]]]

Shown == FoldLeft(FoldedIn, [keys |-> here, of |-> total], SetToSeq(known))

---------------------------------------------------------------------------
\* Properties.

Requests ==
    [at : {"none", "copying", "looking", "creating", "adding", "ended"},
     row : Rows, n : 0..MaxBytes, base : 0..MaxBytes, held : BOOLEAN, met : BOOLEAN]

Flushes ==
    [at : {"no", "next"} \cup Dirs, todo : SUBSET Keys, key : Keys, read : [Dirs -> Nat]]

\* Type correctness; of keys and rows that are not there nothing is counted.
TypeOK ==
    /\ known \subseteq Peers
    /\ stream \in [Streams -> Requests]
    /\ here \subseteq Keys /\ total \in [Rows -> Nat]
    /\ \A row \in Rows : row[1] \notin here => total[row] = 0
    /\ saved \subseteq Rows /\ bytes \in [Rows -> Nat]
    /\ \A row \in Rows : row \notin saved => bytes[row] = 0
    /\ flushing \in Flushes
    /\ resetting \in BOOLEAN
    /\ faults \in 0..MaxFaults
    /\ sure \in [Rows -> Nat] /\ torn \in [Rows -> Nat] /\ lost \in [Rows -> Nat]
    /\ recent \in [Rows -> Nat] /\ during \in [Rows -> Nat]
    /\ due \in [Streams -> 0..MaxBytes]

\* Bytes are counted once: however calls of RecordBytes for one key overlap,
\* with each other, with flushes, crashes and the renaming of peers, the totals
\* are those of the calls since the last reset, and of some of those the reset
\* has met.  A crash takes nothing but calls that came after the last flush had
\* read the row's total to store it (comment of flushInterval).
NoBytesLost ==
    \A row \in Rows :
        /\ sure[row] <= total[row] + lost[row]
        /\ total[row] <= sure[row] + torn[row]

\* A reset is final: no flush writes back what a reset has cleared, so the
\* table is never ahead of memory.
ResetIsFinal ==
    \A row \in Rows : bytes[row] <= total[row]

\* In the end the table has every byte that is counted, in both directions,
\* failed writes notwithstanding.
TotalsGetStored == <>[](\A row \in Rows : row[1] \in here => bytes[row] = total[row])

\* Traffic, keyed by id, never mixes up two nodes (comment of OtherIDs in
\* internal/peers/ids.go): a peer is shown what is counted under its own id.
TrafficIsNotMixedUp ==
    \A p \in known : \A d \in Dirs : Shown.of[<<p, d>>] >= total[<<p, d>>]

\* Totals "are only ever behind by at most flushInterval worth of traffic if the
\* process dies" (comment of flushInterval): a node that dies comes back with
\* what its streams had moved when the last flush began, if nothing failed.
TotalsAreOneFlushBehind ==
    [][Restart /\ faults = 0 /\ flushing.at = "no" =>
          \A s \in Streams : due[s] <= total'[stream[s].row]]_vars

\* A stream keeps counting from zero when the counters are reset (comment of
\* Reset): it adds what it has moved since.
ResetStartsFromZero ==
    [][\A s \in Streams : Add(s) =>
          total'[stream[s].row] <= total[stream[s].row] + stream[s].n - stream[s].base]_vars
=============================================================================
