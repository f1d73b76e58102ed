--------------------------- MODULE TrafficProofs ---------------------------
(***************************************************************************)
(* Proofs about module Traffic, for any peers, names, number of streams    *)
(* and bounds.  That bytes are counted once needs to be said together with *)
(* who holds counters, and that a crash loses no more than it may, with    *)
(* what the table and a flush have of each row; that a reset is final      *)
(* needs what a flush has read and that flush and reset exclude each       *)
(* other.                                                                  *)
(***************************************************************************)
EXTENDS Traffic, TLAPS

\* Who holds counters holds those of the map, and a call that holds none was
\* met by the last reset.
HoldersInv ==
    \A s \in Streams :
        /\ stream[s].held => stream[s].at = "adding" /\ stream[s].row[1] \in here
        /\ stream[s].at = "adding" => stream[s].held \/ stream[s].met

\* What a flush has read and not yet written is not ahead of the totals, and
\* behind the calls by those that came since.
FlushInv ==
    /\ flushing.at # "no" => ~resetting
    /\ flushing.at \in Dirs =>
         \A d \in Dirs :
             LET row == <<flushing.key, d>> IN
             /\ flushing.read[d] <= total[row]
             /\ sure[row] <= flushing.read[d] + lost[row] + during[row]

\* The table is behind the calls by the recent ones, and those lost before.
StoredInv == ~resetting => \A row \in Rows : sure[row] <= bytes[row] + lost[row] + recent[row]

ResettingInv == resetting => bytes = Zero

TrafficInv ==
    /\ TypeOK
    /\ HoldersInv
    /\ FlushInv
    /\ StoredInv
    /\ ResettingInv
    /\ NoBytesLost
    /\ ResetIsFinal

---------------------------------------------------------------------------
\* The initial state.

\* Callers are given ids of the registry or the names they report.
LEMMA CallersAreKeys == TypeOK => CallerPeerIDs \subseteq Keys
BY DEF TypeOK, CallerPeerIDs, ResolveCaller, Keys

\* There is at least one row, whatever the peers.
LEMMA SomeRow == AnyRow \in Rows /\ AnyKey \in Keys
<1>1. PICK k \in Keys : TRUE
  BY TrafficAssumption DEF Keys
<1>2. <<k, "in">> \in Rows
  BY DEF Rows, Dirs
<1> QED
  BY <1>1, <1>2 DEF AnyRow, AnyKey

\* Requests that differ in where they are, or in what they hold.
LEMMA RequestsVary ==
    ASSUME NEW r \in Requests, NEW row \in Rows, NEW held \in BOOLEAN,
           NEW at \in {"none", "copying", "looking", "creating", "adding", "ended"}
    PROVE  /\ [r EXCEPT !.at = at] \in Requests
           /\ [r EXCEPT !.held = held] \in Requests
           /\ [r EXCEPT !.at = at, !.row = row] \in Requests
           /\ [r EXCEPT !.at = at, !.held = held] \in Requests
BY DEF Requests

LEMMA InitEstablishes == Init => TrafficInv
<1> SUFFICES ASSUME Init PROVE TrafficInv
  OBVIOUS
<1>1. TypeOK
  <2>1. NoStream \in Requests
    BY SomeRow, TrafficAssumption DEF NoStream, Requests
  <2>2. NoFlush \in Flushes
    BY SomeRow DEF NoFlush, Empty, Flushes
  <2>3. Zero \in [Rows -> Nat] /\ \A row \in Rows : Zero[row] = 0
    BY DEF Zero
  <2>4. known \subseteq Peers /\ stream \in [Streams -> Requests] /\ flushing = NoFlush
    BY <2>1 DEF Init
  <2>5. /\ total \in [Rows -> Nat] /\ bytes \in [Rows -> Nat]
        /\ sure \in [Rows -> Nat] /\ torn \in [Rows -> Nat] /\ lost \in [Rows -> Nat]
        /\ recent \in [Rows -> Nat] /\ during \in [Rows -> Nat]
        /\ \A row \in Rows : total[row] = 0 /\ bytes[row] = 0
        /\ due \in [Streams -> 0..MaxBytes]
    BY <2>3, TrafficAssumption DEF Init
  <2>6. /\ here = {} /\ saved = {} /\ resetting \in BOOLEAN
        /\ flushing \in Flushes /\ faults \in 0..MaxFaults
    <3>1. 0 \in 0..MaxFaults
      BY TrafficAssumption
    <3> QED
      BY <2>2, <3>1 DEF Init
  <2> QED
    BY <2>4, <2>5, <2>6 DEF TypeOK
<1>2. HoldersInv /\ FlushInv /\ StoredInv /\ ResettingInv
  BY DEF Init, HoldersInv, FlushInv, StoredInv, ResettingInv, NoStream, NoFlush, Zero, Dirs
<1>3. NoBytesLost /\ ResetIsFinal
  BY DEF Init, NoBytesLost, ResetIsFinal, Zero
<1> QED
  BY <1>1, <1>2, <1>3 DEF TrafficInv

---------------------------------------------------------------------------
\* Steps that touch no count.

LEMMA StreamStartedKeeps ==
    ASSUME TrafficInv, NEW s \in Streams, StreamStarted(s) PROVE TrafficInv'
<1>1. CallerPeerIDs \subseteq Keys /\ known \subseteq Keys
  BY CallersAreKeys DEF TrafficInv, TypeOK, Requests, Keys
<1>2. PICK row \in Rows :
        stream' = [stream EXCEPT ![s] = [@ EXCEPT !.at = "copying", !.row = row]]
  BY <1>1 DEF StreamStarted, Rows, Dirs
<1>3. TypeOK'
  <2>1. stream[s] \in Requests
    BY DEF TrafficInv, TypeOK
  <2>2. [stream[s] EXCEPT !.at = "copying", !.row = row] \in Requests
    BY <2>1, RequestsVary
  <2>3. stream' \in [Streams -> Requests]
    BY <1>2, <2>2 DEF TrafficInv, TypeOK
  <2> QED
    BY <2>3 DEF TrafficInv, TypeOK, StreamStarted, collector, table, history
<1>4. HoldersInv'
  BY <1>2 DEF TrafficInv, TypeOK, Requests, HoldersInv, StreamStarted, collector
<1>5. FlushInv' /\ StoredInv' /\ ResettingInv' /\ NoBytesLost' /\ ResetIsFinal'
  BY DEF TrafficInv, FlushInv, StoredInv, ResettingInv, NoBytesLost, ResetIsFinal,
         StreamStarted, collector, table, history
<1> QED
  BY <1>3, <1>4, <1>5 DEF TrafficInv

LEMMA CopyKeeps ==
    ASSUME TrafficInv, NEW s \in Streams, Copy(s) PROVE TrafficInv'
<1>1. TypeOK'
  <2>1. stream' \in [Streams -> Requests]
    BY TrafficAssumption DEF TrafficInv, TypeOK, Requests, Copy
  <2> QED
    BY <2>1 DEF TrafficInv, TypeOK, Copy, collector, table, history
<1>2. HoldersInv'
  BY DEF TrafficInv, TypeOK, Requests, HoldersInv, Copy, collector
<1>3. FlushInv' /\ StoredInv' /\ ResettingInv' /\ NoBytesLost' /\ ResetIsFinal'
  BY DEF TrafficInv, FlushInv, StoredInv, ResettingInv, NoBytesLost, ResetIsFinal,
         Copy, collector, table, history
<1> QED
  BY <1>1, <1>2, <1>3 DEF TrafficInv

LEMMA CopyEndsKeeps ==
    ASSUME TrafficInv, NEW s \in Streams, CopyEnds(s) PROVE TrafficInv'
<1>1. TypeOK'
  <2>1. stream' \in [Streams -> Requests]
    BY TrafficAssumption DEF TrafficInv, TypeOK, Requests, CopyEnds
  <2> QED
    BY <2>1 DEF TrafficInv, TypeOK, CopyEnds, collector, table, history
<1>2. HoldersInv'
  BY DEF TrafficInv, TypeOK, Requests, HoldersInv, CopyEnds, collector
<1>3. FlushInv' /\ StoredInv' /\ ResettingInv' /\ NoBytesLost' /\ ResetIsFinal'
  BY DEF TrafficInv, FlushInv, StoredInv, ResettingInv, NoBytesLost, ResetIsFinal,
         CopyEnds, collector, table, history
<1> QED
  BY <1>1, <1>2, <1>3 DEF TrafficInv

LEMMA LookUpKeeps ==
    ASSUME TrafficInv, NEW s \in Streams, LookUp(s) PROVE TrafficInv'
<1>1. TypeOK'
  <2>1. stream[s] \in Requests /\ stream[s].row \in Rows
    BY DEF TrafficInv, TypeOK, Requests
  <2>2. /\ [stream[s] EXCEPT !.at = "adding", !.held = TRUE] \in Requests
        /\ [stream[s] EXCEPT !.at = "creating"] \in Requests
    BY <2>1, RequestsVary
  <2>3. stream' \in [Streams -> Requests]
    BY <2>2 DEF TrafficInv, TypeOK, LookUp
  <2> QED
    BY <2>3 DEF TrafficInv, TypeOK, LookUp, collector, table, history
<1>2. HoldersInv'
  BY DEF TrafficInv, TypeOK, Requests, HoldersInv, LookUp, collector
<1>3. FlushInv' /\ StoredInv' /\ ResettingInv' /\ NoBytesLost' /\ ResetIsFinal'
  BY DEF TrafficInv, FlushInv, StoredInv, ResettingInv, NoBytesLost, ResetIsFinal,
         LookUp, collector, table, history
<1> QED
  BY <1>1, <1>2, <1>3 DEF TrafficInv

LEMMA RegistryChangesKeeps ==
    ASSUME TrafficInv, RegistryChanges PROVE TrafficInv'
<1>1. TypeOK'
  BY TrafficAssumption DEF TrafficInv, TypeOK, Requests, RegistryChanges, collector, table, history
<1>2. HoldersInv'
  BY DEF TrafficInv, TypeOK, Requests, HoldersInv, RegistryChanges, collector
<1>3. FlushInv' /\ StoredInv' /\ ResettingInv' /\ NoBytesLost' /\ ResetIsFinal'
  BY DEF TrafficInv, FlushInv, StoredInv, ResettingInv, NoBytesLost, ResetIsFinal,
         RegistryChanges, collector, table, history
<1> QED
  BY <1>1, <1>2, <1>3 DEF TrafficInv

---------------------------------------------------------------------------
\* RecordBytes.

\* Counters are created for a key that has none, so no other stream lets go.
LEMMA CreateKeeps ==
    ASSUME TrafficInv, NEW s \in Streams, Create(s) PROVE TrafficInv'
<1> DEFINE k == stream[s].row[1]
<1>1. total' = total /\ here' = here \cup {k}
  BY DEF TrafficInv, TypeOK, Requests, Create, Kept
<1>2. stream' = [stream EXCEPT ![s] = [@ EXCEPT !.at = "adding", !.held = TRUE]]
  <2>1. k \notin here \/ Kept(k)
    BY DEF Kept
  <2>2. ASSUME NEW t \in Streams
        PROVE  [stream[t] EXCEPT !.held = @ /\ (stream[t].row[1] = k => Kept(k))] = stream[t]
    <3>1. stream[t].held => (stream[t].row[1] = k => Kept(k))
      BY <2>1 DEF TrafficInv, HoldersInv
    <3>2. stream[t] \in Requests /\ stream[t].held \in BOOLEAN
      BY DEF TrafficInv, TypeOK, Requests
    <3>3. (stream[t].held /\ (stream[t].row[1] = k => Kept(k))) = stream[t].held
      BY <3>1, <3>2
    <3>4. [stream[t] EXCEPT !.held = stream[t].held] = stream[t]
      BY <3>2 DEF Requests
    <3> QED
      BY <3>3, <3>4
  <2> QED
    BY <2>2 DEF TrafficInv, TypeOK, Create
<1>3. TypeOK'
  <2>1. k \in Keys /\ stream[s] \in Requests /\ stream[s].row \in Rows
    BY DEF TrafficInv, TypeOK, Requests, Rows
  <2>2. [stream[s] EXCEPT !.at = "adding", !.held = TRUE] \in Requests
    BY <2>1, RequestsVary
  <2>3. stream' \in [Streams -> Requests]
    BY <1>2, <2>2 DEF TrafficInv, TypeOK
  <2> QED
    BY <1>1, <2>1, <2>3 DEF TrafficInv, TypeOK, Create, table, history
<1>4. HoldersInv'
  BY <1>1, <1>2 DEF TrafficInv, TypeOK, HoldersInv
<1>5. FlushInv' /\ StoredInv' /\ ResettingInv' /\ NoBytesLost' /\ ResetIsFinal'
  BY <1>1 DEF TrafficInv, FlushInv, StoredInv, ResettingInv, NoBytesLost, ResetIsFinal,
              Create, table, history
<1> QED
  BY <1>3, <1>4, <1>5 DEF TrafficInv

\* Bytes are added to the map's counters, or by a call the reset has met.
LEMMA AddKeeps ==
    ASSUME TrafficInv, NEW s \in Streams, Add(s) PROVE TrafficInv'
<1> DEFINE row == stream[s].row
           n == stream[s].n
<1>1. row \in Rows /\ n \in Nat /\ (stream[s].held \/ stream[s].met)
      /\ (stream[s].held => row[1] \in here)
  BY TrafficAssumption DEF TrafficInv, TypeOK, Requests, HoldersInv, Add
<1>2. /\ total' = IF stream[s].held THEN Plus(total, row, n) ELSE total
      /\ sure' = IF stream[s].met THEN sure ELSE Plus(sure, row, n)
      /\ torn' = IF stream[s].met THEN Plus(torn, row, n) ELSE torn
      /\ recent' = IF stream[s].met THEN recent ELSE Plus(recent, row, n)
      /\ during' = IF ~stream[s].met /\ flushing.at \in Dirs THEN Plus(during, row, n)
                   ELSE during
      /\ lost' = lost /\ due' = due
  BY DEF Add
<1>3. \A f \in [Rows -> Nat] :
        /\ Plus(f, row, n) \in [Rows -> Nat]
        /\ \A r \in Rows : Plus(f, row, n)[r] = IF r = row THEN f[r] + n ELSE f[r]
  BY <1>1 DEF Plus
<1>4. /\ total \in [Rows -> Nat] /\ sure \in [Rows -> Nat] /\ torn \in [Rows -> Nat]
      /\ recent \in [Rows -> Nat] /\ during \in [Rows -> Nat] /\ lost \in [Rows -> Nat]
      /\ bytes \in [Rows -> Nat]
  BY DEF TrafficInv, TypeOK
<1>5. /\ total' \in [Rows -> Nat] /\ sure' \in [Rows -> Nat] /\ torn' \in [Rows -> Nat]
      /\ recent' \in [Rows -> Nat] /\ during' \in [Rows -> Nat]
  BY <1>2, <1>3, <1>4
<1>6. \A r \in Rows :
        /\ total'[r] = IF stream[s].held /\ r = row THEN total[r] + n ELSE total[r]
        /\ sure'[r] = IF ~stream[s].met /\ r = row THEN sure[r] + n ELSE sure[r]
        /\ torn'[r] = IF stream[s].met /\ r = row THEN torn[r] + n ELSE torn[r]
        /\ recent'[r] = IF ~stream[s].met /\ r = row THEN recent[r] + n ELSE recent[r]
        /\ flushing.at \in Dirs =>
             during'[r] = IF ~stream[s].met /\ r = row THEN during[r] + n ELSE during[r]
  BY <1>2, <1>3, <1>4
<1>7. /\ here' = here /\ flushing' = flushing /\ resetting' = resetting
      /\ UNCHANGED <<known, table, faults>>
  BY DEF Add
<1>8. TypeOK'
  <2>1. \A r \in Rows : r[1] \notin here' => total'[r] = 0
    BY <1>1, <1>6, <1>7 DEF TrafficInv, TypeOK
  <2>2. stream' \in [Streams -> Requests]
    <3>1. stream[s] \in Requests /\ stream[s].row \in Rows
      BY DEF TrafficInv, TypeOK, Requests
    <3>2. [stream[s] EXCEPT !.at = "ended", !.held = FALSE] \in Requests
      BY <3>1, RequestsVary
    <3> QED
      BY <3>2 DEF TrafficInv, TypeOK, Add
  <2> QED
    BY <1>2, <1>5, <1>7, <2>1, <2>2 DEF TrafficInv, TypeOK, table
<1>9. HoldersInv'
  BY DEF TrafficInv, TypeOK, Requests, HoldersInv, Add
<1>10. FlushInv'
  <2>1. ASSUME flushing.at \in Dirs, NEW d \in Dirs
        PROVE  LET r == <<flushing.key, d>> IN
               /\ flushing.read[d] <= total'[r]
               /\ sure'[r] <= flushing.read[d] + lost'[r] + during'[r]
    <3> DEFINE r == <<flushing.key, d>>
    <3>1. r \in Rows /\ flushing.read[d] \in Nat
      BY DEF TrafficInv, TypeOK, Flushes, Rows
    <3>2. /\ flushing.read[d] <= total[r]
          /\ sure[r] <= flushing.read[d] + lost[r] + during[r]
      BY <2>1 DEF TrafficInv, FlushInv
    <3> HIDE DEF r, n, row
    <3>3. /\ total[r] \in Nat /\ sure[r] \in Nat /\ lost[r] \in Nat /\ during[r] \in Nat
          /\ total'[r] \in {total[r], total[r] + n}
          /\ \/ sure'[r] = sure[r] /\ during'[r] = during[r]
             \/ sure'[r] = sure[r] + n /\ during'[r] = during[r] + n
      BY <1>4, <1>6, <2>1, <3>1
    <3>4. flushing.read[d] <= total'[r]
      BY <1>1, <3>1, <3>2, <3>3
    <3>5. sure'[r] <= flushing.read[d] + lost[r] + during'[r]
      BY <1>1, <3>1, <3>2, <3>3
    <3> QED
      BY <1>2, <3>4, <3>5 DEF r
  <2> QED
    BY <1>7, <2>1 DEF TrafficInv, FlushInv
<1> HIDE DEF n, row
<1>11. StoredInv' /\ ResettingInv'
  <2>1. ResettingInv'
    BY <1>7 DEF TrafficInv, ResettingInv, table
  <2>2. ASSUME ~resetting, NEW r \in Rows
        PROVE  sure'[r] <= bytes[r] + lost[r] + recent'[r]
    <3>1. sure[r] <= bytes[r] + lost[r] + recent[r]
      BY <2>2 DEF TrafficInv, StoredInv
    <3>2. \/ sure'[r] = sure[r] /\ recent'[r] = recent[r]
          \/ sure'[r] = sure[r] + n /\ recent'[r] = recent[r] + n
      BY <1>6
    <3> QED
      BY <1>1, <1>4, <3>1, <3>2
  <2> QED
    BY <1>2, <1>7, <2>1, <2>2 DEF StoredInv, table
<1>12. NoBytesLost'
  <2> SUFFICES ASSUME NEW r \in Rows
               PROVE  /\ sure'[r] <= total'[r] + lost[r]
                      /\ total'[r] <= sure'[r] + torn'[r]
    BY <1>2 DEF NoBytesLost
  <2>1. sure[r] <= total[r] + lost[r] /\ total[r] <= sure[r] + torn[r]
    BY DEF TrafficInv, NoBytesLost
  <2>2. \/ /\ total'[r] = total[r] + n /\ sure'[r] = sure[r] + n /\ torn'[r] = torn[r]
        \/ /\ total'[r] \in {total[r], total[r] + n}
           /\ sure'[r] = sure[r] /\ torn'[r] = torn[r] + n
        \/ /\ total'[r] = total[r] /\ sure'[r] = sure[r] /\ torn'[r] = torn[r]
    BY <1>1, <1>6
  <2> QED
    BY <1>1, <1>4, <2>1, <2>2
<1>13. ResetIsFinal'
  <2>1. \A r \in Rows : total'[r] \in {total[r], total[r] + n}
    BY <1>6
  <2> QED
    BY <1>1, <1>4, <1>7, <2>1 DEF TrafficInv, ResetIsFinal, table
<1> QED
  BY <1>8, <1>9, <1>10, <1>11, <1>12, <1>13 DEF TrafficInv

---------------------------------------------------------------------------
\* The flush.

\* Beginning, ending and failing change nothing but where the flush is.
LEMMA FlushMovesOn ==
    ASSUME TrafficInv, FlushBegins \/ FlushEnds \/ FlushFails PROVE TrafficInv'
<1>1. NoFlush \in Flushes /\ NoFlush.at = "no"
  BY SomeRow DEF NoFlush, Empty, Flushes
<1>2. flushing \in Flushes /\ here \subseteq Keys
  BY DEF TrafficInv, TypeOK
<1>3. flushing' \in Flushes /\ flushing'.at \in {"no", "next"}
  BY <1>1, <1>2 DEF FlushBegins, FlushEnds, FlushFails, Flushes
<1>4. TypeOK'
  <2>1. due' \in [Streams -> 0..MaxBytes]
    BY DEF TrafficInv, TypeOK, Requests, FlushBegins, FlushEnds, FlushFails, history
  <2>2. during' \in [Rows -> Nat]
    BY DEF TrafficInv, TypeOK, Zero, FlushBegins, FlushEnds, FlushFails, history
  <2>3. faults' \in 0..MaxFaults
    BY TrafficAssumption DEF TrafficInv, TypeOK, FlushBegins, FlushEnds, FlushFails
  <2>4. UNCHANGED <<known, stream, here, total, saved, bytes, resetting, sure, torn,
                    recent, lost>>
    BY DEF FlushBegins, FlushEnds, FlushFails, collector, table, history
  <2> QED
    BY <1>3, <2>1, <2>2, <2>3, <2>4 DEF TrafficInv, TypeOK
<1>5. HoldersInv' /\ StoredInv' /\ ResettingInv' /\ NoBytesLost' /\ ResetIsFinal'
  BY DEF TrafficInv, HoldersInv, StoredInv, ResettingInv, NoBytesLost, ResetIsFinal,
         FlushBegins, FlushEnds, FlushFails, collector, table, history
<1>6. FlushInv'
  BY <1>3 DEF TrafficInv, FlushInv, FlushBegins, FlushEnds, FlushFails, Dirs
<1> QED
  BY <1>4, <1>5, <1>6 DEF TrafficInv

LEMMA FlushReadsKeeps ==
    ASSUME TrafficInv, NEW k \in Keys, FlushReads(k) PROVE TrafficInv'
<1> DEFINE read == [d \in Dirs |-> total[<<k, d>>]]
<1>1. read \in [Dirs -> Nat] /\ \A d \in Dirs : <<k, d>> \in Rows
  BY DEF TrafficInv, TypeOK, Rows
<1>2. /\ flushing' = [at |-> "in", todo |-> flushing.todo \ {k}, key |-> k, read |-> read]
      /\ during' = Zero
      /\ UNCHANGED <<known, stream, here, total, saved, bytes, resetting, faults, sure,
                     torn, recent, lost, due>>
  BY DEF FlushReads, collector, table
<1>3. TypeOK'
  <2>1. flushing' \in Flushes
    BY <1>1, <1>2 DEF TrafficInv, TypeOK, Flushes, Dirs
  <2>2. during' \in [Rows -> Nat]
    BY <1>2 DEF Zero
  <2> QED
    BY <1>2, <2>1, <2>2 DEF TrafficInv, TypeOK
<1>4. HoldersInv' /\ StoredInv' /\ ResettingInv' /\ NoBytesLost' /\ ResetIsFinal'
  BY <1>2 DEF TrafficInv, HoldersInv, StoredInv, ResettingInv, NoBytesLost, ResetIsFinal
<1>5. FlushInv'
  <2>1. ASSUME NEW d \in Dirs
        PROVE  LET row == <<k, d>> IN
               read[d] <= total[row] /\ sure[row] <= read[d] + lost[row] + 0
    BY <1>1 DEF TrafficInv, TypeOK, NoBytesLost
  <2>2. ~resetting
    BY DEF TrafficInv, FlushInv, FlushReads
  <2> QED
    BY <1>1, <1>2, <2>1, <2>2 DEF FlushInv, Zero
<1> QED
  BY <1>3, <1>4, <1>5 DEF TrafficInv

\* What is written has been read, and the totals have not gone down since; what
\* came since is what the row still lacks.
LEMMA FlushWritesKeeps ==
    ASSUME TrafficInv, NEW d \in Dirs, FlushWrites(d) PROVE TrafficInv'
<1> DEFINE row == <<flushing.key, d>>
<1>1. row \in Rows /\ flushing.read[d] \in Nat /\ flushing.at \in Dirs /\ ~resetting
  BY DEF TrafficInv, TypeOK, Flushes, FlushInv, FlushWrites, Rows, Dirs
<1>2. /\ bytes' = [bytes EXCEPT ![row] = flushing.read[d]] /\ saved' = saved \cup {row}
      /\ recent' = [recent EXCEPT ![row] = during[row]]
      /\ during' = IF d = "in" THEN during ELSE Zero
      /\ flushing' = [flushing EXCEPT !.at = IF d = "in" THEN "out" ELSE "next"]
      /\ UNCHANGED <<known, stream, here, total, resetting, faults, sure, torn, lost, due>>
  BY DEF FlushWrites, Upserted, collector
<1>3. /\ flushing.read[d] <= total[row]
      /\ sure[row] <= flushing.read[d] + lost[row] + during[row]
  BY <1>1 DEF TrafficInv, FlushInv
<1>4. TypeOK'
  <2>1. flushing' \in Flushes
    BY <1>2 DEF TrafficInv, TypeOK, Flushes, Dirs
  <2>2. recent' \in [Rows -> Nat] /\ during' \in [Rows -> Nat] /\ bytes' \in [Rows -> Nat]
    BY <1>1, <1>2 DEF TrafficInv, TypeOK, Zero
  <2>3. saved' \subseteq Rows /\ \A r \in Rows : r \notin saved' => bytes'[r] = 0
    BY <1>1, <1>2 DEF TrafficInv, TypeOK
  <2> QED
    BY <1>2, <2>1, <2>2, <2>3 DEF TrafficInv, TypeOK
<1>5. HoldersInv' /\ ResettingInv' /\ NoBytesLost'
  BY <1>1, <1>2 DEF TrafficInv, HoldersInv, ResettingInv, NoBytesLost
<1>6. FlushInv'
  <2>1. CASE d = "in"
    BY <1>1, <1>2, <2>1 DEF TrafficInv, TypeOK, Flushes, FlushInv
  <2>2. CASE d # "in"
    <3>1. flushing'.at = "next" /\ ~resetting'
      BY <1>1, <1>2, <2>2 DEF TrafficInv, TypeOK, Flushes
    <3> QED
      BY <3>1 DEF FlushInv, Dirs
  <2> QED
    BY <2>1, <2>2
<1> HIDE DEF row
<1>7. StoredInv'
  <2>1. \A r \in Rows : sure[r] <= bytes'[r] + lost[r] + recent'[r]
    BY <1>1, <1>2, <1>3 DEF TrafficInv, TypeOK, StoredInv
  <2> QED
    BY <1>2, <2>1 DEF StoredInv
<1>8. ResetIsFinal'
  BY <1>1, <1>2, <1>3 DEF TrafficInv, TypeOK, ResetIsFinal
<1> QED
  BY <1>4, <1>5, <1>6, <1>7, <1>8 DEF TrafficInv

---------------------------------------------------------------------------
\* Reset and restart.

LEMMA ResetClearsTableKeeps ==
    ASSUME TrafficInv, ResetClearsTable PROVE TrafficInv'
<1>1. Zero \in [Rows -> Nat] /\ \A row \in Rows : Zero[row] = 0
  BY DEF Zero
<1>2. TypeOK'
  BY <1>1, TrafficAssumption
  DEF TrafficInv, TypeOK, ResetClearsTable, collector, history
<1>3. HoldersInv' /\ FlushInv' /\ StoredInv' /\ ResettingInv' /\ NoBytesLost'
  BY DEF TrafficInv, HoldersInv, FlushInv, StoredInv, ResettingInv, NoBytesLost,
         ResetClearsTable, ResetMayBegin, Dirs, collector, history
<1>4. ResetIsFinal'
  BY <1>1 DEF TrafficInv, TypeOK, ResetIsFinal, ResetClearsTable, collector
<1> QED
  BY <1>2, <1>3, <1>4 DEF TrafficInv

LEMMA ResetClearsMapKeeps ==
    ASSUME TrafficInv, ResetClearsMap PROVE TrafficInv'
<1>1. Zero \in [Rows -> Nat] /\ \A row \in Rows : Zero[row] = 0
  BY DEF Zero
<1>2. ASSUME NEW s \in Streams
      PROVE  /\ stream'[s] \in Requests
             /\ stream'[s].at = stream[s].at /\ ~stream'[s].held
             /\ stream'[s].met = Calling(stream[s])
  <2>1. stream[s] \in Requests /\ Calling(stream[s]) \in BOOLEAN
    BY DEF TrafficInv, TypeOK, Calling
  <2>2. stream'[s] = [stream[s] EXCEPT !.held = FALSE, !.base = stream[s].n,
                                       !.met = Calling(stream[s])]
    BY DEF ResetClearsMap
  <2> QED
    BY <2>1, <2>2 DEF Requests
<1>3. stream' \in [Streams -> Requests]
  BY <1>2 DEF ResetClearsMap
<1>4. TypeOK'
  BY <1>1, <1>3 DEF TrafficInv, TypeOK, ResetClearsMap, table
<1>5. HoldersInv'
  BY <1>2 DEF HoldersInv, Calling
<1>6. flushing.at = "no"
  BY DEF TrafficInv, FlushInv, ResetClearsMap
<1>7. FlushInv' /\ ResettingInv'
  BY <1>6 DEF FlushInv, ResettingInv, ResetClearsMap, Dirs
<1>8. StoredInv' /\ NoBytesLost' /\ ResetIsFinal'
  <2>1. /\ total' = Zero /\ sure' = Zero /\ torn' = Zero /\ bytes' = Zero
        /\ lost' = Zero /\ recent' = Zero
    BY DEF TrafficInv, ResettingInv, ResetClearsMap, table
  <2> QED
    BY <1>1, <2>1 DEF StoredInv, NoBytesLost, ResetIsFinal
<1> QED
  BY <1>4, <1>5, <1>7, <1>8 DEF TrafficInv

\* Renaming takes every peer renamed to an id that is no peer's.
LEMMA RenamesAreIds ==
    ASSUME TypeOK, NEW new \in Renames
    PROVE  /\ DOMAIN new \subseteq known /\ DOMAIN new \subseteq Keys
           /\ Range(new) \subseteq Peers /\ Range(new) \subseteq Keys
           /\ Range(new) \cap known = {}
           /\ \A p \in DOMAIN new : new[p] \in Range(new)
           /\ \A k \in Range(new) : OldId(new, k) \in DOMAIN new /\ new[OldId(new, k)] = k
<1>1. PICK renamed \in SUBSET (known \cap Uuids) : new \in [renamed -> Peers \ (Uuids \cup known)]
  BY DEF Renames
<1>2. \A k \in Range(new) : \E p \in DOMAIN new : new[p] = k
  BY DEF Range
<1> QED
  BY <1>1, <1>2, TrafficAssumption DEF TypeOK, Keys, Range, OldId

\* A row after the renaming counts what one or two rows counted before it.
LEMMA FoldedRow ==
    ASSUME TypeOK, NEW new \in Renames
    PROVE  \A row \in Rows :
             \/ \A f \in [Rows -> Nat] : Folded(f, new)[row] = 0
             \/ \A f \in [Rows -> Nat] : Folded(f, new)[row] = f[row]
             \/ \E old \in Rows : \A f \in [Rows -> Nat] :
                   Folded(f, new)[row] = f[row] + f[old]
<1> SUFFICES ASSUME NEW row \in Rows
             PROVE  \/ \A f \in [Rows -> Nat] : Folded(f, new)[row] = 0
                    \/ \A f \in [Rows -> Nat] : Folded(f, new)[row] = f[row]
                    \/ \E old \in Rows : \A f \in [Rows -> Nat] :
                          Folded(f, new)[row] = f[row] + f[old]
  OBVIOUS
<1> DEFINE old == <<OldId(new, row[1]), row[2]>>
<1>1. row[1] \in Range(new) => old \in Rows
  BY RenamesAreIds DEF Rows
<1>2. \A f \in [Rows -> Nat] :
        Folded(f, new)[row] = IF row[1] \in DOMAIN new THEN 0
                              ELSE IF row[1] \in Range(new) THEN f[row] + f[old]
                              ELSE f[row]
  BY DEF Folded
<1> HIDE DEF old
<1> QED
  BY <1>1, <1>2

LEMMA FoldedType ==
    ASSUME TypeOK, NEW new \in Renames, NEW f \in [Rows -> Nat]
    PROVE  Folded(f, new) \in [Rows -> Nat]
<1>1. \A row \in Rows : Folded(f, new)[row] \in Nat
  BY FoldedRow
<1>2. Folded(f, new) = [row \in Rows |-> Folded(f, new)[row]]
  BY DEF Folded
<1> QED
  BY <1>1, <1>2

\* What holds of the sums of the rows of several functions holds after it.
LEMMA FoldedOrder ==
    ASSUME TypeOK, NEW new \in Renames,
           NEW f \in [Rows -> Nat], NEW g \in [Rows -> Nat], NEW h \in [Rows -> Nat],
           \A row \in Rows : f[row] <= g[row] + h[row]
    PROVE  \A row \in Rows : Folded(f, new)[row] <= Folded(g, new)[row] + Folded(h, new)[row]
<1> SUFFICES ASSUME NEW row \in Rows
             PROVE  Folded(f, new)[row] <= Folded(g, new)[row] + Folded(h, new)[row]
  OBVIOUS
<1>1. CASE \A e \in [Rows -> Nat] : Folded(e, new)[row] = 0
  BY <1>1
<1>2. CASE \A e \in [Rows -> Nat] : Folded(e, new)[row] = e[row]
  BY <1>2
<1>3. CASE \E old \in Rows : \A e \in [Rows -> Nat] : Folded(e, new)[row] = e[row] + e[old]
  <2>1. PICK old \in Rows : \A e \in [Rows -> Nat] : Folded(e, new)[row] = e[row] + e[old]
    BY <1>3
  <2>2. f[old] <= g[old] + h[old] /\ f[row] <= g[row] + h[row]
    OBVIOUS
  <2>3. /\ f[old] \in Nat /\ g[old] \in Nat /\ h[old] \in Nat
        /\ f[row] \in Nat /\ g[row] \in Nat /\ h[row] \in Nat
    OBVIOUS
  <2>4. /\ Folded(f, new)[row] = f[row] + f[old]
        /\ Folded(g, new)[row] = g[row] + g[old]
        /\ Folded(h, new)[row] = h[row] + h[old]
    BY <2>1
  <2> QED
    BY <2>2, <2>3, <2>4
<1> QED
  BY <1>1, <1>2, <1>3, FoldedRow

\* Rows the renamed table does not have count nothing.
LEMMA RenamedTable ==
    ASSUME TypeOK, NEW new \in Renames
    PROVE  /\ RenamedRows(new) \subseteq Rows
           /\ \A row \in Rows : row \notin RenamedRows(new) => Summed(new)[row] = 0
<1> DEFINE moved(row) == <<IF row[1] \in DOMAIN new THEN new[row[1]] ELSE row[1], row[2]>>
<1>1. \A row \in Rows : row[1] \in Keys /\ row[2] \in Dirs /\ row = <<row[1], row[2]>>
  BY DEF Rows
<1>2. /\ \A row \in saved : moved(row) \in RenamedRows(new)
      /\ \A row \in RenamedRows(new) : \E old \in saved : row = moved(old)
  BY DEF RenamedRows
<1>3. \A row \in Rows : moved(row) \in Rows
  BY <1>1, RenamesAreIds DEF Rows
<1>4. saved \subseteq Rows /\ \A row \in Rows : row \notin saved => bytes[row] = 0
  BY DEF TypeOK
<1>5. ASSUME NEW row \in Rows, row \notin RenamedRows(new) PROVE Summed(new)[row] = 0
  <2>1. CASE row[1] \in DOMAIN new
    BY <2>1 DEF Summed, Folded
  <2>2. CASE row[1] \notin DOMAIN new /\ row[1] \notin Range(new)
    <3>1. moved(row) = row
      BY <1>1, <2>2
    <3> QED
      BY <1>2, <1>4, <1>5, <2>2, <3>1 DEF Summed, Folded
  <2>3. CASE row[1] \notin DOMAIN new /\ row[1] \in Range(new)
    <3> DEFINE old == <<OldId(new, row[1]), row[2]>>
    <3>1. /\ OldId(new, row[1]) \in DOMAIN new /\ new[OldId(new, row[1])] = row[1]
          /\ DOMAIN new \subseteq Keys
      BY <2>3, RenamesAreIds
    <3>2. old \in Rows /\ moved(old) = row /\ moved(row) = row
      BY <1>1, <2>3, <3>1 DEF Rows
    <3>3. bytes[old] = 0 /\ bytes[row] = 0
      BY <1>2, <1>4, <1>5, <3>2
    <3> QED
      BY <2>3, <3>3 DEF Summed, Folded
  <2> QED
    BY <2>1, <2>2, <2>3
<1>6. RenamedRows(new) \subseteq Rows
  BY <1>2, <1>3, <1>4
<1> QED
  BY <1>5, <1>6

\* What a crash loses is what the table lacked; the renaming only sums up.
LEMMA RestartKeeps ==
    ASSUME TrafficInv, Restart PROVE TrafficInv'
<1>1. Zero \in [Rows -> Nat] /\ \A row \in Rows : Zero[row] = 0
  BY DEF Zero
<1> DEFINE gone == [row \in Rows |-> lost[row] + recent[row]]
<1>2. PICK new \in Renames :
        /\ known' = (known \ DOMAIN new) \cup Range(new)
        /\ saved' = RenamedRows(new) /\ bytes' = Summed(new)
        /\ here' = LoadedKeys(saved') /\ total' = bytes'
        /\ IF resetting THEN sure' = Zero /\ torn' = Zero /\ lost' = Zero
           ELSE /\ sure' = Folded(sure, new) /\ torn' = Folded(torn, new)
                /\ lost' = Folded(gone, new)
  BY DEF Restart
<1>3. /\ recent' = Zero /\ during' = Zero /\ flushing' = NoFlush /\ resetting' = FALSE
      /\ faults < MaxFaults /\ faults' = faults + 1 /\ due' = due
  BY DEF Restart
<1>4. TypeOK
  BY DEF TrafficInv
<1>5. /\ sure \in [Rows -> Nat] /\ torn \in [Rows -> Nat] /\ bytes \in [Rows -> Nat]
      /\ gone \in [Rows -> Nat]
      /\ \A row \in Rows : gone[row] = lost[row] + recent[row]
      /\ \A row \in Rows : lost[row] \in Nat /\ recent[row] \in Nat /\ total[row] \in Nat
  BY <1>4 DEF TypeOK
<1> HIDE DEF gone
<1>6. bytes' \in [Rows -> Nat] /\ sure' \in [Rows -> Nat] /\ torn' \in [Rows -> Nat]
      /\ lost' \in [Rows -> Nat]
  BY <1>1, <1>2, <1>4, <1>5, FoldedType DEF Summed
<1>7. /\ saved' \subseteq Rows /\ here' \subseteq Keys
      /\ \A row \in Rows : row \notin saved' => bytes'[row] = 0
      /\ \A row \in Rows : row[1] \notin here' => row \notin saved'
  BY <1>2, <1>4, RenamedTable DEF LoadedKeys, Rows
<1>8. ASSUME NEW s \in Streams
      PROVE  stream'[s] \in Requests /\ ~stream'[s].held /\ stream'[s].at # "adding"
  <2>1. stream[s] \in Requests /\ stream[s].row \in Rows
    BY DEF TrafficInv, TypeOK, Requests
  <2>2. stream[s].held => stream[s].at = "adding"
    BY DEF TrafficInv, HoldersInv
  <2>3. [stream[s] EXCEPT !.at = "ended", !.held = FALSE] \in Requests
    BY <2>1, RequestsVary
  <2> QED
    BY <2>1, <2>2, <2>3 DEF Restart, Requests
<1>9. TypeOK'
  <2>1. stream' \in [Streams -> Requests]
    BY <1>8 DEF Restart
  <2>2. NoFlush \in Flushes
    BY SomeRow DEF NoFlush, Empty, Flushes
  <2>3. known' \subseteq Peers
    BY <1>2, <1>4, RenamesAreIds DEF TypeOK
  <2>4. faults' \in 0..MaxFaults
    BY <1>3, <1>4, TrafficAssumption DEF TypeOK
  <2>5. \A row \in Rows : row[1] \notin here' => total'[row] = 0
    BY <1>2, <1>7
  <2>6. due' \in [Streams -> 0..MaxBytes] /\ total' = bytes'
    BY <1>2, <1>3, <1>4 DEF TypeOK
  <2>7. /\ recent' \in [Rows -> Nat] /\ during' \in [Rows -> Nat]
        /\ flushing' \in Flushes /\ resetting' \in BOOLEAN
    BY <1>1, <1>3, <2>2
  <2> QED
    BY <1>6, <1>7, <2>1, <2>3, <2>4, <2>5, <2>6, <2>7 DEF TypeOK
<1>10. HoldersInv'
  BY <1>8 DEF HoldersInv
<1>11. FlushInv' /\ ResettingInv'
  BY <1>3 DEF FlushInv, ResettingInv, NoFlush, Dirs
<1>12. \A row \in Rows :
         sure'[row] <= bytes'[row] + lost'[row] /\ bytes'[row] <= sure'[row] + torn'[row]
  <2>1. CASE resetting
    <3>1. bytes = Zero
      BY <2>1 DEF TrafficInv, ResettingInv
    <3>2. \A row \in Rows : bytes[row] <= Zero[row] + Zero[row]
      BY <1>1, <3>1
    <3>3. \A row \in Rows : bytes'[row] <= Folded(Zero, new)[row] + Folded(Zero, new)[row]
      BY <1>1, <1>2, <1>4, <1>5, <3>2, FoldedOrder DEF Summed
    <3>4. \A row \in Rows : Folded(Zero, new)[row] = 0
      BY <1>1, <1>4, FoldedRow
    <3> QED
      BY <1>1, <1>2, <1>6, <2>1, <3>3, <3>4
  <2>2. CASE ~resetting
    <3>1. \A row \in Rows : sure[row] <= bytes[row] + gone[row]
      <4>1. \A row \in Rows : sure[row] <= bytes[row] + lost[row] + recent[row]
        BY <2>2 DEF TrafficInv, StoredInv
      <4> QED
        BY <1>5, <4>1
    <3>2. \A row \in Rows : bytes[row] <= sure[row] + torn[row]
      BY <1>5 DEF TrafficInv, NoBytesLost, ResetIsFinal
    <3>3. \A row \in Rows :
            /\ Folded(sure, new)[row] <= Folded(bytes, new)[row] + Folded(gone, new)[row]
            /\ Folded(bytes, new)[row] <= Folded(sure, new)[row] + Folded(torn, new)[row]
      BY <1>4, <1>5, <3>1, <3>2, FoldedOrder
    <3> QED
      BY <1>2, <2>2, <3>3 DEF Summed
  <2> QED
    BY <2>1, <2>2
<1>13. StoredInv' /\ NoBytesLost' /\ ResetIsFinal'
  BY <1>1, <1>2, <1>3, <1>6, <1>12 DEF StoredInv, NoBytesLost, ResetIsFinal
<1> QED
  BY <1>9, <1>10, <1>11, <1>13 DEF TrafficInv

LEMMA StutterKeeps == TrafficInv /\ UNCHANGED vars => TrafficInv'
BY DEF TrafficInv, TypeOK, HoldersInv, FlushInv, ResettingInv, NoBytesLost,
       StoredInv, ResetIsFinal, vars, collector, table, history

---------------------------------------------------------------------------
\* The theorems.

\* The invariant holds in every state of every behaviour.
THEOREM TrafficInvHolds == Spec => []TrafficInv
<1>1. Init => TrafficInv
  BY InitEstablishes
<1>2. TrafficInv /\ [Next]_vars => TrafficInv'
  <2> SUFFICES ASSUME TrafficInv, [Next]_vars PROVE TrafficInv'
    OBVIOUS
  <2>1. ASSUME NEW s \in Streams,
               StreamStarted(s) \/ Copy(s) \/ CopyEnds(s) \/ RecordBytes(s)
        PROVE  TrafficInv'
    BY <2>1, StreamStartedKeeps, CopyKeeps, CopyEndsKeeps, LookUpKeeps, CreateKeeps,
       AddKeeps DEF RecordBytes
  <2>2. CASE Flush \/ FlushFails
    BY <2>2, FlushMovesOn, FlushReadsKeeps, FlushWritesKeeps DEF Flush
  <2>3. CASE ResetClearsTable \/ ResetClearsMap \/ Restart
    BY <2>3, ResetClearsTableKeeps, ResetClearsMapKeeps, RestartKeeps
  <2>4. CASE RegistryChanges
    BY <2>4, RegistryChangesKeeps
  <2>5. CASE UNCHANGED vars
    BY <2>5, StutterKeeps
  <2> QED
    BY <2>1, <2>2, <2>3, <2>4, <2>5 DEF Next
<1> QED
  BY <1>1, <1>2, PTL DEF Spec

\* Type correctness.
THEOREM TrafficTypeCorrect == Spec => []TypeOK
<1>1. TrafficInv => TypeOK
  BY DEF TrafficInv
<1> QED
  BY <1>1, TrafficInvHolds, PTL

\* However streams, flushes, resets, crashes and renamings interleave, the
\* collector's totals are those of the calls of RecordBytes since the last
\* reset, but for calls no flush had stored when the node died.
THEOREM BytesAreCountedOnce == Spec => []NoBytesLost
<1>1. TrafficInv => NoBytesLost
  BY DEF TrafficInv
<1> QED
  BY <1>1, TrafficInvHolds, PTL

\* No flush writes back what a reset has cleared.
THEOREM ResetsAreFinal == Spec => []ResetIsFinal
<1>1. TrafficInv => ResetIsFinal
  BY DEF TrafficInv
<1> QED
  BY <1>1, TrafficInvHolds, PTL
=============================================================================
