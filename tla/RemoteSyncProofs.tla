-------------------------- MODULE RemoteSyncProofs --------------------------
(***************************************************************************)
(* Proofs about module RemoteSync, for any set of requests and any bounds. *)
(* What a request reports depends on what the tracker's entry says of the  *)
(* run it stands for, and what a forced one reports on where the peer's    *)
(* refresh is, so these are what the invariant is about.                   *)
(***************************************************************************)
EXTENDS RemoteSync, TLAPS

\* A tracker's "local" entry is that of the node's last run, and tells
\* whether it is still on.
TrackerInv ==
    \A n \in Nodes :
        /\ local[n].run = begun[n]
        /\ local[n].state \in {"running", "success", "error"}
        /\ local[n].state = "running" <=> run[n] # "none"

\* A run here that writes, or has succeeded, has come to its pull.
PullInv ==
    /\ pulled <= tried /\ tried <= begun["here"]
    /\ run["here"] = "writing" \/ local["here"].state = "success"
           => tried = begun["here"]

\* A goroutine goes the way of its kind of request, reports nothing final on
\* it, and was asked for what the library had.
KindInv ==
    \A s \in Syncs :
        /\ sync[s].pc \in {"asking", "polling", "pulling"} => sync[s].force
        /\ sync[s].pc \in {"queueing", "waiting"} => ~sync[s].force
        /\ sync[s].pc \in {"queueing", "waiting", "asking", "polling"}
               => sync[s].result = "running"
        /\ sync[s].goal <= lib

\* The refresh asked of a calm peer is still wanted, by a loop that waits for
\* its next run; or a run is at it; or it is done.
AskedInv ==
    \A s \in Syncs :
        sync[s].pc = "polling" /\ sync[s].calm
            => /\ sync[s].due <= begun["there"] + 1
               /\ IF begun["there"] < sync[s].due
                  THEN wanted["there"] = "refresh" /\ run["there"] = "none"
                  ELSE indexed >= sync[s].goal \/ run["there"] = "refreshing"

\* Once the refresh is reported as a success the peer's catalog has what was
\* asked for, and so has our copy once a later run has pulled.
RefreshedInv ==
    \A s \in Syncs :
        sync[s].force /\ sync[s].calm /\ sync[s].result = "success"
            => /\ indexed >= sync[s].goal
               /\ sync[s].pc = "done" /\ pulled > sync[s].asked => copy >= sync[s].goal

\* Who says "running" is still at it.
RunningInv == shown = "running" => \E s \in Syncs : Busy(s)

RemoteInv ==
    /\ TypeOK
    /\ TrackerInv
    /\ PullInv
    /\ KindInv
    /\ AskedInv
    /\ RefreshedInv
    /\ RunningInv
    /\ SuccessIsOfALaterRun

USE DEF Nodes, Busy

Goroutines ==
    [pc : {"new", "queueing", "waiting", "asking", "polling", "pulling", "done"},
     force : BOOLEAN, started : Nat, result : States,
     goal : Nat, calm : BOOLEAN, due : Nat, asked : Nat]

\* Goroutines stay goroutines when one of them becomes another.
LEMMA OneBecomes ==
    ASSUME TypeOK, NEW s \in Syncs, NEW r \in Goroutines,
           sync' = [sync EXCEPT ![s] = r]
    PROVE  sync' \in [Syncs -> Goroutines]
BY DEF TypeOK, Goroutines

\* A goroutine that has ended, whatever it reports.
LEMMA EndedIsGoroutine ==
    ASSUME TypeOK, NEW s \in Syncs, NEW state \in States
    PROVE  [sync[s] EXCEPT !.result = state, !.pc = "done", !.goal = 0,
                           !.calm = FALSE, !.due = 0] \in Goroutines
BY DEF TypeOK, Goroutines

---------------------------------------------------------------------------
\* The initial state.

LEMMA InitEstablishes == Init => RemoteInv
<1> SUFFICES ASSUME Init PROVE RemoteInv
  OBVIOUS
<1>1. TypeOK
  BY DEF Init, TypeOK, NewSync, States
<1>2. TrackerInv /\ PullInv
  BY DEF Init, TrackerInv, PullInv
<1>3. KindInv /\ AskedInv /\ RefreshedInv /\ RunningInv /\ SuccessIsOfALaterRun
  BY DEF Init, NewSync, KindInv, AskedInv, RefreshedInv, RunningInv,
         SuccessIsOfALaterRun
<1> QED
  BY <1>1, <1>2, <1>3 DEF RemoteInv

---------------------------------------------------------------------------
\* Steps of the nodes.

LEMMA LibraryChangesKeeps ==
    ASSUME RemoteInv, LibraryChanges PROVE RemoteInv'
<1>1. TypeOK'
  BY DEF RemoteInv, TypeOK, LibraryChanges
<1>2. TrackerInv' /\ PullInv'
  BY DEF RemoteInv, TrackerInv, PullInv, LibraryChanges
<1>3. KindInv'
  BY DEF RemoteInv, TypeOK, KindInv, LibraryChanges
<1>4. AskedInv'
  BY DEF RemoteInv, AskedInv, LibraryChanges
<1>5. RefreshedInv'
  BY DEF RemoteInv, RefreshedInv, LibraryChanges
<1>6. RunningInv'
  BY DEF RemoteInv, RunningInv, LibraryChanges
<1>7. SuccessIsOfALaterRun'
  BY DEF RemoteInv, SuccessIsOfALaterRun, LibraryChanges
<1> QED
  BY <1>1, <1>2, <1>3, <1>4, <1>5, <1>6, <1>7 DEF RemoteInv

LEMMA BeginKeeps ==
    ASSUME RemoteInv, NEW n \in Nodes, Begin(n) PROVE RemoteInv'
<1>1. TypeOK'
  BY DEF RemoteInv, TypeOK, States, Begin, BeginWith
<1>2. TrackerInv' /\ PullInv'
  BY DEF RemoteInv, TypeOK, TrackerInv, PullInv, Begin, BeginWith
<1>3. KindInv'
  BY DEF RemoteInv, KindInv, Begin, BeginWith
<1>4. AskedInv'
  BY DEF RemoteInv, TypeOK, AskedInv, Begin, BeginWith
<1>5. RefreshedInv'
  BY DEF RemoteInv, RefreshedInv, Begin, BeginWith
<1>6. RunningInv'
  BY DEF RemoteInv, RunningInv, Begin, BeginWith
<1>7. SuccessIsOfALaterRun'
  BY DEF RemoteInv, SuccessIsOfALaterRun, Begin, BeginWith
<1> QED
  BY <1>1, <1>2, <1>3, <1>4, <1>5, <1>6, <1>7 DEF RemoteInv

LEMMA BeginOtherKeeps ==
    ASSUME RemoteInv, NEW n \in Nodes, BeginOther(n) PROVE RemoteInv'
<1>1. TypeOK'
  BY DEF RemoteInv, TypeOK, States, BeginOther, BeginWith
<1>2. TrackerInv' /\ PullInv'
  BY DEF RemoteInv, TypeOK, TrackerInv, PullInv, BeginOther, BeginWith
<1>3. KindInv'
  BY DEF RemoteInv, KindInv, BeginOther, BeginWith
<1>4. AskedInv'
  BY DEF RemoteInv, TypeOK, AskedInv, BeginOther, BeginWith, Merged
<1>5. RefreshedInv'
  BY DEF RemoteInv, RefreshedInv, BeginOther, BeginWith
<1>6. RunningInv'
  BY DEF RemoteInv, RunningInv, BeginOther, BeginWith
<1>7. SuccessIsOfALaterRun'
  BY DEF RemoteInv, SuccessIsOfALaterRun, BeginOther, BeginWith
<1> QED
  BY <1>1, <1>2, <1>3, <1>4, <1>5, <1>6, <1>7 DEF RemoteInv

LEMMA RefreshKeeps ==
    ASSUME RemoteInv, NEW n \in Nodes, Refresh(n) PROVE RemoteInv'
<1>1. TypeOK'
  BY DEF RemoteInv, TypeOK, Refresh, Merged
<1>2. TrackerInv' /\ PullInv'
  BY DEF RemoteInv, TrackerInv, PullInv, Refresh
<1>3. KindInv'
  BY DEF RemoteInv, KindInv, Refresh
<1>4. AskedInv'
  BY DEF RemoteInv, KindInv, AskedInv, Refresh
<1>5. RefreshedInv'
  BY DEF RemoteInv, TypeOK, RefreshedInv, Refresh
<1>6. RunningInv'
  BY DEF RemoteInv, RunningInv, Refresh
<1>7. SuccessIsOfALaterRun'
  BY DEF RemoteInv, SuccessIsOfALaterRun, Refresh
<1> QED
  BY <1>1, <1>2, <1>3, <1>4, <1>5, <1>6, <1>7 DEF RemoteInv

LEMMA PullKeeps ==
    ASSUME RemoteInv, NEW n \in Nodes, Pull(n) PROVE RemoteInv'
<1>1. TypeOK'
  BY DEF RemoteInv, TypeOK, Pull
<1>2. TrackerInv' /\ PullInv'
  BY DEF RemoteInv, TypeOK, TrackerInv, PullInv, Pull
<1>3. KindInv'
  BY DEF RemoteInv, KindInv, Pull
<1>4. AskedInv'
  BY DEF RemoteInv, AskedInv, Pull
<1>5. RefreshedInv'
  BY DEF RemoteInv, RefreshedInv, Pull
<1>6. RunningInv'
  BY DEF RemoteInv, RunningInv, Pull
<1>7. SuccessIsOfALaterRun'
  BY DEF RemoteInv, TypeOK, PullInv, SuccessIsOfALaterRun, Pull
<1> QED
  BY <1>1, <1>2, <1>3, <1>4, <1>5, <1>6, <1>7 DEF RemoteInv

LEMMA SucceedKeeps ==
    ASSUME RemoteInv, NEW n \in Nodes, Succeed(n) PROVE RemoteInv'
<1>1. TypeOK'
  BY DEF RemoteInv, TypeOK, States, Succeed, EndWith
<1>2. TrackerInv' /\ PullInv'
  BY DEF RemoteInv, TypeOK, TrackerInv, PullInv, Succeed, EndWith
<1>3. KindInv'
  BY DEF RemoteInv, KindInv, Succeed, EndWith
<1>4. AskedInv'
  BY DEF RemoteInv, AskedInv, Succeed, EndWith
<1>5. RefreshedInv'
  BY DEF RemoteInv, RefreshedInv, Succeed, EndWith
<1>6. RunningInv'
  BY DEF RemoteInv, RunningInv, Succeed, EndWith
<1>7. SuccessIsOfALaterRun'
  BY DEF RemoteInv, SuccessIsOfALaterRun, Succeed, EndWith
<1> QED
  BY <1>1, <1>2, <1>3, <1>4, <1>5, <1>6, <1>7 DEF RemoteInv

LEMMA FailKeeps ==
    ASSUME RemoteInv, NEW n \in Nodes, Fail(n) PROVE RemoteInv'
<1>1. TypeOK'
  <2>1. sync' \in [Syncs -> Goroutines]
    <3> SUFFICES ASSUME NEW s \in Syncs
                 PROVE  [sync[s] EXCEPT !.calm = @ /\ ~(n = "there" /\ run[n] = "refreshing")]
                            \in Goroutines
      BY DEF Fail
    <3>1. sync[s] \in Goroutines
      BY DEF RemoteInv, TypeOK, Goroutines
    <3>2. (sync[s].calm /\ ~(n = "there" /\ run[n] = "refreshing")) \in BOOLEAN
      OBVIOUS
    <3> QED
      BY <3>1, <3>2 DEF Goroutines
  <2> QED
    BY <2>1 DEF RemoteInv, TypeOK, States, Goroutines, Fail, EndWith
<1>2. TrackerInv' /\ PullInv'
  BY DEF RemoteInv, TypeOK, TrackerInv, PullInv, Fail, EndWith
<1>3. KindInv'
  BY DEF RemoteInv, TypeOK, KindInv, Fail, EndWith
<1>4. AskedInv'
  BY DEF RemoteInv, TypeOK, AskedInv, Fail, EndWith
<1>5. RefreshedInv'
  BY DEF RemoteInv, TypeOK, RefreshedInv, Fail, EndWith
<1>6. RunningInv'
  BY DEF RemoteInv, TypeOK, RunningInv, Fail, Fails, EndWith
<1>7. SuccessIsOfALaterRun'
  BY DEF RemoteInv, TypeOK, SuccessIsOfALaterRun, Fail, EndWith
<1> QED
  BY <1>1, <1>2, <1>3, <1>4, <1>5, <1>6, <1>7 DEF RemoteInv

---------------------------------------------------------------------------
\* Steps of the goroutines.

LEMMA RequestKeeps ==
    ASSUME RemoteInv, NEW s \in Syncs, Request(s) PROVE RemoteInv'
<1>1. TypeOK'
  <2>1. PICK force \in BOOLEAN :
          sync' = [sync EXCEPT ![s] =
              [@ EXCEPT !.pc = IF force THEN "asking" ELSE "queueing",
                        !.force = force, !.started = IF force THEN 0 ELSE begun["here"],
                        !.result = "running"]]
    BY DEF Request
  <2>2. [sync[s] EXCEPT !.pc = IF force THEN "asking" ELSE "queueing",
                        !.force = force, !.started = IF force THEN 0 ELSE begun["here"],
                        !.result = "running"] \in Goroutines
    <3>1. sync[s] \in Goroutines
      BY DEF RemoteInv, TypeOK, Goroutines
    <3>2. (IF force THEN 0 ELSE begun["here"]) \in Nat
      BY DEF RemoteInv, TypeOK
    <3>3. "running" \in States
      BY DEF States
    <3>4. (IF force THEN "asking" ELSE "queueing") \in {"asking", "queueing"}
      OBVIOUS
    <3> QED
      BY <3>1, <3>2, <3>3 DEF Goroutines
  <2>3. sync' \in [Syncs -> Goroutines]
    BY <2>1, <2>2, OneBecomes DEF RemoteInv
  <2> QED
    BY <2>3 DEF RemoteInv, TypeOK, States, Goroutines, Request, nodes
<1>2. TrackerInv' /\ PullInv'
  BY DEF RemoteInv, TrackerInv, PullInv, Request, nodes
<1>3. KindInv'
  BY DEF RemoteInv, KindInv, Request, nodes
<1>4. AskedInv'
  BY DEF RemoteInv, AskedInv, Request, nodes
<1>5. RefreshedInv'
  BY DEF RemoteInv, RefreshedInv, Request, nodes
<1>6. RunningInv'
  BY DEF RemoteInv, TypeOK, RunningInv, Request
<1>7. SuccessIsOfALaterRun'
  BY DEF RemoteInv, SuccessIsOfALaterRun, Request, nodes
<1> QED
  BY <1>1, <1>2, <1>3, <1>4, <1>5, <1>6, <1>7 DEF RemoteInv

LEMMA QueuePullKeeps ==
    ASSUME RemoteInv, NEW s \in Syncs, QueuePull(s) PROVE RemoteInv'
<1>1. TypeOK'
  <2>1. sync' \in [Syncs -> Goroutines]
    <3>1. sync \in [Syncs -> Goroutines] /\ begun["here"] \in Nat
      BY DEF RemoteInv, TypeOK, Goroutines
    <3>2. CASE sync[s].force
      <4>1. sync' = [sync EXCEPT ![s].pc = "done", ![s].asked = begun["here"]]
        BY <3>2 DEF QueuePull
      <4> QED
        BY <3>1, <4>1 DEF Goroutines
    <3>3. CASE ~sync[s].force
      <4>1. sync' = [sync EXCEPT ![s].pc = "waiting", ![s].asked = 0]
        BY <3>3 DEF QueuePull
      <4> QED
        BY <3>1, <4>1 DEF Goroutines
    <3> QED
      BY <3>2, <3>3
  <2>2. wanted' \in [Nodes -> {"nothing", "pull", "refresh"}]
    BY DEF RemoteInv, TypeOK, QueuePull, Merged
  <2> QED
    BY <2>1, <2>2 DEF RemoteInv, TypeOK, Goroutines, QueuePull
<1>2. TrackerInv' /\ PullInv'
  BY DEF RemoteInv, TrackerInv, PullInv, QueuePull
<1>3. KindInv'
  BY DEF RemoteInv, TypeOK, KindInv, QueuePull
<1>4. AskedInv'
  BY DEF RemoteInv, TypeOK, AskedInv, QueuePull
<1>5. RefreshedInv'
  BY DEF RemoteInv, TypeOK, PullInv, RefreshedInv, QueuePull
<1>6. RunningInv'
  BY DEF RemoteInv, TypeOK, KindInv, RunningInv, QueuePull
<1>7. SuccessIsOfALaterRun'
  BY DEF RemoteInv, TypeOK, SuccessIsOfALaterRun, QueuePull
<1> QED
  BY <1>1, <1>2, <1>3, <1>4, <1>5, <1>6, <1>7 DEF RemoteInv

\* Whatever a goroutine ends with, but for a success of a plain request that
\* no run accounts for.
LEMMA EndKeeps ==
    ASSUME RemoteInv, NEW s \in Syncs, NEW state \in {"success", "error", "unreachable"},
           ReportAndEnd(s, state), UNCHANGED <<nodes, failures>>,
           ~sync[s].force /\ state = "success" => tried > sync[s].started
    PROVE  RemoteInv'
<1>1. TypeOK'
  <2>1. sync' \in [Syncs -> Goroutines]
    BY EndedIsGoroutine, OneBecomes DEF RemoteInv, States, ReportAndEnd
  <2> QED
    BY <2>1 DEF RemoteInv, TypeOK, Goroutines, ReportAndEnd, nodes
<1>2. TrackerInv' /\ PullInv'
  BY DEF RemoteInv, TrackerInv, PullInv, nodes
<1>3. KindInv' /\ AskedInv'
  BY DEF RemoteInv, TypeOK, KindInv, AskedInv, ReportAndEnd, nodes
<1>4. RefreshedInv' /\ RunningInv'
  BY DEF RemoteInv, RefreshedInv, RunningInv, ReportAndEnd, nodes
<1>5. SuccessIsOfALaterRun'
  BY DEF RemoteInv, SuccessIsOfALaterRun, ReportAndEnd, nodes
<1> QED
  BY <1>1, <1>2, <1>3, <1>4, <1>5 DEF RemoteInv

\* A goroutine that waits says so again.
LEMMA StillRunningKeeps ==
    ASSUME RemoteInv, NEW s \in Syncs, sync[s].pc \in {"waiting", "polling"},
           Report(s, "running"), UNCHANGED <<nodes, failures>>
    PROVE  RemoteInv'
<1>1. sync[s].result = "running"
  BY DEF RemoteInv, KindInv
<1>2. [sync EXCEPT ![s].result = "running"] = sync
  BY <1>1 DEF RemoteInv, TypeOK
<1>3. sync' = sync /\ shown' = "running"
  BY <1>2 DEF Report
<1>4. RunningInv'
  BY <1>3 DEF RunningInv
<1> QED
  BY <1>3, <1>4
     DEF RemoteInv, TypeOK, TrackerInv, PullInv, KindInv, AskedInv, RefreshedInv,
         SuccessIsOfALaterRun, nodes

LEMMA WaitForRunKeeps ==
    ASSUME RemoteInv, NEW s \in Syncs, WaitForRun(s) PROVE RemoteInv'
<1>1. sync[s].pc = "waiting" /\ ~sync[s].force
  BY DEF RemoteInv, KindInv, WaitForRun
<1>2. CASE Ended(local["here"])
  <2>1. ReportAndEnd(s, local["here"].state)
    BY <1>2 DEF WaitForRun
  <2>2. local["here"].state \in {"success", "error"}
    BY <1>2 DEF Ended
  <2>3. local["here"].state = "success" => tried > sync[s].started
    BY DEF RemoteInv, TrackerInv, PullInv, WaitForRun, BeganSince
  <2> QED
    BY <2>1, <2>2, <2>3, EndKeeps DEF WaitForRun
<1>3. CASE ~Ended(local["here"])
  BY <1>3, StillRunningKeeps DEF WaitForRun
<1> QED
  BY <1>2, <1>3

LEMMA AskPeerKeeps ==
    ASSUME RemoteInv, NEW s \in Syncs, AskPeer(s) PROVE RemoteInv'
<1>1. TypeOK'
  <2>1. begun["there"] + (IF run["there"] = "none" THEN 1 ELSE 0) \in Nat
    BY DEF RemoteInv, TypeOK
  <2>2. [sync[s] EXCEPT !.pc = "polling", !.goal = lib, !.calm = run["there"] = "none",
            !.due = begun["there"] + (IF run["there"] = "none" THEN 1 ELSE 0)] \in Goroutines
    <3>1. sync[s] \in Goroutines /\ lib \in Nat
      BY DEF RemoteInv, TypeOK, Goroutines
    <3>2. (run["there"] = "none") \in BOOLEAN
      OBVIOUS
    <3> QED
      BY <2>1, <3>1, <3>2 DEF Goroutines
  <2>3. sync' \in [Syncs -> Goroutines]
    BY <2>2, OneBecomes DEF RemoteInv, AskPeer
  <2> QED
    BY <2>3 DEF RemoteInv, TypeOK, Goroutines, AskPeer
<1>2. TrackerInv' /\ PullInv'
  BY DEF RemoteInv, TrackerInv, PullInv, AskPeer
<1>3. KindInv'
  BY DEF RemoteInv, TypeOK, KindInv, AskPeer
<1>4. AskedInv'
  <2> SUFFICES ASSUME NEW t \in Syncs, sync'[t].pc = "polling", sync'[t].calm
               PROVE  /\ sync'[t].due <= begun["there"] + 1
                      /\ IF begun["there"] < sync'[t].due
                         THEN wanted'["there"] = "refresh" /\ run["there"] = "none"
                         ELSE indexed >= sync'[t].goal \/ run["there"] = "refreshing"
    BY DEF AskedInv, AskPeer
  <2>1. wanted'["there"] = "refresh"
    BY DEF RemoteInv, TypeOK, AskPeer
  <2>2. CASE t = s
    <3>1. run["there"] = "none" /\ sync'[s].due = begun["there"] + 1
      BY <2>2 DEF RemoteInv, TypeOK, AskPeer
    <3> QED
      BY <2>1, <2>2, <3>1 DEF RemoteInv, TypeOK
  <2>3. CASE t # s
    <3>1. sync'[t] = sync[t]
      BY <2>3 DEF AskPeer
    <3> QED
      BY <2>1, <3>1 DEF RemoteInv, AskedInv
  <2> QED
    BY <2>2, <2>3
<1>5. RefreshedInv'
  BY DEF RemoteInv, KindInv, RefreshedInv, AskPeer
<1>6. RunningInv'
  BY DEF RunningInv, AskPeer
<1>7. SuccessIsOfALaterRun'
  BY DEF RemoteInv, SuccessIsOfALaterRun, AskPeer
<1> QED
  BY <1>1, <1>2, <1>3, <1>4, <1>5, <1>6, <1>7 DEF RemoteInv

LEMMA PollKeeps ==
    ASSUME RemoteInv, NEW s \in Syncs, Poll(s) PROVE RemoteInv'
<1>1. /\ sync[s].pc = "polling" /\ sync[s].force /\ UNCHANGED <<nodes, failures>>
      /\ begun["there"] >= sync[s].due
  BY DEF RemoteInv, KindInv, Poll
<1>2. CASE PeerSucceeded(local["there"])
  <2>1. /\ shown' = "success"
        /\ sync' = [sync EXCEPT ![s] =
               [@ EXCEPT !.result = "success", !.pc = "pulling", !.due = 0]]
    BY <1>2 DEF Poll
  <2>2. run["there"] = "none"
    BY <1>2 DEF RemoteInv, TrackerInv, PeerSucceeded
  <2>3. sync[s].calm => indexed >= sync[s].goal
    BY <1>1, <2>2 DEF RemoteInv, TypeOK, AskedInv
  <2>4. TypeOK'
    <3>1. [sync[s] EXCEPT !.result = "success", !.pc = "pulling", !.due = 0] \in Goroutines
      BY DEF RemoteInv, TypeOK, Goroutines, States
    <3>2. sync' \in [Syncs -> Goroutines]
      BY <2>1, <3>1, OneBecomes DEF RemoteInv
    <3> QED
      BY <1>1, <2>1, <3>2 DEF RemoteInv, TypeOK, Goroutines, nodes
  <2>5. TrackerInv' /\ PullInv'
    BY <1>1 DEF RemoteInv, TrackerInv, PullInv, nodes
  <2>6. KindInv' /\ AskedInv'
    BY <1>1, <2>1 DEF RemoteInv, KindInv, AskedInv, nodes
  <2>7. RefreshedInv'
    BY <1>1, <2>1, <2>3 DEF RemoteInv, RefreshedInv, nodes
  <2>8. RunningInv' /\ SuccessIsOfALaterRun'
    BY <1>1, <2>1 DEF RemoteInv, RunningInv, SuccessIsOfALaterRun, nodes
  <2> QED
    BY <2>4, <2>5, <2>6, <2>7, <2>8 DEF RemoteInv
<1>3. CASE ~PeerSucceeded(local["there"]) /\ Ended(local["there"])
  BY <1>3, EndKeeps DEF Poll
<1>4. CASE ~PeerSucceeded(local["there"]) /\ ~Ended(local["there"])
  BY <1>4, StillRunningKeeps DEF Poll
<1> QED
  BY <1>2, <1>3, <1>4

LEMMA PeerUnreachableKeeps ==
    ASSUME RemoteInv, NEW s \in Syncs, PeerUnreachable(s) PROVE RemoteInv'
<1>1. TypeOK'
  <2>1. sync' \in [Syncs -> Goroutines]
    BY EndedIsGoroutine, OneBecomes
       DEF RemoteInv, States, PeerUnreachable, PeerEnd, ReportAndEnd
  <2> QED
    BY <2>1
       DEF RemoteInv, TypeOK, States, Goroutines, PeerEnd, ReportAndEnd, PeerUnreachable
<1>2. TrackerInv' /\ PullInv'
  BY DEF RemoteInv, TrackerInv, PullInv, PeerUnreachable
<1>3. KindInv'
  BY DEF RemoteInv, TypeOK, KindInv, PeerUnreachable, PeerEnd, ReportAndEnd
<1>4. AskedInv'
  BY DEF RemoteInv, TypeOK, AskedInv, PeerUnreachable, PeerEnd, ReportAndEnd
<1>5. RefreshedInv'
  BY DEF RemoteInv, RefreshedInv, PeerUnreachable, PeerEnd, ReportAndEnd
<1>6. RunningInv'
  BY DEF RunningInv, PeerUnreachable, PeerEnd, ReportAndEnd
<1>7. SuccessIsOfALaterRun'
  BY DEF RemoteInv, SuccessIsOfALaterRun, PeerUnreachable, PeerEnd, ReportAndEnd
<1> QED
  BY <1>1, <1>2, <1>3, <1>4, <1>5, <1>6, <1>7 DEF RemoteInv

LEMMA TimeOutKeeps ==
    ASSUME RemoteInv, NEW s \in Syncs, TimeOut(s) PROVE RemoteInv'
<1>1. TypeOK'
  <2>1. sync' \in [Syncs -> Goroutines]
    BY EndedIsGoroutine, OneBecomes
       DEF RemoteInv, States, TimeOut, PeerEnd, ReportAndEnd
  <2> QED
    BY <2>1 DEF RemoteInv, TypeOK, Goroutines, PeerEnd, ReportAndEnd, TimeOut, nodes
<1>2. TrackerInv' /\ PullInv'
  BY DEF RemoteInv, TrackerInv, PullInv, TimeOut, nodes
<1>3. KindInv'
  BY DEF RemoteInv, TypeOK, KindInv, TimeOut, PeerEnd, ReportAndEnd, nodes
<1>4. AskedInv'
  BY DEF RemoteInv, AskedInv, TimeOut, PeerEnd, ReportAndEnd, nodes
<1>5. RefreshedInv'
  BY DEF RemoteInv, RefreshedInv, TimeOut, PeerEnd, ReportAndEnd, nodes
<1>6. RunningInv'
  BY DEF RunningInv, TimeOut, PeerEnd, ReportAndEnd
<1>7. SuccessIsOfALaterRun'
  BY DEF RemoteInv, SuccessIsOfALaterRun, TimeOut, PeerEnd, ReportAndEnd, nodes
<1> QED
  BY <1>1, <1>2, <1>3, <1>4, <1>5, <1>6, <1>7 DEF RemoteInv

---------------------------------------------------------------------------
\* Together.

LEMMA StutterKeeps == ASSUME RemoteInv, UNCHANGED vars PROVE RemoteInv'
BY DEF RemoteInv, TypeOK, TrackerInv, PullInv, KindInv, AskedInv, RefreshedInv,
       RunningInv, SuccessIsOfALaterRun, vars

LEMMA StepKeeps == RemoteInv /\ [Next]_vars => RemoteInv'
<1> SUFFICES ASSUME RemoteInv, [Next]_vars PROVE RemoteInv'
  OBVIOUS
<1>1. CASE LibraryChanges
  BY <1>1, LibraryChangesKeeps
<1>2. ASSUME NEW n \in Nodes, Loop(n) \/ BeginOther(n) \/ Fail(n) PROVE RemoteInv'
  BY <1>2, BeginKeeps, BeginOtherKeeps, RefreshKeeps, PullKeeps, SucceedKeeps, FailKeeps
     DEF Loop
<1>3. ASSUME NEW s \in Syncs,
             \/ Request(s) \/ QueuePull(s) \/ WaitForRun(s)
             \/ AskPeer(s) \/ Poll(s)
             \/ PeerUnreachable(s) \/ TimeOut(s)
      PROVE  RemoteInv'
  BY <1>3, RequestKeeps, QueuePullKeeps, WaitForRunKeeps, AskPeerKeeps, PollKeeps,
     PeerUnreachableKeeps, TimeOutKeeps
<1>4. CASE UNCHANGED vars
  BY <1>4, StutterKeeps
<1> QED
  BY <1>1, <1>2, <1>3, <1>4 DEF Next

\* The inductive invariant, of the trackers, the runs and what the goroutines
\* wait for.
THEOREM RemoteInvHolds == Spec => []RemoteInv
<1> QED
  BY InitEstablishes, StepKeeps, PTL DEF Spec

\* Nodes and goroutines stay in their types, and our copy never has what the
\* peer's catalog has not, nor that what its library has not.
THEOREM RemoteTypeCorrect == Spec => []TypeOK
<1>1. RemoteInv => TypeOK
  BY DEF RemoteInv
<1> QED
  BY <1>1, RemoteInvHolds, PTL

\* When every request for the peer has ended, in whatever order they wrote
\* its entry of the tracker, the dashboard does not say "running".
THEOREM NoRequestLeftRunning == Spec => []NoSyncLeftRunning
<1>1. RemoteInv => NoSyncLeftRunning
  BY DEF RemoteInv, RunningInv, NoSyncLeftRunning
<1> QED
  BY <1>1, RemoteInvHolds, PTL

\* A plain request that reports success reports a run that pulled after it.
THEOREM SuccessesAreOfLaterRuns == Spec => []SuccessIsOfALaterRun
<1>1. RemoteInv => SuccessIsOfALaterRun
  BY DEF RemoteInv
<1> QED
  BY <1>1, RemoteInvHolds, PTL

\* A forced request that found the peer between two runs, none of whose
\* refreshes then failed, ends with a copy of all the library had.
THEOREM CalmPeersAreFresh == Spec => []ForcedSyncOfCalmPeerIsFresh
<1>1. RemoteInv => ForcedSyncOfCalmPeerIsFresh
  BY DEF RemoteInv, RefreshedInv, ForcedSyncOfCalmPeerIsFresh, Pulled
<1> QED
  BY <1>1, RemoteInvHolds, PTL
=============================================================================
