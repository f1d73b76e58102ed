----------------------------- MODULE RemoteSync -----------------------------
(***************************************************************************)
(* "Sync now" for a peer (internal/synctrigger): two nodes with a sync     *)
(* loop each, and the goroutines on one of them that carry out the user's  *)
(* requests.  A plain request queues a pull here and waits for a run of    *)
(* this node that began after it.  A forced one has the peer refresh its   *)
(* catalog, polls the peer's status until a run has ended there, and then  *)
(* queues a pull.  A sync run's outcome is all either of them sees, in the *)
(* "local" entry of a node's syncstatus.Tracker.                           *)
(*                                                                         *)
(* The queues of the two nodes keep what module RunQueue promises, and are *)
(* here what it calls wanted.  Catalogs and the peer's library are counted *)
(* by their changes; a time is the number of runs begun before it.         *)
(***************************************************************************)
EXTENDS Naturals

CONSTANTS
    Syncs,      \* goroutines of triggerRemote
    MaxChanges, \* bound: changes of the peer's library
    MaxRuns,    \* bound: runs of a node's loop that nobody asked for
    MaxFailures \* bound: runs that fail, requests that get lost, timeouts

ASSUME BoundsAssumption ==
    MaxChanges \in Nat /\ MaxRuns \in Nat /\ MaxFailures \in Nat

Nodes == {"here", "there"}

VARIABLES
    lib,        \* the peer's library
    indexed,    \* the peer's own catalog
    copy,       \* our mirror of it
    wanted,     \* what the queue of each node holds
    run,        \* how far the current run of each node is
    begun,      \* runs each node has begun
    local,      \* the "local" entry of each node's tracker
    shown,      \* the state in our tracker's entry for the peer
    sync,       \* the goroutines of triggerRemote
    tried,      \* history: the last run here to have come to its pull
    pulled,     \* history: the last run here to have pulled from the peer
    spare, failures     \* count what MaxRuns and MaxFailures bound

nodes == <<lib, indexed, copy, wanted, run, begun, local, tried, pulled, spare>>
vars == <<lib, indexed, copy, wanted, run, begun, local, shown, sync,
          tried, pulled, spare, failures>>

NewSync == [pc |-> "new", force |-> FALSE, started |-> 0, result |-> "none",
            goal |-> 0, calm |-> FALSE, due |-> 0, asked |-> 0]

\* Both nodes are between two runs.
Init ==
    /\ lib = 0 /\ indexed = 0 /\ copy = 0
    /\ wanted = [n \in Nodes |-> "nothing"]
    /\ run = [n \in Nodes |-> "none"]
    /\ begun = [n \in Nodes |-> 1]
    /\ local = [n \in Nodes |-> [state |-> "success", run |-> 1]]
    /\ shown = "none"
    /\ sync = [s \in Syncs |-> NewSync]
    /\ tried = 1 /\ pulled = 1
    /\ spare = 0 /\ failures = 0

Fails ==
    /\ failures < MaxFailures
    /\ failures' = failures + 1

\* Request.Merge.
Merged(request, other) ==
    IF "refresh" \in {request, other} THEN "refresh" ELSE "pull"

---------------------------------------------------------------------------
\* The nodes' sync loops.

LibraryChanges ==
    /\ lib < MaxChanges
    /\ lib' = lib + 1
    /\ UNCHANGED <<indexed, copy, wanted, run, begun, local, shown, sync,
                   tried, pulled, spare, failures>>

\* RunLocal starts, and tells the tracker so.
BeginWith(n, request) ==
    /\ run[n] = "none"
    /\ run' = [run EXCEPT ![n] = IF request = "refresh" THEN "refreshing" ELSE "pulling"]
    /\ begun' = [begun EXCEPT ![n] = @ + 1]
    /\ local' = [local EXCEPT ![n] = [state |-> "running", run |-> begun'[n]]]
    /\ wanted' = [wanted EXCEPT ![n] = "nothing"]
    /\ UNCHANGED <<lib, indexed, copy, shown, sync, tried, pulled, failures>>

Begin(n) ==
    /\ wanted[n] # "nothing"
    /\ BeginWith(n, wanted[n])
    /\ UNCHANGED spare

\* A scheduled run, or one asked for by somebody else: another peer's
\* notification, a user of the peer.
BeginOther(n) ==
    /\ spare < MaxRuns
    /\ spare' = spare + 1
    /\ \E request \in {"pull", "refresh"} :
         BeginWith(n, IF wanted[n] = "nothing" THEN request
                      ELSE Merged(request, wanted[n]))

\* Index.Refresh.  A peer whose catalog changed tells us, best effort.
Refresh(n) ==
    /\ run[n] = "refreshing"
    /\ run' = [run EXCEPT ![n] = "pulling"]
    /\ IF n = "there" /\ indexed # lib
       THEN /\ indexed' = lib
            /\ wanted' \in {wanted, [wanted EXCEPT !["here"] = Merged(@, "pull")]}
       ELSE UNCHANGED <<indexed, wanted>>
    /\ UNCHANGED <<lib, copy, begun, local, shown, sync, tried, pulled, spare, failures>>

\* pullPeers: that a pull failed, or was not tried since the peer is not
\* online, does not make the run fail.
Pull(n) ==
    /\ run[n] = "pulling"
    /\ run' = [run EXCEPT ![n] = "writing"]
    /\ IF n = "here"
       THEN /\ tried' = begun[n]
            /\ \/ copy' = indexed /\ pulled' = begun[n]
               \/ UNCHANGED <<copy, pulled>>
       ELSE UNCHANGED <<copy, tried, pulled>>
    /\ UNCHANGED <<lib, indexed, wanted, begun, local, shown, sync, spare, failures>>

EndWith(n, state) ==
    /\ run' = [run EXCEPT ![n] = "none"]
    /\ local' = [local EXCEPT ![n].state = state]
    /\ UNCHANGED <<lib, indexed, copy, wanted, begun, shown, tried, pulled, spare>>

Succeed(n) ==
    /\ run[n] = "writing"
    /\ EndWith(n, "success")
    /\ UNCHANGED <<sync, failures>>

\* The local refresh fails, or the election, or Reconcile.  After a failed
\* refresh nothing is pulled.
Fail(n) ==
    /\ run[n] \in {"refreshing", "writing"}
    /\ Fails
    /\ EndWith(n, "error")
    /\ sync' = [s \in Syncs |->
           [sync[s] EXCEPT !.calm = @ /\ ~(n = "there" /\ run[n] = "refreshing")]]

---------------------------------------------------------------------------
\* The goroutines.  Each writes the peer's entry of the tracker, and the
\* last write stands.  What a goroutine has no more use for is cleared.

Report(s, state) ==
    /\ shown' = state
    /\ sync' = [sync EXCEPT ![s].result = state]

ReportAndEnd(s, state) ==
    /\ shown' = state
    /\ sync' = [sync EXCEPT ![s] =
           [@ EXCEPT !.result = state, !.pc = "done", !.goal = 0, !.calm = FALSE, !.due = 0]]

\* Handler accepts a request, and triggerRemote begins.
Request(s) ==
    /\ sync[s].pc = "new"
    /\ shown' = "running"
    /\ \E force \in BOOLEAN :
         sync' = [sync EXCEPT ![s] =
             [@ EXCEPT !.pc = IF force THEN "asking" ELSE "queueing",
                       !.force = force, !.started = IF force THEN 0 ELSE begun["here"],
                       !.result = "running"]]
    /\ UNCHANGED <<nodes, failures>>

\* triggerPull, for a plain request and at the end of a forced one.
QueuePull(s) ==
    /\ sync[s].pc \in {"queueing", "pulling"}
    /\ wanted' = [wanted EXCEPT !["here"] = Merged(@, "pull")]
    /\ sync' = [sync EXCEPT
           ![s].pc = IF sync[s].force THEN "done" ELSE "waiting",
           ![s].asked = IF sync[s].force THEN begun["here"] ELSE 0]
    /\ UNCHANGED <<lib, indexed, copy, run, begun, local, shown, tried, pulled,
                   spare, failures>>

\* Mutant of BeganSince: any run will do.
BeganSinceEver(status, started) == TRUE

\* waitForLocalRun heeds a run that did not start before the request.
BeganSince(status, started) == status.run > started

\* Mutant of Ended: a failed run is not an end.
EndedWell(status) == status.state = "success"

Ended(status) == status.state \in {"success", "error"}

\* waitForLocalRun.
WaitForRun(s) ==
    /\ sync[s].pc = "waiting"
    /\ BeganSince(local["here"], sync[s].started)
    /\ IF Ended(local["here"])
       THEN ReportAndEnd(s, local["here"].state)
       ELSE Report(s, "running")
    /\ UNCHANGED <<nodes, failures>>

\* The peer is asked to refresh, and accepts.
AskPeer(s) ==
    /\ sync[s].pc = "asking"
    /\ wanted' = [wanted EXCEPT !["there"] = "refresh"]
    /\ sync' = [sync EXCEPT ![s] =
           [@ EXCEPT !.pc = "polling", !.goal = lib, !.calm = run["there"] = "none",
                     !.due = begun["there"] + (IF run["there"] = "none" THEN 1 ELSE 0)]]
    /\ UNCHANGED <<lib, indexed, copy, run, begun, local, shown, tried, pulled,
                   spare, failures>>

\* Mutants of PeerEnd: the entry is reset; the goroutine just goes away.
PeerEndIdle(s, state) == ReportAndEnd(s, "idle")
PeerEndSilent(s, state) ==
    /\ sync' = [sync EXCEPT ![s].pc = "done"]
    /\ UNCHANGED shown

\* unreachable.
PeerEnd(s, state) == ReportAndEnd(s, state)

\* The peer refuses, since it was asked too recently, or is not reached, or
\* its answer does not come back.
PeerUnreachable(s) ==
    /\ sync[s].pc \in {"asking", "polling"}
    /\ Fails
    /\ wanted' \in {wanted} \cup
           (IF sync[s].pc = "asking" THEN {[wanted EXCEPT !["there"] = "refresh"]} ELSE {})
    /\ PeerEnd(s, "unreachable")
    /\ UNCHANGED <<lib, indexed, copy, run, begun, local, tried, pulled, spare>>

\* Mutant of PeerSucceeded: whatever is no error.
PeerSucceededUnlessError(status) == status.state # "error"

PeerSucceeded(status) == status.state = "success"

\* pollRemoteStatus reads the peer's status.  It waits three seconds before
\* each look: by then a loop that was waiting when it was asked has begun a
\* run (due).  One that was busy may be looked at between two runs.
Poll(s) ==
    /\ sync[s].pc = "polling"
    /\ begun["there"] >= sync[s].due
    /\ LET status == local["there"] IN
       IF PeerSucceeded(status)
       THEN /\ shown' = "success"
            /\ sync' = [sync EXCEPT ![s] =
                   [@ EXCEPT !.result = "success", !.pc = "pulling", !.due = 0]]
       ELSE IF Ended(status) THEN ReportAndEnd(s, "error")
       ELSE Report(s, "running")
    /\ UNCHANGED <<nodes, failures>>

\* remotePollTimeout.
TimeOut(s) ==
    /\ sync[s].pc \in {"waiting", "polling"}
    /\ Fails
    /\ PeerEnd(s, "unreachable")
    /\ UNCHANGED nodes

Loop(n) == Begin(n) \/ Refresh(n) \/ Pull(n) \/ Succeed(n)

Next ==
    \/ LibraryChanges
    \/ \E n \in Nodes : Loop(n) \/ BeginOther(n) \/ Fail(n)
    \/ \E s \in Syncs :
         \/ Request(s) \/ QueuePull(s) \/ WaitForRun(s)
         \/ AskPeer(s) \/ Poll(s)
         \/ PeerUnreachable(s) \/ TimeOut(s)

Spec == Init /\ [][Next]_vars

\* Both loops go on, and so do the goroutines: every call they make has a
\* timeout.  That remotePollTimeout ends them is not assumed.
FairSpec ==
    /\ Spec
    /\ \A n \in Nodes : WF_vars(Loop(n))
    /\ \A s \in Syncs :
         WF_vars(QueuePull(s) \/ WaitForRun(s) \/ AskPeer(s) \/ Poll(s))

---------------------------------------------------------------------------
\* Properties.

States == {"none", "running", "success", "error", "unreachable"}

\* Type correctness of nodes and goroutines.
TypeOK ==
    /\ lib \in Nat /\ indexed \in 0..lib /\ copy \in 0..indexed
    /\ wanted \in [Nodes -> {"nothing", "pull", "refresh"}]
    /\ run \in [Nodes -> {"none", "refreshing", "pulling", "writing"}]
    /\ begun \in [Nodes -> Nat]
    /\ local \in [Nodes -> [state : States, run : Nat]]
    /\ shown \in States
    /\ sync \in [Syncs ->
           [pc : {"new", "queueing", "waiting", "asking", "polling", "pulling", "done"},
            force : BOOLEAN, started : Nat, result : States,
            goal : Nat, calm : BOOLEAN, due : Nat, asked : Nat]]
    /\ tried \in Nat /\ pulled \in Nat

Busy(s) == sync[s].pc \notin {"new", "done", "pulling"}

\* However the requests for one peer overlap, when the last has ended its
\* state on the dashboard is an outcome and not "running".
NoSyncLeftRunning == (\A s \in Syncs : ~Busy(s)) => shown # "running"

\* A plain request that reports success reports a run that came to its pull
\* after the request: neither an older run's outcome, nor one of a run that
\* was already past its pull.
SuccessIsOfALaterRun ==
    \A s \in Syncs :
        sync[s].pc = "done" /\ ~sync[s].force /\ sync[s].result = "success"
            => tried > sync[s].started

\* The pull of a forced request whose refresh is reported as a success has
\* been done by a run that took it.
Pulled(s) ==
    /\ sync[s].force /\ sync[s].pc = "done" /\ sync[s].result = "success"
    /\ pulled > sync[s].asked

\* Once the pull of a forced request is done, the copy has all the peer's
\* library had when it was asked to refresh (Handler's documentation).
ForcedSyncIsFresh == \A s \in Syncs : Pulled(s) => copy >= sync[s].goal

\* That holds if the peer was between two runs when it was asked, and none
\* of its refreshes fails meanwhile.
ForcedSyncOfCalmPeerIsFresh ==
    \A s \in Syncs : Pulled(s) /\ sync[s].calm => copy >= sync[s].goal

\* Every request comes to its end, whether runs fail or not, without its
\* half-hour timeout: no goroutine waits for a run that has been.
EverySyncEnds == \A s \in Syncs : Busy(s) ~> ~Busy(s)
=============================================================================
