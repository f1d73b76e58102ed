----------------------------- MODULE SyncQueue -----------------------------
(***************************************************************************)
(* The queue of sync requests of one node and the loop that carries them   *)
(* out: syncrun.Queue, and runSyncAndReconcileLoop and waitForNextRun of   *)
(* internal/app.                                                           *)
(*                                                                         *)
(* A push merges the request into the pending one under the queue's lock   *)
(* and then, the lock released, offers a token to a channel that holds     *)
(* one.  The loop receives the token, or its timer fires, and only then    *)
(* takes the request: it may find none.  Requests are volatile; the node   *)
(* starts with a run that refreshes its catalog.                           *)
(*                                                                         *)
(* A request is told by its reason: an asker stands for one place of the   *)
(* code that pushes, with what it asks for, and a merged request has the   *)
(* set of its reasons.                                                     *)
(***************************************************************************)
EXTENDS Naturals

CONSTANTS
    Asks,           \* places that push
    Refreshes,      \* RefreshLocal of what each of them pushes
    MaxPushes,      \* bound: pushes
    MaxCrashes      \* bound: restarts of the node

ASSUME AsksAssumption ==
    /\ Refreshes \in [Asks -> BOOLEAN]
    /\ Asks \cap {"startup", "scheduled"} = {}
    /\ MaxPushes \in Nat /\ MaxCrashes \in Nat

VARIABLES
    pending,        \* Queue.pending
    tokens,         \* tokens in the channel Queue.wake
    sending,        \* pushers that have merged and not offered the token yet
    loop,           \* where the sync loop is
    run,            \* the request of the current or latest run
    pushes, crashes \* count what MaxPushes and MaxCrashes bound

vars == <<pending, tokens, sending, loop, run, pushes, crashes>>

Startup == "startup"
Scheduled == "scheduled"

\* Request, a nil one having no reason.
NoRequest == [refresh |-> FALSE, reasons |-> {}]
AskFor(a) == [refresh |-> Refreshes[a], reasons |-> {a}]
ByItself(reason) == [refresh |-> TRUE, reasons |-> {reason}]

\* Mutant of Merged: what is merged in does not add its refresh.
MergedReasons(r, o) ==
    [refresh |-> r.refresh, reasons |-> r.reasons \cup o.reasons]

\* Merge: everything either one asks for.
Merged(r, o) ==
    [refresh |-> r.refresh \/ o.refresh, reasons |-> r.reasons \cup o.reasons]

Init ==
    /\ pending = NoRequest
    /\ tokens = 0
    /\ sending = {}
    /\ loop = "running"
    /\ run = ByItself(Startup)
    /\ pushes = 0
    /\ crashes = 0

---------------------------------------------------------------------------
\* Push, by several goroutines at once.

PushMerge ==
    /\ pushes < MaxPushes
    /\ \E a \in Asks \ sending :
         /\ pending' = Merged(pending, AskFor(a))
         /\ sending' = sending \cup {a}
    /\ pushes' = pushes + 1
    /\ UNCHANGED <<tokens, loop, run, crashes>>

\* Mutants of Offered: a channel that holds nothing, and one without limit.
OfferedUnbuffered == IF loop = "waiting" THEN 1 ELSE 0
OfferedMore == tokens + 1

\* The channel, of capacity 1, after a push has offered a token to it.
Offered == 1

PushWake ==
    /\ \E a \in sending : sending' = sending \ {a}
    /\ tokens' = Offered
    /\ UNCHANGED <<pending, loop, run, pushes, crashes>>

---------------------------------------------------------------------------
\* The loop.

RunEnds ==
    /\ loop = "running"
    /\ loop' = "waiting"
    /\ UNCHANGED <<pending, tokens, sending, run, pushes, crashes>>

ReceiveToken ==
    /\ loop = "waiting" /\ tokens > 0
    /\ tokens' = tokens - 1
    /\ loop' = "woken"
    /\ UNCHANGED <<pending, sending, run, pushes, crashes>>

TimerFires ==
    /\ loop = "waiting"
    /\ loop' = "due"
    /\ UNCHANGED <<pending, tokens, sending, run, pushes, crashes>>

\* Mutant of FindsRequest: the token is taken for a request.
FindsRequestAlways == TRUE

FindsRequest == pending # NoRequest

\* The token may outlive the request it announced: the loop waits on.
TakeWoken ==
    /\ loop = "woken"
    /\ IF FindsRequest
       THEN /\ run' = pending /\ loop' = "running"
            /\ pending' = NoRequest
       ELSE /\ loop' = "waiting"
            /\ UNCHANGED <<run, pending>>
    /\ UNCHANGED <<tokens, sending, pushes, crashes>>

\* Mutant of DueRequest: the scheduled run forgets what it takes.
DueRequestAlone == ByItself(Scheduled)

DueRequest == Merged(ByItself(Scheduled), pending)

TakeDue ==
    /\ loop = "due"
    /\ run' = DueRequest
    /\ pending' = NoRequest
    /\ loop' = "running"
    /\ UNCHANGED <<tokens, sending, pushes, crashes>>

\* The process ends and is started again.
Crash ==
    /\ crashes < MaxCrashes
    /\ crashes' = crashes + 1
    /\ pending' = NoRequest
    /\ tokens' = 0
    /\ sending' = {}
    /\ loop' = "running"
    /\ run' = ByItself(Startup)
    /\ UNCHANGED pushes

Next ==
    \/ PushMerge \/ PushWake
    \/ RunEnds \/ ReceiveToken \/ TimerFires \/ TakeWoken \/ TakeDue
    \/ Crash

Spec == Init /\ [][Next]_vars

\* Goroutines and the loop go on, and a run ends: all its requests have
\* timeouts.  Of the timer nothing is assumed, its interval may be hours.
FairSpec ==
    /\ Spec
    /\ WF_vars(PushWake)
    /\ WF_vars(RunEnds) /\ WF_vars(ReceiveToken)
    /\ WF_vars(TakeWoken) /\ WF_vars(TakeDue)

---------------------------------------------------------------------------
\* Properties.

Requests ==
    [refresh : BOOLEAN, reasons : SUBSET (Asks \cup {Startup, Scheduled})]

\* Type correctness of queue and loop.
TypeOK ==
    /\ pending \in Requests /\ run \in Requests
    /\ tokens \in 0..1
    /\ sending \subseteq Asks
    /\ loop \in {"running", "waiting", "woken", "due"}
    /\ pushes \in Nat /\ crashes \in Nat

\* No wake-up is lost: while a request is pending, something will make the
\* loop take it once it is back in its select, the timer not needed.  The
\* token is in the channel, or the loop is on its way to Take, or a pusher is
\* about to offer the token.
NoLostWakeup ==
    pending # NoRequest =>
        tokens > 0 \/ loop \in {"woken", "due"} \/ sending # {}

Refreshing == {a \in Asks : Refreshes[a]} \cup {Startup, Scheduled}

\* A request that waits, and a run, refresh the local catalog exactly if one
\* of those merged into it asked for that: a peer's notification that was
\* queued first takes nothing from a manual sync, nor the other way round.
RefreshesAsAsked ==
    \A r \in {pending, run} :
        r.refresh <=> r.reasons \cap Refreshing # {}

\* No run without somebody or the schedule having asked for it, whatever
\* tokens are left in the channel.
NoRunForNothing == run.reasons # {}

Queue == INSTANCE RunQueue
    WITH wanted <- pending.reasons,
         doing <- IF loop = "running" THEN run.reasons ELSE {}

\* Queue and loop carry out every request, in a run that takes all that is
\* pending, and need no timer for it.
KeepsQueuePromise == Queue!Spec
=============================================================================
