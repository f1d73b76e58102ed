------------------------------ MODULE RunQueue ------------------------------
(***************************************************************************)
(* What the queue of sync requests promises (syncrun.Queue with the loop   *)
(* of internal/app): a request is never lost, requests that wait are one   *)
(* run, and a run does all that was asked for before it was taken.  How    *)
(* the loop is woken up is the business of module SyncQueue.               *)
(***************************************************************************)
CONSTANT Asks       \* what runs are asked to do, by the reason they give

VARIABLES
    wanted,         \* asks no run has taken
    doing           \* asks the current run carries out, {} between runs

vars == <<wanted, doing>>

\* A node starts with a run nobody asked for.
Startup == "startup"
Scheduled == "scheduled"

Init ==
    /\ wanted = {}
    /\ doing = {Startup}

Ask ==
    /\ \E a \in Asks : wanted' = wanted \cup {a}
    /\ UNCHANGED doing

\* A run takes everything that is wanted.
Start ==
    /\ doing = {} /\ wanted # {}
    /\ doing' = wanted
    /\ wanted' = {}

StartScheduled ==
    /\ doing = {}
    /\ doing' = wanted \cup {Scheduled}
    /\ wanted' = {}

Finish ==
    /\ doing # {}
    /\ doing' = {}
    /\ UNCHANGED wanted

\* What was wanted, and what was being done, is covered by the first run.
Restart ==
    /\ doing' = {Startup}
    /\ wanted' = {}

Next == Ask \/ Start \/ StartScheduled \/ Finish \/ Restart

\* A run ends, and wanted asks need no timer to become one.
Spec == Init /\ [][Next]_vars /\ WF_vars(Start) /\ WF_vars(Finish)
SafeSpec == Init /\ [][Next]_vars
=============================================================================
