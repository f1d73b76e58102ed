-------------------------- MODULE MirrorPromise --------------------------
(***************************************************************************)
(* What catalog replication promises, without feeds, cursors, pages or     *)
(* generations (the doc comments of internal/catalog/pull.go).  A provider *)
(* offers a catalog that changes at any time.  A follower reads it, and    *)
(* between two reads moves some of the items of its view to what it read.  *)
(* A pull that completes leaves the view equal to the catalog it read      *)
(* last, and only such a pull is recorded as a sync.  A pull that fails    *)
(* leaves the view where it was.  An item that is in the view and in what  *)
(* was read never leaves the view, which is all an interrupted pull can    *)
(* promise, and what keeps a resync from blinking items out.               *)
(***************************************************************************)
CONSTANTS Items, Vals, None

VARIABLES
    offered,    \* the provider's catalog
    snap,       \* the catalog as read, while it is being copied
    view,       \* the follower's copy
    phase,      \* of the follower's pull
    synced      \* a pull has completed since the provider is followed

promiseVars == <<offered, snap, view, phase, synced>>

Catalog == [Items -> Vals \cup {None}]
Empty == [g \in Items |-> None]

Init ==
    /\ offered = Empty
    /\ snap = Empty
    /\ view = Empty
    /\ phase = "idle"
    /\ synced = FALSE

\* The provider's catalog changes.
Publish ==
    /\ offered' \in Catalog
    /\ UNCHANGED <<snap, view, phase, synced>>

Start ==
    /\ phase = "idle"
    /\ phase' = "reading"
    /\ UNCHANGED <<offered, snap, view, synced>>

Read ==
    /\ phase = "reading"
    /\ snap' = offered
    /\ phase' = "holding"
    /\ UNCHANGED <<offered, view, synced>>

\* Part of what was read is copied; the rest is for later pages.
CopySome ==
    /\ phase = "holding"
    /\ view' \in Catalog
    /\ \A g \in Items : view'[g] \in {view[g], snap[g]}
    /\ snap' = Empty
    /\ phase' = "reading"
    /\ UNCHANGED <<offered, synced>>

CopyRest ==
    /\ phase = "holding"
    /\ view' = snap
    /\ snap' = Empty
    /\ phase' = "complete"
    /\ UNCHANGED <<offered, synced>>

Record ==
    /\ phase = "complete"
    /\ synced' = TRUE
    /\ phase' = "idle"
    /\ UNCHANGED <<offered, snap, view>>

GiveUp ==
    /\ phase # "idle"
    /\ phase' = "idle"
    /\ snap' = Empty
    /\ UNCHANGED <<offered, view, synced>>

\* The follower stops following the provider.
Forget ==
    /\ phase = "idle"
    /\ view' = Empty
    /\ synced' = FALSE
    /\ UNCHANGED <<offered, snap, phase>>

Next ==
    \/ Publish \/ Start \/ Read \/ CopySome \/ CopyRest
    \/ Record \/ GiveUp \/ Forget

Spec == Init /\ [][Next]_promiseVars
=============================================================================
