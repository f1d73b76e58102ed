----------------------------- MODULE StrmFiles -----------------------------
(***************************************************************************)
(* One node's sync cycle: catalog.Sync (module Election) followed by       *)
(* strm.Reconcile, which turns catalog_items into .strm files on disk.     *)
(* Files and tables survive a crash; what Reconcile has gathered (the      *)
(* paths to record, the files to keep) does not.                           *)
(*                                                                         *)
(* Abstractions.  A path is a member of Paths, a function PathOf of the    *)
(* elected peer and the item as in pathFor; the content of a .strm file is *)
(* the pair of peer and item its URL names.  A file is written at once:    *)
(* the code renames a temporary file over it.                              *)
(***************************************************************************)
EXTENDS Election

CONSTANTS
    Paths,      \* where .strm files may be
    PathOf,     \* pathFor: a function of peer and item
    NoFile      \* there is no file

ASSUME PathsAssumption ==
    /\ PathOf \in [Peers \X Items -> Paths]
    /\ NoPath \notin Paths
    /\ NoFile \notin Peers \X Items

VARIABLES
    files,      \* the output directory: what each path holds
    left,       \* rows Reconcile has not come to yet
    moving,     \* items (at most one) written, old file not yet removed
    keep,       \* files the sweep must leave alone
    claimed,    \* paths taken by an item of this run
    paths,      \* strm_path of every item as it is to be recorded
    failed      \* Stats.Failed > 0, or the run has not got to its end

reconcile == <<left, moving, keep, claimed, paths>>
vars == <<lib, orphans, scanned, remote, known, health, hides, excluded, indexed, local, mirror, catalog,
          phase, listed, todo, elected, changes, faults,
          files, left, moving, keep, claimed, paths, failed>>

filesUntouched == UNCHANGED <<files, reconcile, failed>>

\* Whether a file streams the item, or an episode of the series.
StreamsOf(g) == Peers \X {g}
HasFile(g) == \E path \in Paths : files[path] \in StreamsOf(g)
HasEpisode(root) ==
    \E g \in Playable : Key[g] = Key[root] /\ HasFile(g)

NothingRecorded == [g \in Items |-> NoPath]

Init ==
    /\ ElectionInit
    /\ files = [path \in Paths |-> NoFile]
    /\ left = {}
    /\ moving = {}
    /\ keep = {}
    /\ claimed = {}
    /\ paths = NothingRecorded
    /\ failed = FALSE

\* wantStrm.
Want(g) ==
    /\ g \in Playable
    /\ catalog[g].peer # NoPeer
    /\ ~catalog[g].local /\ ~catalog[g].hidden /\ ~catalog[g].folder

Desired(g) == PathOf[<<catalog[g].peer, g>>]
Url(g) == <<catalog[g].peer, g>>
OldPath(g) == catalog[g].strm
Moves(g) == OldPath(g) \notin {NoPath, Desired(g)}

\* Mutant of OldKept: the old file is left to the sweep.
OldNotKept(g) == {}

\* The old file is this row's until it is gone.
OldKept(g) == IF Moves(g) THEN {OldPath(g)} ELSE {}

---------------------------------------------------------------------------
\* Reconcile.  The rows are not written by anyone else meanwhile.

StartReconcile ==
    /\ phase = "reconcile"
    /\ left' = {g \in Items : catalog[g].present}
    /\ paths' = [g \in Items |-> OldPath(g)]
    /\ phase' = "files"
    /\ failed' = FALSE
    /\ UNCHANGED <<world, settings, tables, listed, todo, elected, bounds,
                   files, moving, keep, claimed>>

\* The rows come in order of their ids.
Turn(g) ==
    /\ phase = "files"
    /\ moving = {}
    /\ g \in left
    /\ \A h \in left : g =< h

KeepsRest == UNCHANGED <<world, settings, tables, cycle>>

SkipUnwanted(g) ==
    /\ Turn(g) /\ ~Want(g) /\ OldPath(g) = NoPath
    /\ left' = left \ {g}
    /\ KeepsRest
    /\ UNCHANGED <<bounds, files, moving, keep, claimed, paths, failed>>

\* Mutant of RemoveUnwanted: the absent file is recorded, not the absent path.
RemoveUnwantedNoFile(g) ==
    /\ Turn(g) /\ ~Want(g) /\ OldPath(g) # NoPath
    /\ files' = [files EXCEPT ![OldPath(g)] = NoFile]
    /\ paths' = [paths EXCEPT ![g] = NoFile]
    /\ left' = left \ {g}
    /\ KeepsRest
    /\ UNCHANGED <<bounds, moving, keep, claimed, failed>>

RemoveUnwanted(g) ==
    /\ Turn(g) /\ ~Want(g) /\ OldPath(g) # NoPath
    /\ files' = [files EXCEPT ![OldPath(g)] = NoFile]
    /\ paths' = [paths EXCEPT ![g] = NoPath]
    /\ left' = left \ {g}
    /\ KeepsRest
    /\ UNCHANGED <<bounds, moving, keep, claimed, failed>>

\* Mutant of RemoveUnwantedFails: the path is forgotten, as if the file were
\* gone.
RemoveUnwantedFailsForgetting(g) ==
    /\ Turn(g) /\ ~Want(g) /\ OldPath(g) # NoPath
    /\ Failing
    /\ keep' = keep \cup {OldPath(g)}
    /\ paths' = [paths EXCEPT ![g] = NoPath]
    /\ left' = left \ {g}
    /\ failed' = TRUE
    /\ KeepsRest
    /\ UNCHANGED <<files, moving, claimed>>

RemoveUnwantedFails(g) ==
    /\ Turn(g) /\ ~Want(g) /\ OldPath(g) # NoPath
    /\ Failing
    /\ keep' = keep \cup {OldPath(g)}
    /\ left' = left \ {g}
    /\ failed' = TRUE
    /\ KeepsRest
    /\ UNCHANGED <<files, moving, claimed, paths>>

\* The path belongs to an item that came before.
SkipClaimed(g) ==
    /\ Turn(g) /\ Want(g) /\ Desired(g) \in claimed
    /\ keep' = keep \cup OldKept(g)
    /\ left' = left \ {g}
    /\ failed' = TRUE
    /\ KeepsRest
    /\ UNCHANGED <<bounds, files, moving, claimed, paths>>

\* Mutant of WriteFile: the path is not claimed.
WriteFileUnclaimed(g) ==
    /\ Turn(g) /\ Want(g)
    /\ files' = [files EXCEPT ![Desired(g)] = Url(g)]
    /\ keep' = keep \cup {Desired(g)} \cup OldKept(g)
    /\ IF Moves(g)
       THEN moving' = {g} /\ UNCHANGED <<paths, left>>
       ELSE /\ paths' = [paths EXCEPT ![g] = Desired(g)]
            /\ left' = left \ {g}
            /\ UNCHANGED moving
    /\ KeepsRest
    /\ UNCHANGED <<bounds, claimed, failed>>

\* writeIfChanged succeeds; a row that moves still has its old file to lose.
WriteFile(g) ==
    /\ Turn(g) /\ Want(g) /\ Desired(g) \notin claimed
    /\ files' = [files EXCEPT ![Desired(g)] = Url(g)]
    /\ claimed' = claimed \cup {Desired(g)}
    /\ keep' = keep \cup {Desired(g)} \cup OldKept(g)
    /\ IF Moves(g)
       THEN moving' = {g} /\ UNCHANGED <<paths, left>>
       ELSE /\ paths' = [paths EXCEPT ![g] = Desired(g)]
            /\ left' = left \ {g}
            /\ UNCHANGED moving
    /\ KeepsRest
    /\ UNCHANGED <<bounds, failed>>

WriteFileFails(g) ==
    /\ Turn(g) /\ Want(g) /\ Desired(g) \notin claimed
    /\ Failing
    /\ claimed' = claimed \cup {Desired(g)}
    /\ keep' = keep \cup {Desired(g)} \cup OldKept(g)
    /\ left' = left \ {g}
    /\ failed' = TRUE
    /\ KeepsRest
    /\ UNCHANGED <<files, moving, paths>>

\* Mutant of RemoveOld: the new path is not recorded.
RemoveOldOnly(g) ==
    /\ g \in moving
    /\ files' = [files EXCEPT ![OldPath(g)] = NoFile]
    /\ keep' = keep \ {OldPath(g)}
    /\ moving' = {}
    /\ left' = left \ {g}
    /\ KeepsRest
    /\ UNCHANGED <<bounds, claimed, paths, failed>>

\* Then the old file goes.
RemoveOld(g) ==
    /\ g \in moving
    /\ files' = [files EXCEPT ![OldPath(g)] = NoFile]
    /\ keep' = keep \ {OldPath(g)}
    /\ paths' = [paths EXCEPT ![g] = Desired(g)]
    /\ moving' = {}
    /\ left' = left \ {g}
    /\ KeepsRest
    /\ UNCHANGED <<bounds, claimed, failed>>

RemoveOldFails(g) ==
    /\ g \in moving
    /\ Failing
    /\ moving' = {}
    /\ left' = left \ {g}
    /\ failed' = TRUE
    /\ KeepsRest
    /\ UNCHANGED <<files, keep, claimed, paths>>

\* savePaths, in one transaction.
SavePaths ==
    /\ phase = "files"
    /\ left = {}
    /\ catalog' = [g \in Items |-> [catalog[g] EXCEPT !.strm = paths[g]]]
    /\ phase' = "sweep"
    /\ UNCHANGED <<world, settings, indexed, local, mirror, listed, todo, elected, bounds,
                   files, left, moving, keep, claimed, paths, failed>>

\* Back to waiting for the next run; nothing gathered in memory is kept.
Forget ==
    /\ phase' = "idle"
    /\ listed' = NoListing
    /\ todo' = {}
    /\ elected' = NotElected
    /\ left' = {}
    /\ moving' = {}
    /\ keep' = {}
    /\ claimed' = {}
    /\ paths' = NothingRecorded

\* sweep: every other .strm file goes.
Sweep ==
    /\ phase = "sweep"
    /\ files' = [path \in Paths |-> IF path \in keep THEN files[path] ELSE NoFile]
    /\ Forget
    /\ UNCHANGED <<world, settings, tables, bounds, failed>>

\* Some of them cannot be removed.
SweepFails ==
    /\ phase = "sweep"
    /\ Failing
    /\ \E stuck \in SUBSET (Paths \ keep) :
           files' = [path \in Paths |-> IF path \in keep \cup stuck
                                        THEN files[path] ELSE NoFile]
    /\ failed' = TRUE
    /\ Forget
    /\ UNCHANGED <<world, settings, tables>>

\* The run ends early: Jellyfin cannot be read, a transaction fails, or the
\* node stops and starts again.
RunFails ==
    /\ phase # "idle"
    /\ Failing
    /\ failed' = TRUE
    /\ Forget
    /\ UNCHANGED <<world, settings, tables, files>>

\* Jellyfin scans the output directory: it finds every .strm file, and the
\* root of a series while there is an episode of it.  A root left without
\* episodes goes, unless artwork saved in its folder keeps it.
JellyfinScans ==
    /\ \E leftover \in SUBSET {g \in scanned \ Playable : ~HasEpisode(g)} :
          scanned' = {g \in Playable : HasFile(g)}
                     \cup {g \in Items \ Playable : HasEpisode(g)} \cup leftover
    /\ scanned' # scanned
    /\ UNCHANGED <<lib, orphans, remote, known, health, settings, tables, cycle, bounds>>
    /\ filesUntouched

FileStep ==
    \/ StartReconcile
    \/ \E g \in Items :
          SkipUnwanted(g) \/ RemoveUnwanted(g) \/ SkipClaimed(g)
          \/ WriteFile(g) \/ RemoveOld(g)
    \/ SavePaths \/ Sweep

FileFault ==
    \/ \E g \in Items :
          RemoveUnwantedFails(g) \/ WriteFileFails(g) \/ RemoveOldFails(g)
    \/ SweepFails \/ RunFails

Next ==
    \/ SyncStep /\ filesUntouched
    \/ RefreshWithoutRoots /\ filesUntouched
    \/ \E p \in Peers : PullPeerFails(p) /\ filesUntouched
    \/ FileStep
    \/ FileFault
    \/ Meanwhile /\ filesUntouched
    \/ JellyfinScans

Spec == Init /\ [][Next]_vars

\* The sync timer: a run that starts goes on, and scheduled runs, which
\* re-read the local library, recur.
FairSpec ==
    /\ Spec
    /\ WF_vars((SyncStep /\ filesUntouched) \/ FileStep)
    /\ SF_vars(RefreshLocal /\ filesUntouched)

---------------------------------------------------------------------------
\* Properties.

Phases == {"idle", "list", "pull", "elect", "write", "reconcile", "files", "sweep"}
Row == [present: BOOLEAN, local: BOOLEAN, peer: Peers \cup {NoPeer},
        hidden: BOOLEAN, folder: BOOLEAN, strm: Paths \cup {NoPath}]

\* The tables, the output directory and what a run holds in memory.
TypeOK ==
    /\ lib \subseteq Items /\ orphans \subseteq Items /\ scanned \subseteq Items
    /\ remote \in [Peers -> [Items -> Offer]]
    /\ known \subseteq Peers /\ health \in [Peers -> {"online", "blip", "gone"}]
    /\ hides \subseteq Keys /\ excluded \subseteq Peers
    /\ indexed \in BOOLEAN
    /\ local \in [Items -> {"absent", "shown", "hidden"}]
    /\ mirror \in [Peers -> [Items -> Offer]]
    /\ catalog \in [Items -> Row]
    /\ phase \in Phases
    /\ listed \in [all: SUBSET Peers, offering: SUBSET Peers]
    /\ todo \subseteq Peers
    /\ elected \in [desired: [Items -> Row], offered: SUBSET Keys]
    /\ changes \in Nat /\ faults \in Nat
    /\ files \in [Paths -> (Peers \X Items) \cup {NoFile}]
    /\ left \subseteq Items /\ moving \subseteq Items
    /\ keep \subseteq Paths /\ claimed \subseteq Paths
    /\ paths \in [Items -> Paths \cup {NoPath}]
    /\ failed \in BOOLEAN

\* A playable item that stays offered never loses its last recorded file:
\* moving it to another peer, a failed write or removal, a crash between the
\* steps, the sweep after them, all leave a .strm that streams it.
OfferedItemKeepsAFile ==
    [][\A g \in Items :
          (Want(g) /\ OldPath(g) # NoPath /\ files[OldPath(g)] \in StreamsOf(g))
          => HasFile(g)']_vars

\* After a run in which nothing failed the output directory holds exactly
\* one .strm file per playable item that a peer is elected for and that is
\* not hidden, it streams from that peer, whose mirror has the item, and it
\* is recorded in the item's row: nothing left by a crash, a lost row or a
\* former owner is there.
CleanRunIsExact ==
    [][Sweep /\ ~failed =>
          \A path \in Paths :
             LET owners == {g \in Playable :
                               /\ catalog[g].peer # NoPeer
                               /\ ~catalog[g].hidden /\ ~catalog[g].folder
                               /\ Desired(g) = path}
             IN  IF owners = {} THEN files'[path] = NoFile
                 ELSE \E g \in owners :
                         /\ files'[path] = Url(g)
                         /\ catalog[g].strm = path
                         /\ local[g] = "absent"
                         /\ mirror[catalog[g].peer][g] # "none"]_vars

\* A row's path is forgotten only once its file is gone, so that a removal
\* that failed is retried, whether the item is local now, hidden or not
\* offered: only a row deleted because it is local no longer takes its path
\* with it (see RecordedFileIsNotForgotten).
FailedRemovalIsRetried ==
    [][\A g \in Items :
          /\ OldPath(g) # NoPath /\ OldPath(g)' # OldPath(g)
          /\ ~(catalog[g].local /\ ~catalog'[g].present)
          => files[OldPath(g)] \notin StreamsOf(g)]_vars

\* A hide is dropped only by the user, or when neither the local library nor
\* the mirror of any peer, reachable or not, has an item it covers.
HideOutlivesOutages ==
    [][\A k \in hides \ hides' :
          UnhideItem \/ \A g \in Items :
                           Key[g] = k => /\ local[g] = "absent"
                                         /\ \A p \in Peers : mirror[p][g] = "none"]_vars

\* What the world calls for: the peer an item is to be streamed from.  Peers
\* that are reachable count with what they offer, peers that were until
\* recently with what they last offered.
Seen(p, g) == IF health[p] = "online" THEN remote[p][g] ELSE mirror[p][g]
Candidates(g) ==
    {p \in known : /\ health[p] # "gone"
                   /\ Seen(p, g) # "none"
                   /\ ~(p \in excluded /\ Seen(p, g) = "foldered")}
Streamed(g) ==
    g \in Playable /\ g \notin lib /\ Key[g] \notin hides /\ Candidates(g) # {}
WorldFiles ==
    [path \in Paths |->
        LET owners == {g \in Items : Streamed(g) /\ PathOf[<<Min(Candidates(g)), g>>] = path}
        IN  IF owners = {} THEN NoFile
            ELSE <<Min(Candidates(Min(owners))), Min(owners)>>]

\* What a refresh takes for the node's own, when Jellyfin answers it in full,
\* is the playable part of its library, whatever of the node's own files
\* Jellyfin has found or still remembers, and a series root only if the
\* series is in the library, or nothing of it but a root is listed.
OwnFilesStayForeign ==
    [][RefreshLocal =>
          /\ {g \in Playable : local'[g] # "absent"} = lib \cap Playable
          /\ \A root \in Items \ Playable :
                local'[root] # "absent" =>
                   \/ \E g \in lib : Key[g] = Key[root]
                   \/ \A g \in scanned : Key[g] # Key[root] \/ g = root]_vars

\* catalog.go: a series root whose episodes are all redirects is dropped, "or
\* it would win the election as local and be re-offered to peers": a series
\* root is taken for the node's own only if the series is in its library.
OwnRootsStayForeign ==
    [][RefreshLocal =>
          \A root \in Items \ Playable :
             local'[root] # "absent" => \E g \in lib : Key[g] = Key[root]]_vars

\* Once libraries, peers and the user are quiet and operations succeed, the
\* output directory becomes and stays what the world calls for.
DirectorySettles == <>[](files = WorldFiles)

\* strm.go: "A row's strm_path only changes once the file it names is gone,
\* so a removal that fails is retried next cycle instead of being forgotten".
RecordedFileIsNotForgotten ==
    [][\A g \in Items :
          OldPath(g) # NoPath /\ OldPath(g)' # OldPath(g)
          => files[OldPath(g)] \notin StreamsOf(g)]_vars

\* pull.go: pruneRemovedPeers drops the exclusions "of peers no longer in the
\* registry", and of no other.
ExclusionsOfKnownPeersStay ==
    [][\A p \in excluded \ excluded' : ExcludeFolder \/ p \notin known]_vars

\* The items that want a path.
Claimants(path) == {g \in Items : Want(g) /\ Desired(g) = path}

\* Of several items that map to one path it is always the first that has it,
\* however they came to want it: when a run without faults ends, no other
\* item's stream is there, though the file may be missing (FirstClaimWins).
LaterClaimNeverWins ==
    [][Sweep /\ faults = 0 =>
          \A path \in Paths :
             Claimants(path) # {} =>
                files'[path] \in {NoFile, Url(Min(Claimants(path)))}]_vars

\* strm.go: "should two rows ever map to the same path, the same one wins
\* every cycle": when a run without faults ends, each path wanted by some
\* item holds the stream of the first of them.
FirstClaimWins ==
    [][Sweep /\ faults = 0 =>
          \A path \in Paths :
             Claimants(path) # {} => files'[path] = Url(Min(Claimants(path)))]_vars

=============================================================================
