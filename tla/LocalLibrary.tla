--------------------------- MODULE LocalLibrary ---------------------------
(***************************************************************************)
(* What a node takes for its own library (catalog.LocalEntries over        *)
(* jellyfin.Client.ListItems).  Jellyfin's listing mixes the media of the  *)
(* library with the .strm files this very node has written, which Jellyfin *)
(* cannot tell apart, with rows of libraries that were removed and with    *)
(* placeholders that have no file.                                         *)
(*                                                                         *)
(* Abstractions.  A listed item is its global id and the place its path    *)
(* is in.  A series root and its episodes are the items that share a hide  *)
(* key, which for an episode of a series is the global id of the series.   *)
(***************************************************************************)
EXTENDS Integers, FiniteSetsExt

CONSTANTS
    Items,       \* global ids, ordered
    Playable,    \* movies and episodes, that is, all but series roots
    Key,         \* hideKey: the key that hides an item
    SameMount    \* Jellyfin sees the output directory under the node's path

ASSUME ItemsAssumption == Items \subseteq Nat /\ IsFiniteSet(Items)
ASSUME KeyAssumption == Playable \subseteq Items /\ DOMAIN Key = Items
\* A series root's key is its own, never that of another root.
ASSUME RootKeyAssumption ==
    \A g, h \in Items \ Playable : Key[g] = Key[h] => g = h
ASSUME SameMountAssumption == SameMount \in BOOLEAN

\* Where the path of a listed item is: in a library Jellyfin has, in the
\* node's own output directory, in a library that was removed, or nowhere.
Listed(place, S) == {[id |-> g, place |-> place] : g \in S}

\* GET /Items: the library, what the last scan found in the output
\* directory, rows of removed libraries, and a placeholder for every item.
Listing(lib, scanned, orphans) ==
    Listed("library", lib) \cup Listed("output", scanned)
    \cup Listed("removed", orphans) \cup Listed("placeholder", Items)

\* isRealMedia.
IsRealMedia(it) == it.place # "placeholder"

\* underAny, over the roots of the libraries there are.
UnderAny(it) == it.place # "removed"

\* ListItems: without the library roots, orphans cannot be told apart.
ListItems(listing, rootsKnown) ==
    {it \in listing : IsRealMedia(it) /\ (rootsKnown => UnderAny(it))}

\* Mutant of IsStrm: the extension is not looked at.
IsStrmByPath(it) == it.place = "output" /\ SameMount

\* isStrm: by path where both see the output directory at one place, and by
\* extension, which a series root, being a folder, does not have.
IsStrm(it) == it.place = "output" /\ (SameMount \/ it.id \in Playable)

Episodes(items, root) ==
    {it \in items : it.id \in Playable /\ Key[it.id] = Key[root]}

\* Mutant of IsOwnRoot: series roots are judged like any other item.
IsOwnRootNever(items, it) == FALSE

\* A series root all of whose episodes are redirects of this node.
IsOwnRoot(items, it) ==
    /\ it.id \notin Playable
    /\ Episodes(items, it.id) # {}
    /\ \A ep \in Episodes(items, it.id) : IsStrm(ep)

\* LocalEntries, by their ids.
LocalEntries(listing, rootsKnown) ==
    LET items == ListItems(listing, rootsKnown)
    IN  {it.id : it \in {i \in items : ~IsStrm(i) /\ ~IsOwnRoot(items, i)}}
=============================================================================
