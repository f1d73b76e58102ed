--------------------------- MODULE NodeIdsProofs ---------------------------
(***************************************************************************)
(* Proofs about module NodeIds, for any nodes, names, invites and calls.   *)
(* That an id picked is one to be had needs an account of the numbers in   *)
(* use: every numbered or UUID peer, every client and every call under way *)
(* has been paid for by a call that was started.                           *)
(***************************************************************************)
EXTENDS NodeIds, FiniteSetTheorems, WellFoundedInduction, TLAPS

\* Ids that cost no number: plain names.
Plain == Names \X {0}

\* Ids that peers and clients may have.
Good == Ids \ ((Reserved \ Listed) \X {0})

Paired == {n \in Nodes : clients[n] # NoId}
UnderWay == {c \in Calls : calls[c].kind # "none"}

\* A call under way has a node and an id it may store; one that pairs, an
\* invite.
CallsInv ==
    \A c \in Calls : calls[c].kind # "none" =>
        /\ calls[c].node \in Nodes
        /\ calls[c].id \in Good
        /\ calls[c].kind = "pair" => calls[c].invite \in Invites

\* Whoever has a number paid with a call.
NumbersInv ==
    /\ nameless \subseteq Nodes
    /\ started \in 0..MaxCalls
    /\ Cardinality(PeerIds \ Plain) + Cardinality(Paired) + Cardinality(UnderWay)
           <= started

\* An invite is gone once it has authorized a node.
SpentInv ==
    /\ spentBy \in [Invites -> SUBSET Nodes]
    /\ \A i \in Invites :
         /\ invites[i] # "gone" => spentBy[i] = {}
         /\ \A m, n \in spentBy[i] : m = n

IdsInv ==
    /\ TypeOK
    /\ CallsInv
    /\ NumbersInv
    /\ SpentInv
    /\ ClientIdsDiffer

\* The peers' table.
Rows == [node : Nodes \cup {Nobody}, pinned : BOOLEAN, named : BOOLEAN,
         url : {"http", "https"}]
Tables == [Ids -> Rows]

USE NodesAssumption

---------------------------------------------------------------------------
\* Ids.

\* A nonempty set of numbers has a least one.
LEMMA LeastNumber ==
    ASSUME NEW S \in SUBSET Nat, S # {}
    PROVE  \E x \in S : \A k \in 0..(x - 1) : k \notin S
<1>1. PICK x \in S : \A y \in S : ~(<<y, x>> \in OpToRel(<, Nat))
  BY WFMin, NatLessThanWellFounded
<1>2. \A y \in S : ~(y < x)
  <2>1. \A y \in Nat : y < x => <<y, x>> \in OpToRel(<, Nat)
    BY DEF OpToRel
  <2> QED
    BY <1>1, <2>1
<1> QED
  BY <1>2

\* An image of a finite set is no larger.
LEMMA ImageIsFinite ==
    ASSUME NEW S, IsFiniteSet(S), NEW f
    PROVE  /\ IsFiniteSet({f[x] : x \in S})
           /\ Cardinality({f[x] : x \in S}) <= Cardinality(S)
<1> DEFINE T == {f[x] : x \in S}
           g == [x \in S |-> f[x]]
<1>1. g \in Surjection(S, T)
  BY DEF Surjection
<1> QED
  BY <1>1, FS_Surjection

LEMMA IdsAreFinite == IsFiniteSet(Ids)
<1>1. IsFiniteSet(Names)
  <2>1. IsFiniteSet({NameOf[n] : n \in Nodes})
    BY ImageIsFinite
  <2> QED
    BY <2>1, FS_Union DEF Names
<1>2. IsFiniteSet(Names \X (0..MaxNumber))
  <2>1. IsFiniteSet(0..MaxNumber)
    BY FS_Interval
  <2> QED
    BY <1>1, <2>1, FS_Product
<1>3. IsFiniteSet({"uuid"} \X Nodes)
  BY FS_Singleton, FS_Product
<1> QED
  BY <1>2, <1>3, FS_Union DEF Ids, Uuids

\* A name and a UUID are different ids.
LEMMA UuidsAreNoNames == Uuids \cap (Names \X (0..MaxNumber)) = {} /\ Uuids \cap Plain = {}
BY DEF Uuids, Plain

\* As long as there are fewer ids with a number than numbers, IdFor finds one
\* that is free.
LEMMA IdForIsFree ==
    ASSUME NEW name \in Names, NEW taken, IsFiniteSet(taken),
           Cardinality(taken \ (Plain \cup Uuids)) < MaxNumber
    PROVE  /\ IdFor(name, taken) \in {name} \X (0..MaxNumber)
           /\ Free(IdFor(name, taken), taken)
<1> DEFINE numbered == taken \ (Plain \cup Uuids)
           numbers == {k \in 0..MaxNumber : Free(<<name, k>>, taken)}
           named == [k \in 1..MaxNumber |-> <<name, k>>]
<1>1. numbers # {}
  <2> SUFFICES ASSUME numbers = {} PROVE FALSE
    OBVIOUS
  <2>1. \A k \in 1..MaxNumber : <<name, k>> \in numbered
    <3> SUFFICES ASSUME NEW k \in 1..MaxNumber PROVE <<name, k>> \in numbered
      OBVIOUS
    <3>1. <<name, k>> \in taken
      BY DEF Free
    <3>2. <<name, k>> \notin Plain /\ <<name, k>> \notin Uuids
      BY DEF Plain, Uuids
    <3> QED
      BY <3>1, <3>2
  <2>2. named \in Injection(1..MaxNumber, numbered)
    BY <2>1 DEF Injection, IsInjective
  <2>3. IsFiniteSet(numbered)
    BY FS_Difference
  <2>4. Cardinality(1..MaxNumber) <= Cardinality(numbered)
    BY <2>2, <2>3, FS_Injection
  <2>5. Cardinality(1..MaxNumber) = MaxNumber
    BY FS_Interval
  <2>6. Cardinality(numbered) \in Nat
    BY <2>3, FS_CardinalityType
  <2> QED
    BY <2>4, <2>5, <2>6
<1>2. PICK k \in numbers : \A j \in 0..(k - 1) : j \notin numbers
  <2>1. numbers \in SUBSET Nat
    OBVIOUS
  <2> HIDE DEF numbers
  <2> QED
    BY <1>1, <2>1, LeastNumber
<1>3. \E id \in {name} \X (0..MaxNumber) :
        /\ Free(id, taken)
        /\ \A j \in 0..(id[2] - 1) : ~Free(<<name, j>>, taken)
  <2>1. <<name, k>> \in {name} \X (0..MaxNumber) /\ <<name, k>>[2] = k
    OBVIOUS
  <2>2. \A j \in 0..(k - 1) : ~Free(<<name, j>>, taken)
    BY <1>2
  <2> QED
    BY <2>1, <2>2
<1> QED
  BY <1>3 DEF IdFor


---------------------------------------------------------------------------
\* Counting.

LEMMA Counting ==
    ASSUME NEW S, IsFiniteSet(S), NEW T, NEW x
    PROVE  /\ Cardinality(S) \in Nat
           /\ T \subseteq S =>
                /\ Cardinality(T) \in Nat /\ Cardinality(T) <= Cardinality(S)
           /\ T \subseteq S \cup {x} =>
                /\ Cardinality(T) \in Nat /\ Cardinality(T) <= Cardinality(S) + 1
           /\ x \in S /\ T \subseteq S \ {x} =>
                /\ Cardinality(T) \in Nat /\ Cardinality(T) <= Cardinality(S) - 1
<1>1. /\ IsFiniteSet(S \cup {x}) /\ Cardinality(S \cup {x}) <= Cardinality(S) + 1
      /\ IsFiniteSet(S \ {x}) /\ (x \in S => Cardinality(S \ {x}) = Cardinality(S) - 1)
  <2>1. Cardinality(S) \in Nat
    BY FS_CardinalityType
  <2>2. IsFiniteSet(S \cup {x}) /\ Cardinality(S \cup {x}) <= Cardinality(S) + 1
    <3>1. x \in S => S \cup {x} = S
      OBVIOUS
    <3>2. /\ IsFiniteSet(S \cup {x})
          /\ x \notin S => Cardinality(S \cup {x}) = Cardinality(S) + 1
      BY FS_AddElement
    <3>3. x \in S => Cardinality(S \cup {x}) = Cardinality(S)
      BY <3>1, Zenon
    <3> QED
      BY <2>1, <3>2, <3>3
  <2>3. IsFiniteSet(S \ {x}) /\ (x \in S => Cardinality(S \ {x}) = Cardinality(S) - 1)
    BY <2>1, FS_RemoveElement
  <2> QED
    BY <2>2, <2>3
<1>2. \A U, V : IsFiniteSet(U) /\ V \subseteq U =>
        /\ Cardinality(U) \in Nat /\ Cardinality(V) \in Nat
        /\ Cardinality(V) <= Cardinality(U)
  BY FS_Subset, FS_CardinalityType
<1>3. Cardinality(S) \in Nat
  BY <1>2
<1> QED
  BY <1>1, <1>2, <1>3

\* What is counted is finite, in this state and in any other.
LEMMA PartsAreFinite ==
    /\ \A S \in SUBSET Ids : IsFiniteSet(S) /\ Cardinality(S) \in Nat
    /\ \A S \in SUBSET Nodes : IsFiniteSet(S) /\ Cardinality(S) \in Nat
    /\ \A S \in SUBSET Calls : IsFiniteSet(S) /\ Cardinality(S) \in Nat
BY IdsAreFinite, FS_Subset, FS_CardinalityType

---------------------------------------------------------------------------
\* Picking an id.

LEMMA TakenIsGood == TypeOK => PeerIds \subseteq Good /\ ClientIds \subseteq Good
BY DEF TypeOK, Good, PeerIds, ClientIds

\* Names do not run out of numbers while calls may be started.
LEMMA IdForCall ==
    ASSUME IdsInv, started < MaxCalls, NEW n \in Nodes
    PROVE  IdFor(NameOf[n], Taken) \in Good \ Taken
<1> DEFINE numbered == Taken \ (Plain \cup Uuids)
           extra == PeerIds \ Plain
           held == {clients[m] : m \in Paired}
<1>1. /\ IsFiniteSet(Taken) /\ IsFiniteSet(numbered) /\ IsFiniteSet(extra)
      /\ Cardinality(numbered) \in Nat /\ Cardinality(extra) \in Nat
      /\ Cardinality(Paired) \in Nat /\ Cardinality(UnderWay) \in Nat
      /\ IsFiniteSet(Paired)
  <2>1. Taken \in SUBSET Ids /\ numbered \in SUBSET Ids /\ extra \in SUBSET Ids
    BY TakenIsGood DEF IdsInv, Taken, Good
  <2>2. Paired \in SUBSET Nodes /\ UnderWay \in SUBSET Calls
    BY DEF Paired, UnderWay
  <2> QED
    BY <2>1, <2>2, PartsAreFinite
<1>2. IsFiniteSet(held) /\ Cardinality(held) <= Cardinality(Paired)
  BY <1>1, ImageIsFinite
<1>3. Cardinality(numbered) <= Cardinality(extra) + Cardinality(held)
  <2>1. numbered \subseteq extra \cup held
    BY DEF Taken, ClientIds, Paired
  <2>2. /\ IsFiniteSet(extra \cup held)
        /\ Cardinality(extra \cup held) <= Cardinality(extra) + Cardinality(held)
    <3> HIDE DEF extra, held
    <3>1. Cardinality(extra \cap held) \in Nat /\ Cardinality(held) \in Nat
      BY <1>1, <1>2, FS_Intersection, FS_CardinalityType
    <3>2. /\ IsFiniteSet(extra \cup held)
          /\ Cardinality(extra \cup held) =
               Cardinality(extra) + Cardinality(held) - Cardinality(extra \cap held)
      BY <1>1, <1>2, FS_Union
    <3> QED
      BY <1>1, <3>1, <3>2
  <2>3. Cardinality(numbered) <= Cardinality(extra \cup held)
    BY <2>1, <2>2, FS_Subset
  <2> HIDE DEF numbered, extra, held
  <2> QED
    BY <1>1, <1>2, <2>2, <2>3, FS_CardinalityType
<1>4. Cardinality(numbered) < MaxNumber
  <2>1. Cardinality(extra) + Cardinality(Paired) + Cardinality(UnderWay) <= started
    BY DEF IdsInv, NumbersInv
  <2>2. Cardinality(held) \in Nat
    BY <1>2, FS_CardinalityType
  <2>3. started \in Nat /\ started < MaxNumber
    BY DEF IdsInv, NumbersInv
  <2> HIDE DEF numbered, extra, held
  <2> QED
    BY <1>1, <1>2, <1>3, <2>1, <2>2, <2>3
<1>5. NameOf[n] \in Names
  BY DEF Names
<1>6. /\ IdFor(NameOf[n], Taken) \in {NameOf[n]} \X (0..MaxNumber)
      /\ Free(IdFor(NameOf[n], Taken), Taken)
  BY <1>1, <1>4, <1>5, IdForIsFree
<1> HIDE DEF numbered, extra, held
<1> QED
  BY <1>5, <1>6 DEF Free, Good, Ids

\* A call started with an id to be had keeps the invariant: it is paid for.
LEMMA PickKeeps ==
    ASSUME IdsInv, NEW kind \in {"add", "redeem", "pair"}, NEW n \in Nodes,
           NEW ids \in SUBSET Good, NEW invite \in Invites \cup {NoId},
           kind = "pair" => invite \in Invites,
           Pick(kind, n, ids, invite)
    PROVE  IdsInv'
<1> DEFINE new(id) == [kind |-> kind, node |-> n, id |-> id, invite |-> invite]
<1>1. /\ started < MaxCalls /\ started' = started + 1
      /\ UNCHANGED <<peers, clients, invites, nameless, spentBy>>
  BY DEF Pick
<1>2. PICK c \in Calls, id \in ids :
        calls[c].kind = "none" /\ calls' = [calls EXCEPT ![c] = new(id)]
  BY DEF Pick
<1>3. calls' \in [Calls -> [kind : {"none", "add", "redeem", "pair"},
                           node : Nodes \cup {Nobody}, id : Ids \cup {NoId},
                           invite : Invites \cup {NoId}]]
  BY <1>2 DEF IdsInv, TypeOK, Good
<1>4. TypeOK'
  BY <1>1, <1>3 DEF IdsInv, TypeOK, PeerIds, ClientIds
<1>5. \A d \in Calls : calls'[d] = IF d = c THEN new(id) ELSE calls[d]
  BY <1>2 DEF IdsInv, TypeOK
<1>6. CallsInv'
  BY <1>5 DEF IdsInv, CallsInv, Good
<1>7. NumbersInv'
  <2>1. PeerIds' = PeerIds /\ Paired' = Paired
    BY <1>1 DEF PeerIds, Paired
  <2>2. UnderWay \in SUBSET Calls /\ UnderWay' \subseteq UnderWay \cup {c}
    BY <1>5 DEF UnderWay
  <2>3. /\ Cardinality(UnderWay) \in Nat /\ Cardinality(UnderWay') \in Nat
        /\ Cardinality(UnderWay') <= Cardinality(UnderWay) + 1
    BY <2>2, Counting, PartsAreFinite
  <2>4. Cardinality(PeerIds \ Plain) \in Nat /\ Cardinality(Paired) \in Nat
    BY PartsAreFinite DEF PeerIds, Paired
  <2>5. started + 1 \in 0..MaxCalls
    BY <1>1 DEF IdsInv, NumbersInv
  <2> QED
    BY <1>1, <2>1, <2>3, <2>4 DEF IdsInv, NumbersInv
<1>8. SpentInv' /\ ClientIdsDiffer'
  BY <1>1 DEF IdsInv, SpentInv, ClientIdsDiffer
<1> QED
  BY <1>4, <1>6, <1>7, <1>8 DEF IdsInv


LEMMA AddByUrlKeeps == ASSUME IdsInv, AddByUrl PROVE IdsInv'
<1>1. PICK n \in Nodes : Pick("add", n, IdsForUrl(n), NoId)
  BY DEF AddByUrl
<1>2. started < MaxCalls
  BY <1>1 DEF Pick
<1>3. <<"uuid", n>> \in Good
  BY DEF Good, Ids, Uuids
<1>4. IdsForUrl(n) \in SUBSET Good
  BY <1>2, <1>3, IdForCall DEF IdsForUrl
<1> QED
  BY <1>1, <1>4, PickKeeps

LEMMA RedeemInviteKeeps == ASSUME IdsInv, RedeemInvite PROVE IdsInv'
<1>1. PICK n \in Nodes : Pick("redeem", n, IdsForRedeemed(n), NoId)
  BY DEF RedeemInvite
<1>2. started < MaxCalls
  BY <1>1 DEF Pick
<1>3. PeerIds \subseteq Good /\ ClientIds \subseteq Good
  BY TakenIsGood DEF IdsInv
<1>4. PinnedAt(n) \subseteq PeerIds /\ LegacyNamed(NameOf[n]) \subseteq PeerIds
  BY DEF PinnedAt, LegacyNamed, PeerIds
<1>5. NewIdForPin(n) \in Good
  BY <1>2, <1>3, IdForCall DEF NewIdForPin, ClientIds
<1>6. IdsForRedeemed(n) \in SUBSET Good
  BY <1>3, <1>4, <1>5 DEF IdsForRedeemed
<1> QED
  BY <1>1, <1>6, PickKeeps

LEMMA PairClientKeeps == ASSUME IdsInv, PairClient PROVE IdsInv'
<1>1. PICK n \in Nodes, i \in Invites : Pick("pair", n, IdsForClient(n), i)
  BY DEF PairClient
<1>2. started < MaxCalls
  BY <1>1 DEF Pick
<1>3. PeerIds \subseteq Good
  BY TakenIsGood DEF IdsInv
<1>4. PinnedAt(n) \subseteq PeerIds
  BY DEF PinnedAt, PeerIds
<1>5. IdsForClient(n) \in SUBSET Good
  BY <1>2, <1>3, <1>4, IdForCall DEF IdsForClient
<1> QED
  BY <1>1, <1>5, PickKeeps

---------------------------------------------------------------------------
\* Storing it.

\* A call that returns gives its number back.
LEMMA ReturnedCall ==
    ASSUME TypeOK, CallsInv, NEW c \in Calls, calls[c].kind # "none", Returned(c)
    PROVE  /\ calls' \in [Calls -> [kind : {"none", "add", "redeem", "pair"},
                         node : Nodes \cup {Nobody}, id : Ids \cup {NoId},
                         invite : Invites \cup {NoId}]]
           /\ CallsInv'
           /\ Cardinality(UnderWay') \in Nat
           /\ Cardinality(UnderWay') <= Cardinality(UnderWay) - 1
<1>1. /\ calls' = [calls EXCEPT ![c] = NoCall]
      /\ NoCall \in [kind : {"none", "add", "redeem", "pair"}, node : Nodes \cup {Nobody},
                     id : Ids \cup {NoId}, invite : Invites \cup {NoId}]
      /\ NoCall.kind = "none"
  BY DEF Returned, NoCall
<1>2. \A d \in Calls : calls'[d] = IF d = c THEN NoCall ELSE calls[d]
  BY <1>1 DEF TypeOK
<1>3. UnderWay \in SUBSET Calls /\ c \in UnderWay /\ UnderWay' \subseteq UnderWay \ {c}
  BY <1>1, <1>2 DEF UnderWay
<1>4. IsFiniteSet(UnderWay)
  BY <1>3, PartsAreFinite
<1>5. /\ Cardinality(UnderWay') \in Nat
      /\ Cardinality(UnderWay') <= Cardinality(UnderWay) - 1
  BY <1>3, <1>4, Counting
<1>6. CallsInv'
  BY <1>1, <1>2 DEF CallsInv
<1> QED
  BY <1>1, <1>5, <1>6 DEF TypeOK

LEMMA StorePeerKeeps ==
    ASSUME IdsInv, NEW c \in Calls, StorePeer(c) PROVE IdsInv'
<1> DEFINE id == calls[c].id
           new == [node |-> calls[c].node, pinned |-> calls[c].kind = "redeem",
                   named |-> calls[c].kind = "redeem" \/ calls[c].id \notin Uuids,
                   url |-> IF calls[c].kind = "redeem" THEN "https" ELSE "http"]
<1>1. /\ calls[c].kind # "none" /\ Returned(c)
      /\ peers' = [peers EXCEPT ![id] = new]
      /\ UNCHANGED <<clients, invites, nameless, started, spentBy>>
  BY DEF StorePeer
<1>2. id \in Good /\ calls[c].node \in Nodes
  BY <1>1 DEF IdsInv, CallsInv, Good
<1>3. new \in [node : Nodes \cup {Nobody}, pinned : BOOLEAN, named : BOOLEAN,
              url : {"http", "https"}]
  BY <1>2
<1> HIDE DEF id, new
<1>4. PeerIds' \subseteq PeerIds \cup {id} /\ ClientIds' = ClientIds /\ Paired' = Paired
  BY <1>1 DEF PeerIds, ClientIds, Paired
<1>5. TypeOK'
  BY <1>1, <1>2, <1>3, <1>4, ReturnedCall DEF IdsInv, TypeOK, Good
<1>6. NumbersInv'
  <2>1. PeerIds \ Plain \in SUBSET Ids /\ (PeerIds \ Plain)' \subseteq (PeerIds \ Plain) \cup {id}
    BY <1>4 DEF PeerIds
  <2>2. /\ Cardinality(PeerIds \ Plain) \in Nat /\ Cardinality((PeerIds \ Plain)') \in Nat
        /\ Cardinality((PeerIds \ Plain)') <= Cardinality(PeerIds \ Plain) + 1
    <3> DEFINE before == PeerIds \ Plain
               after == PeerIds' \ Plain
    <3>1. IsFiniteSet(before) /\ after \subseteq before \cup {id}
      BY <2>1, PartsAreFinite
    <3> HIDE DEF before, after
    <3>2. /\ Cardinality(before) \in Nat /\ Cardinality(after) \in Nat
          /\ Cardinality(after) <= Cardinality(before) + 1
      BY <3>1, Counting
    <3> QED
      BY <3>2 DEF before, after
  <2>3. /\ Cardinality(UnderWay) \in Nat /\ Cardinality(UnderWay') \in Nat
        /\ Cardinality(UnderWay') <= Cardinality(UnderWay) - 1
    BY <1>1, ReturnedCall, PartsAreFinite DEF IdsInv, UnderWay
  <2>4. Cardinality(Paired) \in Nat
    BY PartsAreFinite DEF Paired
  <2> QED
    BY <1>1, <1>4, <2>2, <2>3, <2>4 DEF IdsInv, NumbersInv
<1>7. CallsInv' /\ SpentInv' /\ ClientIdsDiffer'
  BY <1>1, ReturnedCall DEF IdsInv, SpentInv, ClientIdsDiffer
<1> QED
  BY <1>5, <1>6, <1>7 DEF IdsInv

LEMMA StoreClientKeeps ==
    ASSUME IdsInv, NEW c \in Calls, StoreClient(c) PROVE IdsInv'
<1> DEFINE n == calls[c].node
           i == calls[c].invite
           id == calls[c].id
<1>1. /\ calls[c].kind = "pair" /\ Returned(c)
      /\ UNCHANGED <<peers, nameless, started>>
  BY DEF StoreClient
<1>2. n \in Nodes /\ i \in Invites /\ id \in Good
  BY <1>1 DEF IdsInv, CallsInv, Good
<1>3. /\ CallsInv' /\ Cardinality(UnderWay') \in Nat
      /\ Cardinality(UnderWay') <= Cardinality(UnderWay) - 1
      /\ Cardinality(UnderWay) \in Nat /\ Cardinality(Paired) \in Nat
      /\ Cardinality(PeerIds \ Plain) \in Nat
      /\ PeerIds' = PeerIds
  BY <1>1, ReturnedCall, PartsAreFinite DEF IdsInv, UnderWay, Paired, PeerIds
<1>4. CASE Redeemable(c)
  <2>1. /\ invites' = [invites EXCEPT ![i] = "gone"]
        /\ clients' = [clients EXCEPT ![n] = IF clients[n] = NoId THEN id ELSE clients[n]]
        /\ spentBy' = [spentBy EXCEPT ![i] = spentBy[i] \cup {n}]
    BY <1>4 DEF StoreClient
  <2>2. invites[i] = "pending" /\ (clients[n] # NoId \/ id \notin ClientIds)
    BY <1>4 DEF Redeemable
  <2> HIDE DEF n, i, id
  <2>3. \A m \in Nodes : clients'[m] =
          IF m = n /\ clients[n] = NoId THEN id ELSE clients[m]
    BY <1>2, <2>1 DEF IdsInv, TypeOK
  <2>4. ClientIds' \subseteq ClientIds \cup {id} /\ Paired' \subseteq Paired \cup {n}
    BY <2>3 DEF ClientIds, Paired
  <2>5. TypeOK'
    <3>1. clients' \in [Nodes -> Ids \cup {NoId}]
      BY <1>2, <2>1 DEF IdsInv, TypeOK, Good
    <3>2. invites' \in [Invites -> {"none", "pending", "gone"}]
      BY <2>1 DEF IdsInv, TypeOK
    <3> QED
      BY <1>1, <1>2, <1>3, <2>4, <3>1, <3>2, ReturnedCall DEF IdsInv, TypeOK, Good
  <2>6. NumbersInv'
    <3>1. Cardinality(Paired') \in Nat /\ Cardinality(Paired') <= Cardinality(Paired) + 1
      BY <2>4, Counting, PartsAreFinite DEF Paired
    <3> QED
      BY <1>1, <1>3, <3>1 DEF IdsInv, NumbersInv
  <2>7. SpentInv'
    <3>1. spentBy[i] = {}
      BY <1>2, <2>2 DEF IdsInv, SpentInv
    <3>2. /\ spentBy' \in [Invites -> SUBSET Nodes]
          /\ \A j \in Invites : spentBy'[j] = IF j = i THEN {n} ELSE spentBy[j]
      BY <1>2, <2>1, <3>1 DEF IdsInv, SpentInv
    <3>3. \A j \in Invites : invites'[j] = IF j = i THEN "gone" ELSE invites[j]
      BY <1>2, <2>1 DEF IdsInv, TypeOK
    <3> QED
      BY <3>2, <3>3 DEF IdsInv, SpentInv
  <2>8. ClientIdsDiffer'
    BY <2>2, <2>3 DEF IdsInv, ClientIdsDiffer, ClientIds
  <2> QED
    BY <1>3, <2>5, <2>6, <2>7, <2>8 DEF IdsInv
<1>5. CASE ~Redeemable(c)
  <2>1. UNCHANGED <<invites, clients, spentBy>>
    BY <1>5 DEF StoreClient
  <2>2. Paired' = Paired /\ ClientIds' = ClientIds
    BY <2>1 DEF Paired, ClientIds
  <2>3. TypeOK'
    BY <1>1, <1>3, <2>1, <2>2, ReturnedCall DEF IdsInv, TypeOK
  <2>4. NumbersInv'
    BY <1>1, <1>3, <2>2 DEF IdsInv, NumbersInv
  <2>5. SpentInv' /\ ClientIdsDiffer'
    BY <2>1 DEF IdsInv, SpentInv, ClientIdsDiffer
  <2> QED
    BY <1>3, <2>3, <2>4, <2>5 DEF IdsInv
<1> QED
  BY <1>4, <1>5

LEMMA CallFailsKeeps ==
    ASSUME IdsInv, NEW c \in Calls, CallFails(c) PROVE IdsInv'
<1>1. /\ calls[c].kind # "none" /\ Returned(c)
      /\ UNCHANGED <<peers, clients, invites, nameless, started, spentBy>>
  BY DEF CallFails
<1>2. PeerIds' = PeerIds /\ ClientIds' = ClientIds /\ Paired' = Paired
  BY <1>1 DEF PeerIds, ClientIds, Paired
<1>3. TypeOK'
  BY <1>1, <1>2, ReturnedCall DEF IdsInv, TypeOK
<1>4. NumbersInv'
  <2>1. /\ Cardinality(UnderWay) \in Nat /\ Cardinality(Paired) \in Nat
        /\ Cardinality(PeerIds \ Plain) \in Nat
    BY PartsAreFinite DEF UnderWay, Paired, PeerIds
  <2> QED
    BY <1>1, <1>2, <2>1, ReturnedCall DEF IdsInv, NumbersInv
<1>5. CallsInv' /\ SpentInv' /\ ClientIdsDiffer'
  BY <1>1, ReturnedCall DEF IdsInv, SpentInv, ClientIdsDiffer
<1> QED
  BY <1>3, <1>4, <1>5 DEF IdsInv


---------------------------------------------------------------------------
\* What else changes peers, clients and invites.

\* A step that takes peers and clients away, or leaves them, costs nothing.
LEMMA FewerKeep ==
    ASSUME IdsInv, PeerIds' \subseteq PeerIds, ClientIds' \subseteq ClientIds,
           Paired' \subseteq Paired, nameless' \subseteq nameless,
           UNCHANGED <<calls, started>>,
           peers' \in Tables,
           clients' \in [Nodes -> Ids \cup {NoId}],
           invites' \in [Invites -> {"none", "pending", "gone"}]
    PROVE  TypeOK' /\ CallsInv' /\ NumbersInv'
<1>1. TypeOK'
  BY DEF IdsInv, TypeOK, Tables, Rows
<1>2. CallsInv'
  BY DEF IdsInv, CallsInv
<1>3. NumbersInv'
  <2>1. UnderWay' = UnderWay /\ Cardinality(UnderWay) \in Nat
    BY PartsAreFinite DEF UnderWay
  <2>2. /\ Cardinality(Paired) \in Nat /\ Cardinality(Paired') \in Nat
        /\ Cardinality(Paired') <= Cardinality(Paired)
    BY Counting, PartsAreFinite DEF Paired
  <2>3. /\ Cardinality(PeerIds \ Plain) \in Nat /\ Cardinality(PeerIds' \ Plain) \in Nat
        /\ Cardinality(PeerIds' \ Plain) <= Cardinality(PeerIds \ Plain)
    <3> DEFINE before == PeerIds \ Plain
               after == PeerIds' \ Plain
    <3>1. IsFiniteSet(before) /\ after \subseteq before
      BY PartsAreFinite DEF PeerIds
    <3> HIDE DEF before, after
    <3>2. /\ Cardinality(before) \in Nat /\ Cardinality(after) \in Nat
          /\ Cardinality(after) <= Cardinality(before)
      BY <3>1, Counting
    <3> QED
      BY <3>2 DEF before, after
  <2> QED
    BY <2>1, <2>2, <2>3 DEF IdsInv, NumbersInv
<1> QED
  BY <1>1, <1>2, <1>3

LEMMA InviteStepsKeep ==
    ASSUME IdsInv, CreateInvite \/ InviteEnds PROVE IdsInv'
<1>1. UNCHANGED <<peers, clients, calls, nameless, started, spentBy>>
  BY DEF CreateInvite, InviteEnds
<1>2. PICK i \in Invites, state \in {"pending", "gone"} :
        invites[i] # "gone" /\ invites' = [invites EXCEPT ![i] = state]
  BY DEF CreateInvite, InviteEnds
<1>3. invites' \in [Invites -> {"none", "pending", "gone"}]
  BY <1>2 DEF IdsInv, TypeOK
<1>4. PeerIds' = PeerIds /\ ClientIds' = ClientIds /\ Paired' = Paired
  BY <1>1 DEF PeerIds, ClientIds, Paired
<1>5. TypeOK' /\ CallsInv' /\ NumbersInv'
  BY <1>1, <1>3, <1>4, FewerKeep DEF IdsInv, TypeOK, Tables, Rows
<1>6. \A j \in Invites : invites'[j] # "gone" => invites[j] # "gone"
  BY <1>2 DEF IdsInv, TypeOK
<1>7. SpentInv' /\ ClientIdsDiffer'
  BY <1>1, <1>6 DEF IdsInv, SpentInv, ClientIdsDiffer
<1> QED
  BY <1>5, <1>7 DEF IdsInv

LEMMA RemovePeerKeeps == ASSUME IdsInv, RemovePeer PROVE IdsInv'
<1>1. PICK id \in PeerIds : peers' = [peers EXCEPT ![id] = NoPeer]
  BY DEF RemovePeer
<1>2. UNCHANGED <<clients, invites, calls, nameless, started, spentBy>>
  BY DEF RemovePeer
<1>3. peers' \in Tables
  BY <1>1 DEF IdsInv, TypeOK, NoPeer, Tables, Rows
<1>4. PeerIds' \subseteq PeerIds
  BY <1>1 DEF PeerIds
<1>5. ClientIds' = ClientIds /\ Paired' = Paired
  BY <1>2 DEF ClientIds, Paired
<1>6. TypeOK' /\ CallsInv' /\ NumbersInv'
  BY <1>2, <1>3, <1>4, <1>5, FewerKeep DEF IdsInv, TypeOK
<1>7. SpentInv' /\ ClientIdsDiffer'
  BY <1>2 DEF IdsInv, SpentInv, ClientIdsDiffer
<1> QED
  BY <1>6, <1>7 DEF IdsInv

LEMMA RevokeKeeps == ASSUME IdsInv, Revoke PROVE IdsInv'
<1>1. PICK n \in Nodes : clients' = [clients EXCEPT ![n] = NoId]
  BY DEF Revoke
<1>2. UNCHANGED <<peers, invites, calls, nameless, started, spentBy>>
  BY DEF Revoke
<1>3. /\ clients' \in [Nodes -> Ids \cup {NoId}]
      /\ \A m \in Nodes : clients'[m] = IF m = n THEN NoId ELSE clients[m]
  BY <1>1 DEF IdsInv, TypeOK
<1>4. /\ PeerIds' = PeerIds /\ ClientIds' \subseteq ClientIds /\ Paired' \subseteq Paired
  BY <1>2, <1>3 DEF PeerIds, ClientIds, Paired
<1>5. TypeOK' /\ CallsInv' /\ NumbersInv'
  BY <1>2, <1>3, <1>4, FewerKeep DEF IdsInv, TypeOK, Tables, Rows
<1>6. SpentInv' /\ ClientIdsDiffer'
  BY <1>2, <1>3 DEF IdsInv, SpentInv, ClientIdsDiffer
<1> QED
  BY <1>5, <1>6 DEF IdsInv

LEMMA NameLearnedKeeps == ASSUME IdsInv, NameLearned PROVE IdsInv'
<1>1. PICK n \in Nodes :
        /\ nameless' = nameless \ {n}
        /\ peers' = [id \in Ids |->
               IF peers[id].node = n THEN [peers[id] EXCEPT !.named = TRUE] ELSE peers[id]]
  BY DEF NameLearned
<1>2. UNCHANGED <<clients, invites, calls, started, spentBy>>
  BY DEF NameLearned
<1>3. peers' \in Tables
  <2>1. \A id \in Ids : peers[id] \in Rows
    BY DEF IdsInv, TypeOK, Rows
  <2>2. \A id \in Ids : [peers[id] EXCEPT !.named = TRUE] \in Rows
    BY <2>1 DEF Rows
  <2> QED
    BY <1>1, <2>1, <2>2 DEF Tables
<1>4. PeerIds' = PeerIds
  BY <1>1 DEF IdsInv, TypeOK, PeerIds
<1>5. ClientIds' = ClientIds /\ Paired' = Paired
  BY <1>2 DEF ClientIds, Paired
<1>6. TypeOK' /\ CallsInv' /\ NumbersInv'
  BY <1>1, <1>2, <1>3, <1>4, <1>5, FewerKeep DEF IdsInv, TypeOK
<1>7. SpentInv' /\ ClientIdsDiffer'
  BY <1>2 DEF IdsInv, SpentInv, ClientIdsDiffer
<1> QED
  BY <1>6, <1>7 DEF IdsInv

---------------------------------------------------------------------------
\* Starting.

Pinned(table, n) == {id \in Ids : table[id].node = n /\ table[id].pinned}

\* What PEERS lists adds the ids listed, and does not touch pairings or UUIDs.
LEMMA SeededTable ==
    ASSUME NEW table \in Tables
    PROVE  /\ Seeded(table) \in Tables
           /\ KnownIn(Seeded(table)) \subseteq KnownIn(table) \cup (Listed \X {0})
           /\ \A n \in Nodes : Pinned(Seeded(table), n) = Pinned(table, n)
<1> DEFINE node(id) == IF table[id].pinned THEN table[id].node ELSE Configured[id[1]]
           row(id) == [table[id] EXCEPT !.url = "http", !.node = node(id),
                                        !.named = @ /\ node(id) = table[id].node]
<1>1. \A id \in Ids :
        Seeded(table)[id] = IF id \in Listed \X {0} THEN row(id) ELSE table[id]
  BY DEF Seeded
<1>2. \A id \in Ids : table[id] \in Rows
  BY DEF Tables
<1>3. ASSUME NEW id \in Ids, id \in Listed \X {0}
      PROVE  /\ row(id) \in Rows /\ row(id).node = node(id)
             /\ row(id).pinned = table[id].pinned
             /\ table[id].pinned \/ node(id) \in Nodes
  <2>1. table[id].pinned \/ node(id) \in Nodes
    BY <1>3
  <2>2. node(id) \in Nodes \cup {Nobody} /\ table[id] \in Rows
    BY <1>2, <1>3 DEF Rows
  <2>3. (table[id].named /\ node(id) = table[id].node) \in BOOLEAN
    OBVIOUS
  <2> HIDE DEF node
  <2> QED
    BY <2>1, <2>2, <2>3 DEF Rows
<1> HIDE DEF row
<1>4. Seeded(table) \in Tables
  <2>1. \A id \in Ids : Seeded(table)[id] \in Rows
    BY <1>1, <1>2, <1>3
  <2>2. Seeded(table) = [id \in Ids |-> Seeded(table)[id]]
    BY DEF Seeded
  <2> QED
    BY <2>1, <2>2 DEF Tables
<1>5. KnownIn(Seeded(table)) \subseteq KnownIn(table) \cup (Listed \X {0})
  BY <1>1 DEF KnownIn
<1>6. \A n \in Nodes : Pinned(Seeded(table), n) = Pinned(table, n)
  BY <1>1, <1>2, <1>3 DEF Pinned
<1> QED
  BY <1>4, <1>5, <1>6

\* Some members of a set giving way to no more others, it does not grow.
LEMMA Replacing ==
    ASSUME NEW S, IsFiniteSet(S), NEW R \in SUBSET S,
           NEW T, IsFiniteSet(T), Cardinality(T) <= Cardinality(R),
           NEW U \in SUBSET ((S \ R) \cup T)
    PROVE  IsFiniteSet(U) /\ Cardinality(U) <= Cardinality(S)
<1> DEFINE kept == S \ R
<1>1. /\ IsFiniteSet(R) /\ IsFiniteSet(kept)
      /\ Cardinality(S) \in Nat /\ Cardinality(R) \in Nat /\ Cardinality(kept) \in Nat
      /\ Cardinality(T) \in Nat
  BY FS_Subset, FS_Difference, FS_CardinalityType
<1>2. Cardinality(S) = Cardinality(kept) + Cardinality(R)
  <2>1. kept \cup R = S /\ kept \cap R = {}
    OBVIOUS
  <2> HIDE DEF kept
  <2>2. Cardinality(kept \cup R) =
          Cardinality(kept) + Cardinality(R) - Cardinality(kept \cap R)
    BY <1>1, FS_Union
  <2>3. Cardinality(kept \cup R) = Cardinality(S)
    BY <2>1
  <2>4. Cardinality(kept \cap R) = 0
    BY <2>1, FS_EmptySet
  <2> QED
    BY <1>1, <2>2, <2>3, <2>4
<1> HIDE DEF kept
<1>3. /\ IsFiniteSet(kept \cup T) /\ Cardinality(kept \cap T) \in Nat
      /\ Cardinality(kept \cup T) =
           Cardinality(kept) + Cardinality(T) - Cardinality(kept \cap T)
  BY <1>1, FS_Union, FS_Intersection, FS_CardinalityType
<1>4. U \subseteq kept \cup T
  BY DEF kept
<1>5. /\ IsFiniteSet(U) /\ Cardinality(U) \in Nat
      /\ Cardinality(U) <= Cardinality(kept \cup T)
  BY <1>3, <1>4, FS_Subset, FS_CardinalityType
<1> QED
  BY <1>1, <1>2, <1>3, <1>5

\* However many UUID peers are renamed at a start, and in whatever order, each
\* gets a name that no peer of the table has and no other is given.
LEMMA RenamesAreFree ==
    ASSUME NEW table \in Tables, NEW new \in Renames(table),
           Cardinality(KnownIn(table) \ Plain) <= MaxNumber
    PROVE  /\ \A id \in Renamed(table) :
                /\ new[id] \in Names \X (0..MaxNumber)
                /\ new[id] \notin Reserved \X {0}
                /\ new[id] \notin KnownIn(table)
           /\ \A a, b \in Renamed(table) : new[a] = new[b] => a = b
<1> DEFINE R == Renamed(table)
           costly == KnownIn(table) \ Plain
<1>1. PICK turn \in [R -> 1..Cardinality(R)] :
        /\ \A a, b \in R : turn[a] = turn[b] => a = b
        /\ \A id \in R : new[id] = NewName(table, id,
                {new[a] : a \in {b \in R : turn[b] < turn[id]}})
  BY DEF Renames
<1>2. new \in [R -> Ids]
  BY DEF Renames
<1>3. /\ R \subseteq KnownIn(table) /\ R \subseteq Uuids /\ KnownIn(table) \subseteq Ids
      /\ IsFiniteSet(R) /\ IsFiniteSet(costly) /\ IsFiniteSet(KnownIn(table))
      /\ Cardinality(R) \in Nat
  <2>1. R \in SUBSET Ids /\ costly \in SUBSET Ids /\ KnownIn(table) \in SUBSET Ids
    BY DEF Renamed, KnownIn
  <2> QED
    BY <2>1, PartsAreFinite DEF Renamed
<1>4. ASSUME NEW id \in R
      PROVE  LET given == {new[a] : a \in {b \in R : turn[b] < turn[id]}} IN
             /\ new[id] \in Names \X (0..MaxNumber)
             /\ Free(new[id], KnownIn(table) \cup given)
  <2> DEFINE before == {b \in R : turn[b] < turn[id]}
             given == {new[a] : a \in before}
             others == costly \ {id}
             taken == KnownIn(table) \cup given
             numbered == taken \ (Plain \cup Uuids)
  <2>1. id \in costly /\ before \subseteq others
    BY <1>1, <1>3, UuidsAreNoNames
  <2>2. /\ IsFiniteSet(others) /\ Cardinality(others) \in Nat
        /\ Cardinality(others) < MaxNumber
    <3> HIDE DEF costly
    <3>1. others = costly \ {id} /\ IsFiniteSet(others)
      BY <1>3, FS_RemoveElement
    <3>2. Cardinality(others) = Cardinality(costly) - 1 /\ Cardinality(costly) \in Nat
      BY <1>3, <2>1, FS_RemoveElement, FS_CardinalityType
    <3>3. Cardinality(costly) <= MaxNumber
      BY DEF costly
    <3> QED
      BY <3>1, <3>2, <3>3, FS_CardinalityType
  <2>3. IsFiniteSet(given) /\ Cardinality(given) <= Cardinality(before)
    <3>1. IsFiniteSet(before)
      BY <1>3, FS_Subset
    <3> HIDE DEF before
    <3> QED
      BY <3>1, ImageIsFinite
  <2>4. numbered \subseteq (others \ before) \cup given
    BY <1>3
  <2>5. IsFiniteSet(numbered) /\ Cardinality(numbered) <= Cardinality(others)
    <3> HIDE DEF before, given, others, numbered
    <3> QED
      BY <2>1, <2>2, <2>3, <2>4, Replacing
  <2>6. IsFiniteSet(taken)
    BY <1>3, <2>3, FS_Union
  <2>7. NameOf[table[id].node] \in Names
    BY <1>3 DEF Tables, Rows, KnownIn, Names
  <2>8. Cardinality(numbered) < MaxNumber
    <3> HIDE DEF numbered, others
    <3> QED
      BY <2>2, <2>5, FS_CardinalityType
  <2>9. new[id] = IdFor(NameOf[table[id].node], taken)
    BY <1>1 DEF NewName
  <2> HIDE DEF taken, given, before
  <2>10. /\ new[id] \in {NameOf[table[id].node]} \X (0..MaxNumber)
         /\ Free(new[id], taken)
    BY <2>6, <2>7, <2>8, <2>9, IdForIsFree DEF numbered
  <2> QED
    BY <2>7, <2>10 DEF taken, given, before
<1>5. ASSUME NEW a \in R, NEW b \in R, turn[a] < turn[b]
      PROVE  new[a] # new[b]
  BY <1>4, <1>5 DEF Free
<1>6. \A a, b \in R : a # b => turn[a] < turn[b] \/ turn[b] < turn[a]
  <2>1. \A a \in R : turn[a] \in Nat
    BY <1>1, <1>3
  <2> QED
    BY <1>1, <2>1
<1>7. \A a, b \in R : new[a] = new[b] => a = b
  BY <1>5, <1>6
<1> QED
  BY <1>4, <1>7 DEF Free

\* The rows renamed keep what they hold, a pairing included.
LEMMA MigratedTable ==
    ASSUME NEW table \in Tables, NEW new \in [Renamed(table) -> Ids],
           \A id \in Renamed(table) : new[id] \notin KnownIn(table),
           \A a, b \in Renamed(table) : new[a] = new[b] => a = b
    PROVE  /\ Migrated(table, new) \in Tables
           /\ KnownIn(Migrated(table, new)) =
                (KnownIn(table) \ Renamed(table)) \cup {new[a] : a \in Renamed(table)}
           /\ \A n \in Nodes : Cardinality(Pinned(Migrated(table, new), n))
                                 = Cardinality(Pinned(table, n))
<1> DEFINE R == Renamed(table)
           after == Migrated(table, new)
<1>1. R \subseteq KnownIn(table) /\ KnownIn(table) \subseteq Ids /\ DOMAIN new = R
  BY DEF Renamed, KnownIn
<1>2. \A a \in R : after[new[a]] = table[a]
  BY <1>1 DEF Migrated
<1>3. \A id \in Ids \ R : id \notin {new[a] : a \in R} => after[id] = table[id]
  BY <1>1 DEF Migrated
<1>4. \A id \in R : after[id] = NoPeer
  BY <1>1 DEF Migrated
<1>5. after \in Tables
  <2>1. \A id \in Ids : after[id] \in Rows
    <3> TAKE id \in Ids
    <3>1. NoPeer \in Rows
      BY DEF NoPeer, Rows
    <3>2. CASE id \in R
      BY <1>4, <3>1, <3>2
    <3>3. CASE id \in {new[a] : a \in R}
      BY <1>1, <1>2, <3>3 DEF Tables
    <3>4. CASE id \notin R /\ id \notin {new[a] : a \in R}
      BY <1>3, <3>4 DEF Tables
    <3> QED
      BY <3>2, <3>3, <3>4
  <2>2. after = [id \in Ids |-> after[id]]
    BY DEF Migrated
  <2> HIDE DEF after
  <2> QED
    BY <2>1, <2>2 DEF Tables
<1> HIDE DEF after
<1>6. NoPeer.node = Nobody /\ NoPeer.pinned = FALSE
  BY DEF NoPeer
<1>7. KnownIn(after) = (KnownIn(table) \ R) \cup {new[a] : a \in R}
  BY <1>1, <1>2, <1>3, <1>4, <1>6 DEF KnownIn
<1>8. ASSUME NEW n \in Nodes
      PROVE  Cardinality(Pinned(after, n)) = Cardinality(Pinned(table, n))
  <2> DEFINE old == Pinned(table, n)
             moved == [id \in old |-> IF id \in R THEN new[id] ELSE id]
  <2>1. old \subseteq KnownIn(table) /\ IsFiniteSet(old)
    BY PartsAreFinite DEF Pinned, KnownIn
  <2>2. \A id \in old : moved[id] \in Pinned(after, n)
    BY <1>1, <1>2, <1>3, <2>1 DEF Pinned
  <2>3. \A a, b \in old : moved[a] = moved[b] => a = b
    BY <1>1, <2>1
  <2>4. \A id \in Pinned(after, n) : \E a \in old : moved[a] = id
    <3> TAKE id \in Pinned(after, n)
    <3>1. id \notin R
      BY <1>4, <1>6 DEF Pinned
    <3>2. CASE id \in {new[a] : a \in R}
      BY <1>1, <1>2, <3>2 DEF Pinned
    <3>3. CASE id \notin {new[a] : a \in R}
      BY <1>3, <3>1, <3>3 DEF Pinned
    <3> QED
      BY <3>2, <3>3
  <2>5. moved \in Bijection(old, Pinned(after, n))
    BY <2>2, <2>3, <2>4 DEF Bijection, Injection, IsInjective, Surjection
  <2> HIDE DEF old, moved
  <2>6. ExistsBijection(old, Pinned(after, n))
    BY <2>5 DEF ExistsBijection
  <2>7. Cardinality(Pinned(after, n)) = Cardinality(old)
    BY <2>1, <2>6, FS_Bijection
  <2> QED
    BY <2>7 DEF old
<1> QED
  BY <1>5, <1>7, <1>8 DEF after

\* A start leaves the peers' table in its type, gives no reserved id away,
\* takes no more numbers than before and keeps every pairing.
LEMMA RestartedPeers ==
    ASSUME IdsInv, Restart
    PROVE  /\ peers' \in Tables
           /\ PeerIds' \subseteq Good
           /\ Cardinality(PeerIds' \ Plain) <= Cardinality(PeerIds \ Plain)
           /\ \A n \in Nodes : Cardinality(Pinned(peers', n)) = Cardinality(Pinned(peers, n))
<1> DEFINE seeded == Seeded(peers)
           costly == KnownIn(seeded) \ Plain
<1>1. PICK new \in Renames(seeded) : peers' = Migrated(seeded, new)
  BY DEF Restart
<1> DEFINE R == Renamed(seeded)
           range == {new[a] : a \in R}
<1>2. peers \in Tables /\ PeerIds = KnownIn(peers) /\ PeerIds' = KnownIn(peers')
  BY DEF IdsInv, TypeOK, Tables, Rows, PeerIds, KnownIn
<1>3. /\ seeded \in Tables
      /\ KnownIn(seeded) \subseteq PeerIds \cup (Listed \X {0})
      /\ \A n \in Nodes : Pinned(seeded, n) = Pinned(peers, n)
  BY <1>2, SeededTable
<1>4. /\ IsFiniteSet(costly) /\ Cardinality(costly) \in Nat
      /\ Cardinality(PeerIds \ Plain) \in Nat
      /\ Cardinality(costly) <= Cardinality(PeerIds \ Plain)
  <2> DEFINE before == PeerIds \ Plain
  <2>1. IsFiniteSet(before) /\ Cardinality(before) \in Nat
    BY PartsAreFinite DEF PeerIds
  <2>2. costly \subseteq before
    BY <1>3 DEF Plain, Names
  <2> HIDE DEF before, costly
  <2>3. IsFiniteSet(costly) /\ Cardinality(costly) <= Cardinality(before)
    BY <2>1, <2>2, FS_Subset
  <2> QED
    BY <2>1, <2>3, FS_CardinalityType DEF before
<1> HIDE DEF seeded
<1>5. Cardinality(costly) <= MaxNumber
  <2>1. Cardinality(Paired) \in Nat /\ Cardinality(UnderWay) \in Nat
    BY PartsAreFinite DEF Paired, UnderWay
  <2> HIDE DEF costly
  <2> QED
    BY <1>4, <2>1 DEF IdsInv, NumbersInv
<1>6. /\ \A id \in R : /\ new[id] \in Names \X (0..MaxNumber)
                       /\ new[id] \notin Reserved \X {0}
                       /\ new[id] \notin KnownIn(seeded)
      /\ \A a, b \in R : new[a] = new[b] => a = b
  BY <1>3, <1>5, RenamesAreFree
<1>7. new \in [R -> Ids]
  BY DEF Renames
<1>8. /\ peers' \in Tables
      /\ PeerIds' = (KnownIn(seeded) \ R) \cup range
      /\ \A n \in Nodes : Cardinality(Pinned(peers', n)) = Cardinality(Pinned(seeded, n))
  BY <1>1, <1>2, <1>3, <1>6, <1>7, MigratedTable
<1>9. PeerIds' \subseteq Good
  <2>1. range \subseteq Good
    BY <1>6 DEF Good, Ids
  <2>2. Listed \X {0} \subseteq Good
    BY DEF Good, Ids, Names
  <2>3. PeerIds \subseteq Good
    BY TakenIsGood DEF IdsInv
  <2> HIDE DEF range, R
  <2> QED
    BY <1>3, <1>8, <2>1, <2>2, <2>3
<1>10. Cardinality(PeerIds' \ Plain) <= Cardinality(costly)
  <2>1. R \subseteq costly
    BY UuidsAreNoNames DEF Renamed
  <2>2. IsFiniteSet(R)
    <3> HIDE DEF R, costly
    <3> QED
      BY <1>4, <2>1, FS_Subset
  <2>3. IsFiniteSet(range) /\ Cardinality(range) <= Cardinality(R)
    <3> HIDE DEF R
    <3> QED
      BY <2>2, ImageIsFinite
  <2>4. PeerIds' \ Plain \subseteq (costly \ R) \cup range
    BY <1>8
  <2> HIDE DEF range, R, costly
  <2> QED
    BY <1>4, <2>1, <2>3, <2>4, Replacing
<1>11. Cardinality(PeerIds' \ Plain) \in Nat
  BY PartsAreFinite DEF PeerIds
<1> HIDE DEF costly
<1> QED
  BY <1>3, <1>4, <1>8, <1>9, <1>10, <1>11

LEMMA RestartKeeps == ASSUME IdsInv, Restart PROVE IdsInv'
<1>1. /\ calls' = [c \in Calls |-> NoCall]
      /\ UNCHANGED <<clients, invites, nameless, started, spentBy>>
  BY DEF Restart
<1>2. ClientIds' = ClientIds /\ Paired' = Paired /\ UnderWay' = {}
  BY <1>1 DEF ClientIds, Paired, UnderWay, NoCall
<1>3. TypeOK'
  <2>1. \A name \in Reserved \ Listed : <<name, 0>> \notin PeerIds'
    BY RestartedPeers DEF Good
  <2>2. calls' \in [Calls -> [kind : {"none", "add", "redeem", "pair"},
                             node : Nodes \cup {Nobody}, id : Ids \cup {NoId},
                             invite : Invites \cup {NoId}]]
    BY <1>1 DEF NoCall
  <2> QED
    BY <1>1, <1>2, <2>1, <2>2, RestartedPeers DEF IdsInv, TypeOK, Tables, Rows
<1>4. CallsInv'
  BY <1>1 DEF CallsInv, NoCall
<1>5. NumbersInv'
  <2>1. PeerIds' \in SUBSET Ids
    BY RestartedPeers DEF Good
  <2>2. /\ Cardinality(PeerIds \ Plain) \in Nat /\ Cardinality(PeerIds' \ Plain) \in Nat
        /\ Cardinality(Paired) \in Nat /\ Cardinality(UnderWay) \in Nat
    BY PartsAreFinite DEF PeerIds, Paired, UnderWay
  <2>3. Cardinality(UnderWay') = 0
    BY <1>2, FS_EmptySet
  <2> QED
    BY <1>1, <1>2, <2>2, <2>3, RestartedPeers DEF IdsInv, NumbersInv
<1>6. SpentInv' /\ ClientIdsDiffer'
  BY <1>1 DEF IdsInv, SpentInv, ClientIdsDiffer
<1> QED
  BY <1>3, <1>4, <1>5, <1>6 DEF IdsInv

---------------------------------------------------------------------------
\* Together.

LEMMA InitEstablishes == Init => IdsInv
<1> SUFFICES ASSUME Init PROVE IdsInv
  OBVIOUS
<1> DEFINE empty == [id \in Ids |-> NoPeer]
<1>1. empty \in Tables /\ KnownIn(empty) = {}
  BY DEF Tables, Rows, KnownIn, NoPeer
<1>2. peers = Seeded(empty)
  BY DEF Init
<1> HIDE DEF empty
<1>3. peers \in Tables /\ PeerIds \subseteq Listed \X {0}
  BY <1>1, <1>2, SeededTable DEF PeerIds, KnownIn
<1>4. Paired = {} /\ ClientIds = {} /\ UnderWay = {}
  BY DEF Init, Paired, ClientIds, UnderWay, NoCall
<1>5. TypeOK
  <2>1. calls \in [Calls -> [kind : {"none", "add", "redeem", "pair"},
                            node : Nodes \cup {Nobody}, id : Ids \cup {NoId},
                            invite : Invites \cup {NoId}]]
    BY DEF Init, NoCall
  <2> QED
    BY <1>3, <1>4, <2>1 DEF Init, TypeOK, Tables, Rows
<1>6. CallsInv
  BY DEF Init, CallsInv, NoCall
<1>7. NumbersInv
  <2>1. PeerIds \ Plain = {}
    BY <1>3 DEF Plain, Names
  <2> QED
    BY <1>4, <2>1, FS_EmptySet DEF Init, NumbersInv
<1>8. SpentInv /\ ClientIdsDiffer
  BY DEF Init, SpentInv, ClientIdsDiffer
<1> QED
  BY <1>5, <1>6, <1>7, <1>8 DEF IdsInv

LEMMA StepKeeps == IdsInv /\ [Next]_vars => IdsInv'
<1> SUFFICES ASSUME IdsInv, [Next]_vars PROVE IdsInv'
  OBVIOUS
<1>1. CASE AddByUrl \/ RedeemInvite \/ PairClient
  BY <1>1, AddByUrlKeeps, RedeemInviteKeeps, PairClientKeeps
<1>2. CASE \E c \in Calls : StorePeer(c) \/ StoreClient(c) \/ CallFails(c)
  BY <1>2, StorePeerKeeps, StoreClientKeeps, CallFailsKeeps
<1>3. CASE CreateInvite \/ InviteEnds \/ RemovePeer \/ Revoke \/ NameLearned
  BY <1>3, InviteStepsKeep, RemovePeerKeeps, RevokeKeeps, NameLearnedKeeps
<1>4. CASE Restart
  BY <1>4, RestartKeeps
<1>5. CASE UNCHANGED vars
  BY <1>5
     DEF vars, IdsInv, TypeOK, CallsInv, NumbersInv, SpentInv, ClientIdsDiffer, PeerIds,
         ClientIds, Paired, UnderWay
<1> QED
  BY <1>1, <1>2, <1>3, <1>4, <1>5 DEF Next

\* The inductive invariant: numbers are accounted for, and calls, clients and
\* invites are what they may be while calls overlap and the node restarts.
THEOREM IdsInvHolds == Spec => []IdsInv
<1> QED
  BY InitEstablishes, StepKeeps, PTL DEF Spec

\* The tables stay in their types, and no peer or client is given a reserved id
\* that PEERS does not list.
THEOREM IdsTypeCorrect == Spec => []TypeOK
<1>1. IdsInv => TypeOK
  BY DEF IdsInv
<1> QED
  BY <1>1, IdsInvHolds, PTL

\* Whatever pairings overlap, and whatever was free when they picked their
\* ids, no two clients have the same.
THEOREM ClientsHaveTheirOwnIds == Spec => []ClientIdsDiffer
<1>1. IdsInv => ClientIdsDiffer
  BY DEF IdsInv
<1> QED
  BY <1>1, IdsInvHolds, PTL

\* An invite that several calls came with is spent by one of them.
THEOREM InvitesAreSpentOnce == Spec => []InvitesAreSingleUse
<1>1. IdsInv => InvitesAreSingleUse
  <2> SUFFICES ASSUME IdsInv, NEW i \in Invites PROVE Cardinality(spentBy[i]) <= 1
    BY DEF InvitesAreSingleUse
  <2>1. CASE spentBy[i] = {}
    BY <2>1, FS_EmptySet
  <2>2. CASE spentBy[i] # {}
    <3>1. PICK n \in spentBy[i] : TRUE
      BY <2>2
    <3>2. spentBy[i] = {n}
      BY <3>1 DEF IdsInv, SpentInv
    <3>3. Cardinality({n}) = 1
      BY FS_Singleton
    <3> QED
      BY <3>2, <3>3
  <2> QED
    BY <2>1, <2>2
<1> QED
  BY <1>1, IdsInvHolds, PTL

\* A start, whatever it seeds from PEERS and renames, leaves every node paired
\* as often as it was.
THEOREM StartsLosePairingsNever == Spec => StartsKeepPairings
<1>1. IdsInv /\ [Next]_vars =>
        [Restart => \A n \in Nodes :
            Cardinality(PinnedAt(n)) = Cardinality({id \in Ids :
                peers'[id].node = n /\ peers'[id].pinned})]_vars
  <2> SUFFICES ASSUME IdsInv, Restart
               PROVE  \A n \in Nodes :
                        Cardinality(PinnedAt(n)) = Cardinality({id \in Ids :
                            peers'[id].node = n /\ peers'[id].pinned})
    OBVIOUS
  <2> QED
    BY RestartedPeers DEF Pinned, PinnedAt
<1> QED
  BY <1>1, IdsInvHolds, PTL DEF Spec, StartsKeepPairings
=============================================================================
