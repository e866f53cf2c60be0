--------------------------- MODULE LibraryProofs ---------------------------
(***************************************************************************)
(* What the items table keeps while its workers share it, for any number   *)
(* of items, articles, feeds and models.                                   *)
(***************************************************************************)
EXTENDS Library, TLAPS

\* What the model host is asked about has attempts left; this is why a charge
\* never exceeds MAX_ATTEMPTS.
AskedHasAttempts ==
  embedder.stage = "asked" =>
    \A ref \in embedder.batch :
      Stored(ref[1]) => items[ref[1]].attempts < MaxAttempts

TInv == LibraryTypeOK /\ AskedHasAttempts

LEMMA RowTyped ==
  ASSUME LibraryTypeOK, NEW i \in Ids, Stored(i)
  PROVE  /\ items[i] \in ItemRow
         /\ items[i].article \in Articles
         /\ items[i].cluster \in Ids \cup {0}
         /\ items[i].attempts \in 0..MaxAttempts
BY DEF LibraryTypeOK, Stored, ItemRow

LEMMA NewItemTyped ==
  ASSUME NEW a \in Articles
  PROVE  /\ NewItem(a) \in ItemRow
         /\ NewItem(a) # None
         /\ NewItem(a).article = a
         /\ NewItem(a).cluster = 0
         /\ NewItem(a).attempts = 0
<1>1. 0 \in 0..MaxAttempts
  BY LibraryAssumption
<1>2. NewItem(a) \in ItemRow
  BY <1>1 DEF NewItem, ItemRow
<1>3. NewItem(a) # None
  BY <1>2, LibraryNone
<1> QED
  BY <1>2, <1>3 DEF NewItem

LEMMA IdleTyped == IdlePass \in Pass /\ IdlePass.stage = "idle"
BY DEF IdlePass, Pass

\* An item that keeps its shape with another read mark, star, cluster or count.
LEMMA RowChange ==
  ASSUME NEW r \in ItemRow
  PROVE  /\ \A b \in BOOLEAN : [r EXCEPT !.read = b] \in ItemRow
         /\ \A b \in BOOLEAN : [r EXCEPT !.starred = b] \in ItemRow
         /\ \A c \in Ids \cup {0} : [r EXCEPT !.cluster = c] \in ItemRow
         /\ \A n \in 0..MaxAttempts : [r EXCEPT !.attempts = n] \in ItemRow
BY DEF ItemRow

LEMMA RefTyped ==
  ASSUME LibraryTypeOK, NEW i \in Ids, Stored(i)
  PROVE  RefTo(i) \in Ref
BY RowTyped DEF RefTo, Ref

LEMMA BatchTyped ==
  ASSUME LibraryTypeOK, NEW ref \in embedder.batch
  PROVE  ref \in Ref /\ ref[1] \in Ids /\ ref[2] \in Articles
BY DEF LibraryTypeOK, Pass, Ref

LEMMA NextInPassTyped ==
  ASSUME LibraryTypeOK
  PROVE  NextInPass \in Pass /\ NextInPass.stage \in {"idle", "storing"}
BY IdleTyped DEF LibraryTypeOK, NextInPass, Pass

\* Rows that are kept keep what the invariants read of them.
LEMMA AskedKept ==
  ASSUME TInv, embedder' = embedder,
         \A i \in Ids : Stored(i)' =>
           items'[i].attempts = 0 \/ (Stored(i) /\ items'[i].attempts = items[i].attempts)
  PROVE  AskedHasAttempts'
<1> SUFFICES ASSUME embedder.stage = "asked", NEW ref \in embedder.batch, Stored(ref[1])'
             PROVE  items'[ref[1]].attempts < MaxAttempts
  BY DEF AskedHasAttempts
<1>1. ref[1] \in Ids
  BY BatchTyped DEF TInv
<1>2. CASE items'[ref[1]].attempts = 0
  BY <1>2, LibraryAssumption
<1>3. CASE Stored(ref[1]) /\ items'[ref[1]].attempts = items[ref[1]].attempts
  BY <1>3 DEF TInv, AskedHasAttempts
<1> QED
  BY <1>1, <1>2, <1>3

LEMMA NotAsked == ASSUME embedder'.stage # "asked" PROVE AskedHasAttempts'
BY DEF AskedHasAttempts
-----------------------------------------------------------------------------
LEMMA TypeInit == Init => TInv
<1> SUFFICES ASSUME Init PROVE TInv
  OBVIOUS
<1>1. LibraryTypeOK
  BY IdleTyped, LibraryAssumption DEF Init, LibraryTypeOK
<1>2. AskedHasAttempts
  BY IdleTyped DEF Init, AskedHasAttempts
<1> QED
  BY <1>1, <1>2 DEF TInv

LEMMA PollType == ASSUME TInv, NEW a \in Articles, Poll(a) PROVE TInv'
<1>1. PICK i \in Ids : items' = [items EXCEPT ![i] = NewItem(a)]
  BY DEF Poll
<1>2. LibraryTypeOK'
  BY <1>1, NewItemTyped DEF TInv, LibraryTypeOK, Poll
<1>3. AskedHasAttempts'
  <2>1. \A j \in Ids : Stored(j)' =>
          items'[j].attempts = 0 \/ (Stored(j) /\ items'[j].attempts = items[j].attempts)
    BY <1>1, NewItemTyped DEF TInv, LibraryTypeOK, Stored
  <2> QED
    BY <2>1, AskedKept DEF Poll
<1> QED
  BY <1>2, <1>3 DEF TInv

\* Rows and vectors that are removed leave the rest as it was.
LEMMA RemoveType ==
  ASSUME TInv, NEW S \in SUBSET Ids, Remove(S)
  PROVE  /\ items' \in [Ids -> ItemRow \cup {None}]
         /\ vector' \in [Ids -> Vector \cup {None}]
         /\ \A i \in Ids : Stored(i)' => Stored(i) /\ items'[i].attempts = items[i].attempts
BY DEF TInv, LibraryTypeOK, Remove, Stored

LEMMA UnsubscribeType == ASSUME TInv, NEW f \in Feeds, Unsubscribe(f) PROVE TInv'
<1> DEFINE S == {i \in Ids : Stored(i) /\ FeedOf[items[i].article] = f}
<1>1. S \in SUBSET Ids /\ Remove(S)
  BY DEF Unsubscribe
<1>2. /\ items' \in [Ids -> ItemRow \cup {None}]
      /\ vector' \in [Ids -> Vector \cup {None}]
      /\ \A i \in Ids : Stored(i)' => Stored(i) /\ items'[i].attempts = items[i].attempts
  BY <1>1, RemoveType
<1>3. LibraryTypeOK'
  BY <1>2 DEF TInv, LibraryTypeOK, Unsubscribe
<1>4. AskedHasAttempts'
  BY <1>2, AskedKept DEF Unsubscribe
<1> QED
  BY <1>3, <1>4 DEF TInv

LEMMA PruneType == ASSUME TInv, Prune PROVE TInv'
<1>1. PICK S \in SUBSET Prunable : Remove(S)
  BY DEF Prune
<1>2. S \in SUBSET Ids /\ \A i \in S : i \in Ids /\ Stored(i)
  BY DEF Prunable
<1>3. /\ items' \in [Ids -> ItemRow \cup {None}]
      /\ vector' \in [Ids -> Vector \cup {None}]
      /\ \A i \in Ids : Stored(i)' => Stored(i) /\ items'[i].attempts = items[i].attempts
  BY <1>1, <1>2, RemoveType
<1>4. LibraryTypeOK'
  BY <1>3 DEF TInv, LibraryTypeOK, Prune
<1>5. AskedHasAttempts'
  BY <1>3, AskedKept DEF Prune
<1> QED
  BY <1>4, <1>5 DEF TInv

LEMMA SubscribeType == ASSUME TInv, NEW f \in Feeds, Subscribe(f) PROVE TInv'
BY DEF TInv, LibraryTypeOK, AskedHasAttempts, Subscribe, Stored

LEMMA AgeType == ASSUME TInv, NEW a \in Articles, Age(a) PROVE TInv'
BY DEF TInv, LibraryTypeOK, AskedHasAttempts, Age, Stored
-----------------------------------------------------------------------------
LEMMA EmbedStartType == ASSUME TInv, EmbedStart PROVE TInv'
<1>1. PICK S \in SUBSET Due, dedupe \in DedupeSettings :
        embedder' = [IdlePass EXCEPT !.stage = "asked", !.dedupe = dedupe,
                                     !.batch = {RefTo(i) : i \in S}]
  BY DEF EmbedStart
<1>2. \A i \in S : i \in Ids /\ Stored(i) /\ items[i].attempts < MaxAttempts
  BY DEF Due
<1>3. {RefTo(i) : i \in S} \in SUBSET Ref
  BY <1>2, RefTyped DEF TInv
<1>4. dedupe \in BOOLEAN
  BY LibraryAssumption
<1>5. embedder' \in Pass
  BY <1>1, <1>3, <1>4 DEF IdlePass, Pass
<1>6. LibraryTypeOK'
  BY <1>5 DEF TInv, LibraryTypeOK, EmbedStart
<1>7. AskedHasAttempts'
  <2>1. embedder'.batch = {RefTo(i) : i \in S}
    BY <1>1 DEF IdlePass
  <2>2. \A ref \in embedder'.batch : items[ref[1]].attempts < MaxAttempts
    BY <1>2, <2>1 DEF RefTo
  <2> QED
    BY <2>2 DEF AskedHasAttempts, EmbedStart, Stored
<1> QED
  BY <1>6, <1>7 DEF TInv

LEMMA EmbedUnreachableType == ASSUME TInv, EmbedUnreachable PROVE TInv'
BY IdleTyped, NotAsked DEF TInv, LibraryTypeOK, EmbedUnreachable

LEMMA EmbedFailedType == ASSUME TInv, EmbedFailed PROVE TInv'
<1> DEFINE Charged(i) == Stored(i) /\ \E ref \in embedder.batch : ref[1] = i
           Row(i) == IF Charged(i) THEN [items[i] EXCEPT !.attempts = @ + 1] ELSE items[i]
<1>1. items' = [i \in Ids |-> Row(i)]
  BY DEF EmbedFailed
<1>2. ASSUME NEW i \in Ids PROVE Row(i) \in ItemRow \cup {None}
  <2>1. CASE Charged(i)
    <3>1. items[i] \in ItemRow /\ items[i].attempts \in 0..MaxAttempts
      BY <2>1, RowTyped DEF TInv
    <3>2. items[i].attempts < MaxAttempts
      BY <2>1 DEF TInv, AskedHasAttempts, EmbedFailed
    <3>3. items[i].attempts + 1 \in 0..MaxAttempts
      BY <3>1, <3>2, LibraryAssumption
    <3>4. [items[i] EXCEPT !.attempts = items[i].attempts + 1] \in ItemRow
      BY <3>1, <3>3, RowChange
    <3> QED
      BY <2>1, <3>4
  <2>2. CASE ~Charged(i)
    BY <2>2 DEF TInv, LibraryTypeOK
  <2> QED
    BY <2>1, <2>2
<1>3. items' \in [Ids -> ItemRow \cup {None}]
  <2> HIDE DEF Row
  <2> QED
    BY <1>1, <1>2
<1>4. LibraryTypeOK'
  BY <1>3, IdleTyped DEF TInv, LibraryTypeOK, EmbedFailed
<1>5. AskedHasAttempts'
  BY IdleTyped, NotAsked DEF EmbedFailed
<1> QED
  BY <1>4, <1>5 DEF TInv

LEMMA EmbedAnsweredType == ASSUME TInv, EmbedAnswered PROVE TInv'
<1>1. embedder' \in Pass /\ embedder'.stage = "storing"
  BY DEF TInv, LibraryTypeOK, EmbedAnswered, Pass
<1> QED
  BY <1>1, NotAsked DEF TInv, LibraryTypeOK, EmbedAnswered

LEMMA EmbedStoreType ==
  ASSUME TInv, NEW ref \in embedder.batch, EmbedStore(ref) PROVE TInv'
<1>1. ref[1] \in Ids /\ ref[2] \in Articles
  BY BatchTyped DEF TInv
<1>2. CASE Stored(ref[1]) /\ embedder' = [embedder EXCEPT !.stage = "stored", !.id = ref[1],
                                                         !.batch = @ \ {ref}]
           /\ vector' = [vector EXCEPT ![ref[1]] = [model |-> model, article |-> ref[2]]]
           /\ items' = [items EXCEPT ![ref[1]].attempts = 0]
  <2>1. embedder' \in Pass /\ embedder'.stage = "stored"
    BY <1>1, <1>2 DEF TInv, LibraryTypeOK, Pass
  <2>2. vector' \in [Ids -> Vector \cup {None}]
    BY <1>1, <1>2 DEF TInv, LibraryTypeOK, Vector
  <2>3. items[ref[1]] \in ItemRow
    BY <1>1, <1>2, RowTyped DEF TInv
  <2>4. [items[ref[1]] EXCEPT !.attempts = 0] \in ItemRow
    BY <2>3, LibraryAssumption, RowChange
  <2>5. items' \in [Ids -> ItemRow \cup {None}]
    BY <1>1, <1>2, <2>4 DEF TInv, LibraryTypeOK
  <2>6. LibraryTypeOK'
    BY <2>1, <2>2, <2>5 DEF TInv, LibraryTypeOK, EmbedStore
  <2> QED
    BY <2>1, <2>6, NotAsked DEF TInv
<1>3. CASE embedder' = IdlePass /\ UNCHANGED <<items, vector>>
  BY <1>3, IdleTyped, NotAsked DEF TInv, LibraryTypeOK, EmbedStore
<1> QED
  BY <1>2, <1>3 DEF EmbedStore

LEMMA HeadOfTyped ==
  ASSUME LibraryTypeOK, NEW j \in Ids, Stored(j) PROVE HeadOf(j) \in Ids
BY RowTyped DEF HeadOf

LEMMA EmbedScanType == ASSUME TInv, EmbedScan PROVE TInv'
<1>1. embedder' \in Pass /\ embedder'.stage # "asked"
  <2>1. CASE embedder' = NextInPass
    BY <2>1, NextInPassTyped DEF TInv
  <2>2. CASE \E j \in Neighbours(embedder.id) :
               embedder' = [embedder EXCEPT !.stage = "joining", !.head = HeadOf(j)]
    <3>1. PICK j \in Neighbours(embedder.id) :
            embedder' = [embedder EXCEPT !.stage = "joining", !.head = HeadOf(j)]
      BY <2>2
    <3>2. HeadOf(j) \in Ids
      BY HeadOfTyped DEF TInv, Neighbours
    <3> QED
      BY <3>1, <3>2 DEF TInv, LibraryTypeOK, Pass
  <2> QED
    BY <2>1, <2>2 DEF EmbedScan
<1> QED
  BY <1>1, NotAsked DEF TInv, LibraryTypeOK, EmbedScan

LEMMA EmbedJoinType == ASSUME TInv, EmbedJoin PROVE TInv'
<1> DEFINE id == embedder.id
           head == embedder.head
           Row(k) == CASE Stored(k) /\ k = id -> [items[k] EXCEPT !.cluster = head]
                       [] Stored(k) /\ k = head /\ k # id /\ items[k].cluster = 0
                            -> [items[k] EXCEPT !.cluster = k]
                       [] OTHER -> items[k]
<1>1. items' = [k \in Ids |-> Row(k)]
  BY DEF EmbedJoin, JoinCluster
<1>2. head \in Ids \cup {0}
  BY DEF TInv, LibraryTypeOK, Pass
<1>3. ASSUME NEW k \in Ids PROVE Row(k) \in ItemRow \cup {None}
  <2>1. CASE Stored(k)
    BY <1>2, <2>1, RowTyped, RowChange DEF TInv
  <2>2. CASE ~Stored(k)
    BY <2>2 DEF TInv, LibraryTypeOK
  <2> QED
    BY <2>1, <2>2
<1>4. items' \in [Ids -> ItemRow \cup {None}]
  <2> HIDE DEF Row
  <2> QED
    BY <1>1, <1>3
<1>5. embedder' \in Pass /\ embedder'.stage # "asked"
  BY NextInPassTyped DEF TInv, EmbedJoin
<1> QED
  BY <1>4, <1>5, NotAsked DEF TInv, LibraryTypeOK, EmbedJoin
-----------------------------------------------------------------------------
LEMMA DigestStartType ==
  ASSUME TInv, NEW g \in Generators, DigestStart(g) PROVE TInv'
<1>1. {RefTo(i) : i \in Candidates} \in SUBSET Ref
  BY RefTyped DEF TInv, Candidates, Listed
<1> QED
  BY <1>1 DEF TInv, LibraryTypeOK, AskedHasAttempts, DigestStart, Stored

LEMMA DigestWriteType ==
  ASSUME TInv, NEW g \in Generators, DigestWrite(g) PROVE TInv'
<1>1. generator[g] \in SUBSET Ref
  BY DEF TInv, LibraryTypeOK, DigestWrite
<1>2. digest' \in SUBSET Ref
  BY <1>1 DEF DigestWrite
<1> QED
  BY <1>2 DEF TInv, LibraryTypeOK, AskedHasAttempts, DigestWrite, Stored

LEMMA DigestFailType ==
  ASSUME TInv, NEW g \in Generators, DigestFail(g) PROVE TInv'
BY DEF TInv, LibraryTypeOK, AskedHasAttempts, DigestFail, Stored

LEMMA SetType ==
  ASSUME TInv, NEW i \in Ids, NEW b \in BOOLEAN, SetRead(i, b) \/ SetStarred(i, b)
  PROVE  TInv'
<1>1. items[i] \in ItemRow
  BY RowTyped DEF TInv, SetRead, SetStarred
<1>2. [items[i] EXCEPT !.read = b] \in ItemRow /\ [items[i] EXCEPT !.starred = b] \in ItemRow
  BY <1>1, RowChange
<1>3. items' \in [Ids -> ItemRow \cup {None}]
  BY <1>2 DEF TInv, LibraryTypeOK, SetRead, SetStarred
<1>4. LibraryTypeOK'
  BY <1>3 DEF TInv, LibraryTypeOK, SetRead, SetStarred
<1>5. \A j \in Ids : Stored(j)' => Stored(j) /\ items'[j].attempts = items[j].attempts
  BY <1>1 DEF TInv, LibraryTypeOK, SetRead, SetStarred, Stored, ItemRow
<1>6. AskedHasAttempts'
  BY <1>5, AskedKept DEF SetRead, SetStarred
<1> QED
  BY <1>4, <1>6 DEF TInv

\* Mark-read, seen as what it does to a row.
LEMMA MarkReadRows ==
  ASSUME TInv, NEW scope \in Scopes, MarkRead(scope)
  PROVE  /\ items' \in [Ids -> ItemRow \cup {None}]
         /\ \A i \in Ids :
              \/ items'[i] = items[i]
              \/ Stored(i) /\ items'[i] = [items[i] EXCEPT !.read = TRUE]
<1>1. PICK S \in SUBSET Ids :
        items' = [i \in Ids |-> IF Stored(i) /\ i \in S
                                THEN [items[i] EXCEPT !.read = TRUE] ELSE items[i]]
  <2> DEFINE matched  == {i \in Ids : /\ Stored(i)
                                      /\ ~items[i].read
                                      /\ FeedOf[items[i].article] \in scope}
             clusters == {items[i].cluster : i \in matched} \ {0}
             marked   == {i \in Ids : i \in matched \/ items[i].cluster \in clusters}
  <2>1. items' = [i \in Ids |-> IF Stored(i) /\ (i \in matched \/ items[i].cluster \in clusters)
                                THEN [items[i] EXCEPT !.read = TRUE] ELSE items[i]]
    BY DEF MarkRead
  <2> HIDE DEF matched, clusters
  <2>2. items' = [i \in Ids |-> IF Stored(i) /\ i \in marked
                                THEN [items[i] EXCEPT !.read = TRUE] ELSE items[i]]
    BY <2>1
  <2>3. marked \in SUBSET Ids
    OBVIOUS
  <2> HIDE DEF marked
  <2> QED
    BY <2>2, <2>3
<1>2. ASSUME NEW i \in Ids
      PROVE  \/ items'[i] = items[i]
             \/ Stored(i) /\ items'[i] = [items[i] EXCEPT !.read = TRUE]
  BY <1>1
<1>3. \A i \in Ids : items'[i] \in ItemRow \cup {None}
  BY <1>2, RowTyped, RowChange DEF TInv, LibraryTypeOK
<1> QED
  BY <1>1, <1>2, <1>3

LEMMA MarkReadType ==
  ASSUME TInv, NEW scope \in Scopes, MarkRead(scope) PROVE TInv'
<1>1. LibraryTypeOK'
  BY MarkReadRows DEF TInv, LibraryTypeOK, MarkRead
<1>2. \A j \in Ids : Stored(j)' => Stored(j) /\ items'[j].attempts = items[j].attempts
  BY MarkReadRows, RowTyped DEF TInv, Stored, ItemRow
<1>3. AskedHasAttempts'
  BY <1>2, AskedKept DEF MarkRead
<1> QED
  BY <1>1, <1>3 DEF TInv

LEMMA RestartType == ASSUME TInv, Restart PROVE TInv'
BY IdleTyped, NotAsked, LibraryAssumption DEF TInv, LibraryTypeOK, Restart
-----------------------------------------------------------------------------
LEMMA TypeStep == TInv /\ [Next]_libraryVars => TInv'
<1> SUFFICES ASSUME TInv, [Next]_libraryVars PROVE TInv'
  OBVIOUS
<1>1. CASE \E a \in Articles : Poll(a) \/ Age(a)
  BY <1>1, PollType, AgeType
<1>2. CASE \E f \in Feeds : Unsubscribe(f) \/ Subscribe(f)
  BY <1>2, UnsubscribeType, SubscribeType
<1>3. CASE EmbedStart \/ EmbedUnreachable \/ EmbedFailed \/ EmbedAnswered
  BY <1>3, EmbedStartType, EmbedUnreachableType, EmbedFailedType, EmbedAnsweredType
<1>4. CASE \E ref \in embedder.batch : EmbedStore(ref)
  BY <1>4, EmbedStoreType
<1>5. CASE EmbedScan \/ EmbedJoin
  BY <1>5, EmbedScanType, EmbedJoinType
<1>6. CASE \E g \in Generators : DigestStart(g) \/ DigestWrite(g) \/ DigestFail(g)
  BY <1>6, DigestStartType, DigestWriteType, DigestFailType
<1>7. CASE Prune
  BY <1>7, PruneType
<1>8. CASE \E i \in Ids, b \in BOOLEAN : SetRead(i, b) \/ SetStarred(i, b)
  BY <1>8, SetType
<1>9. CASE \E scope \in Scopes : MarkRead(scope)
  BY <1>9, MarkReadType
<1>10. CASE Restart
  BY <1>10, RestartType
<1>11. CASE UNCHANGED libraryVars
  BY <1>11 DEF libraryVars, TInv, LibraryTypeOK, AskedHasAttempts, Stored
<1> QED
  BY <1>1, <1>2, <1>3, <1>4, <1>5, <1>6, <1>7, <1>8, <1>9, <1>10, <1>11 DEF Next

\* Every state of the library is well formed; in particular no item is charged
\* more failed attempts than MAX_ATTEMPTS.
THEOREM LibraryTypes == Spec => []LibraryTypeOK
<1>1. TInv => LibraryTypeOK
  BY DEF TInv
<1> QED
  BY TypeInit, TypeStep, <1>1, PTL DEF Spec
-----------------------------------------------------------------------------
(* A collapsed list loses nothing while no item is deleted and no boot      *)
(* changes the embedding model.  (It needs both: LibraryCollapse.cfg shows  *)
(* what a deletion does, and a head that is embedded again with another     *)
(* model may join another cluster and leave its own behind.)                *)

NothingGoes == Deletable = {} /\ ~Retention
OneModel    == \A m, n \in Models : m = n

\* A cluster is one level deep: it is named by an item that is in it.
Flat ==
  \A i \in Ids : Stored(i) /\ items[i].cluster # 0 =>
    /\ Stored(items[i].cluster)
    /\ items[items[i].cluster].cluster = items[i].cluster

\* What has no vector is in no cluster.
OnlyEmbedded ==
  \A i \in Ids : Stored(i) /\ vector[i] = None => items[i].cluster = 0

\* The rest of the pass is as it was read, and still waits for its vectors.
BatchDue ==
  \A ref \in embedder.batch :
    /\ Stored(ref[1])
    /\ ref[2] = items[ref[1]].article
    /\ vector[ref[1]] = None

\* The item being clustered is in no cluster yet.
BeingClustered ==
  embedder.stage \in {"stored", "joining"} =>
    /\ embedder.id \in Ids
    /\ Stored(embedder.id)
    /\ vector[embedder.id] # None
    /\ items[embedder.id].cluster = 0

\* The cluster it is about to join has another item as its head, or will.
HeadReady ==
  embedder.stage = "joining" =>
    /\ embedder.head \in Ids \ {embedder.id}
    /\ Stored(embedder.head)
    /\ vector[embedder.head] # None
    /\ items[embedder.head].cluster \in {0, embedder.head}

ClusterInv == Flat /\ OnlyEmbedded /\ VectorOfItem
PassInv    == BatchDue /\ BeingClustered /\ HeadReady
CInv       == TInv /\ ClusterInv /\ PassInv

\* Items that arrive, and marks and counters that change, disturb no cluster.
\* The pass goes on, or is over.
LEMMA SameClusters ==
  ASSUME CInv, vector' = vector, embedder' \in {embedder, IdlePass},
         \A i \in Ids : Stored(i) => /\ Stored(i)'
                                     /\ items'[i].article = items[i].article
                                     /\ items'[i].cluster = items[i].cluster,
         \A i \in Ids : ~Stored(i) /\ Stored(i)' => items'[i].cluster = 0
  PROVE  (ClusterInv /\ PassInv)'
<1>1. \A i \in Ids : Stored(i) => items[i].cluster \in Ids \cup {0}
  BY RowTyped DEF CInv, TInv
<1>2. Flat'
  <2> SUFFICES ASSUME NEW i \in Ids, Stored(i)', items'[i].cluster # 0
               PROVE  /\ items'[items'[i].cluster] # None
                      /\ items'[items'[i].cluster].cluster = items'[i].cluster
    BY DEF Flat, Stored
  <2>1. Stored(i) /\ items'[i].cluster = items[i].cluster
    OBVIOUS
  <2>2. items[i].cluster \in Ids
    BY <1>1, <2>1
  <2> QED
    BY <2>1, <2>2 DEF CInv, ClusterInv, Flat, Stored
<1>3. OnlyEmbedded'
  BY DEF CInv, ClusterInv, OnlyEmbedded
<1>4. VectorOfItem'
  BY DEF CInv, ClusterInv, VectorOfItem
<1>5. CASE embedder' = embedder
  <2>1. BatchDue'
    <3> SUFFICES ASSUME NEW ref \in embedder.batch
                 PROVE  /\ Stored(ref[1])'
                        /\ ref[2] = items'[ref[1]].article
                        /\ vector[ref[1]] = None
      BY <1>5 DEF BatchDue
    <3>1. ref[1] \in Ids
      BY BatchTyped DEF CInv, TInv
    <3> QED
      BY <3>1 DEF CInv, PassInv, BatchDue
  <2>2. BeingClustered' /\ HeadReady'
    BY <1>5 DEF CInv, PassInv, BeingClustered, HeadReady
  <2> QED
    BY <1>2, <1>3, <1>4, <2>1, <2>2 DEF ClusterInv, PassInv
<1>6. CASE embedder' = IdlePass
  <2>1. PassInv'
    BY <1>6 DEF PassInv, BatchDue, BeingClustered, HeadReady, IdlePass
  <2> QED
    BY <1>2, <1>3, <1>4, <2>1 DEF ClusterInv
<1> QED
  BY <1>5, <1>6

LEMMA ClusterInit == Init => CInv
<1> SUFFICES ASSUME Init PROVE CInv
  OBVIOUS
<1>1. TInv
  BY TypeInit
<1>2. ClusterInv
  BY DEF Init, ClusterInv, Flat, OnlyEmbedded, VectorOfItem, Stored
<1>3. PassInv
  BY DEF Init, PassInv, BatchDue, BeingClustered, HeadReady, IdlePass
<1> QED
  BY <1>1, <1>2, <1>3 DEF CInv

LEMMA PollClusters ==
  ASSUME CInv, NEW a \in Articles, Poll(a) PROVE (ClusterInv /\ PassInv)'
<1>1. PICK i \in Ids : NextId(i) /\ items' = [items EXCEPT ![i] = NewItem(a)]
  BY DEF Poll
<1>2. items \in [Ids -> ItemRow \cup {None}]
  BY DEF CInv, TInv, LibraryTypeOK
<1>3. ~Stored(i)
  BY <1>1 DEF NextId, Ids
<1>4. NewItem(a).cluster = 0 /\ NewItem(a) # None
  BY NewItemTyped
<1>5. \A j \in Ids : Stored(j) => /\ Stored(j)'
                                  /\ items'[j].article = items[j].article
                                  /\ items'[j].cluster = items[j].cluster
  BY <1>1, <1>2, <1>3 DEF Stored
<1>6. \A j \in Ids : ~Stored(j) /\ Stored(j)' => items'[j].cluster = 0
  BY <1>1, <1>2, <1>4 DEF Stored
<1> QED
  BY <1>5, <1>6, SameClusters DEF Poll

LEMMA SetClusters ==
  ASSUME CInv, NEW i \in Ids, NEW b \in BOOLEAN, SetRead(i, b) \/ SetStarred(i, b)
  PROVE  (ClusterInv /\ PassInv)'
<1>1. items \in [Ids -> ItemRow \cup {None}] /\ items[i] \in ItemRow /\ Stored(i)
  BY RowTyped DEF CInv, TInv, LibraryTypeOK, SetRead, SetStarred
<1>2. PICK row \in ItemRow : /\ items' = [items EXCEPT ![i] = row]
                             /\ row.article = items[i].article
                             /\ row.cluster = items[i].cluster
  BY <1>1, RowChange DEF SetRead, SetStarred, ItemRow
<1>3. row # None
  BY LibraryNone
<1>4. \A j \in Ids : Stored(j) => /\ Stored(j)'
                                  /\ items'[j].article = items[j].article
                                  /\ items'[j].cluster = items[j].cluster
  BY <1>1, <1>2, <1>3 DEF Stored
<1>5. \A j \in Ids : ~Stored(j) /\ Stored(j)' => items'[j].cluster = 0
  BY <1>1, <1>2 DEF Stored
<1> QED
  BY <1>4, <1>5, SameClusters DEF SetRead, SetStarred

LEMMA MarkReadClusters ==
  ASSUME CInv, NEW scope \in Scopes, MarkRead(scope) PROVE (ClusterInv /\ PassInv)'
<1>1. \A j \in Ids : Stored(j) => /\ Stored(j)'
                                  /\ items'[j].article = items[j].article
                                  /\ items'[j].cluster = items[j].cluster
  <2> SUFFICES ASSUME NEW j \in Ids, Stored(j)
               PROVE  /\ Stored(j)'
                      /\ items'[j].article = items[j].article
                      /\ items'[j].cluster = items[j].cluster
    OBVIOUS
  <2>1. items[j] \in ItemRow
    BY RowTyped DEF CInv, TInv
  <2>2. items'[j] \in {items[j], [items[j] EXCEPT !.read = TRUE]}
    BY MarkReadRows DEF CInv
  <2>3. [items[j] EXCEPT !.read = TRUE] # None
    BY <2>1, RowChange, LibraryNone
  <2> QED
    BY <2>1, <2>2, <2>3 DEF Stored, ItemRow
<1>2. \A j \in Ids : ~Stored(j) => ~Stored(j)'
  BY MarkReadRows DEF CInv, Stored
<1> QED
  BY <1>1, <1>2, SameClusters DEF MarkRead
-----------------------------------------------------------------------------
\* The embedding worker reads, and gives a pass up.
LEMMA ReadClusters ==
  ASSUME CInv, UNCHANGED <<items, vector>>,
         embedder' = IdlePass \/ (embedder' = [embedder EXCEPT !.stage = "storing"])
  PROVE  (ClusterInv /\ PassInv)'
<1>1. ClusterInv'
  BY DEF CInv, ClusterInv, Flat, OnlyEmbedded, VectorOfItem, Stored
<1>2. PassInv'
  <2>1. CASE embedder' = IdlePass
    BY <2>1 DEF PassInv, BatchDue, BeingClustered, HeadReady, IdlePass
  <2>2. CASE embedder' = [embedder EXCEPT !.stage = "storing"]
    <3>1. embedder \in Pass
      BY DEF CInv, TInv, LibraryTypeOK
    <3>2. embedder'.stage = "storing" /\ embedder'.batch = embedder.batch
      BY <2>2, <3>1 DEF Pass
    <3> QED
      BY <3>2 DEF CInv, PassInv, BatchDue, BeingClustered, HeadReady, Stored
  <2> QED
    BY <2>1, <2>2
<1> QED
  BY <1>1, <1>2

LEMMA EmbedStartClusters ==
  ASSUME OneModel, CInv, EmbedStart PROVE (ClusterInv /\ PassInv)'
<1>1. PICK S \in SUBSET Due, dedupe \in DedupeSettings :
        embedder' = [IdlePass EXCEPT !.stage = "asked", !.dedupe = dedupe,
                                     !.batch = {RefTo(i) : i \in S}]
  BY DEF EmbedStart
<1>2. embedder'.stage = "asked" /\ embedder'.batch = {RefTo(i) : i \in S}
  BY <1>1 DEF IdlePass
<1>3. \A i \in Ids : vector[i] # None => vector[i].model \in Models
  BY DEF CInv, TInv, LibraryTypeOK, Vector
<1>4. model \in Models
  BY DEF CInv, TInv, LibraryTypeOK
<1>5. \A i \in S : i \in Ids /\ Stored(i) /\ vector[i] = None
  BY <1>3, <1>4 DEF Due, OneModel
<1>6. BatchDue'
  BY <1>2, <1>5 DEF BatchDue, RefTo, EmbedStart, Stored
<1>7. PassInv'
  BY <1>2, <1>6 DEF PassInv, BeingClustered, HeadReady
<1>8. ClusterInv'
  BY DEF CInv, ClusterInv, Flat, OnlyEmbedded, VectorOfItem, Stored, EmbedStart
<1> QED
  BY <1>7, <1>8

LEMMA EmbedFailedClusters == ASSUME CInv, EmbedFailed PROVE (ClusterInv /\ PassInv)'
<1>1. \A i \in Ids : Stored(i) => items[i] \in ItemRow
  BY RowTyped DEF CInv, TInv
<1>2. \A i \in Ids : items'[i] \in {items[i], [items[i] EXCEPT !.attempts = @ + 1]}
  BY DEF EmbedFailed
<1>3. \A i \in Ids : ~Stored(i) => items'[i] = items[i]
  BY DEF EmbedFailed
<1>4. \A i \in Ids : Stored(i) => /\ Stored(i)'
                                  /\ items'[i].article = items[i].article
                                  /\ items'[i].cluster = items[i].cluster
  <2> SUFFICES ASSUME NEW i \in Ids, Stored(i)
               PROVE  /\ items'[i] # None
                      /\ items'[i].article = items[i].article
                      /\ items'[i].cluster = items[i].cluster
    BY DEF Stored
  <2>1. items[i] \in ItemRow
    BY <1>1
  <2>2. CASE items'[i] = items[i]
    BY <2>2 DEF Stored
  <2>3. CASE items'[i] = [items[i] EXCEPT !.attempts = @ + 1]
    <3>1. items[i].attempts < MaxAttempts \/ items'[i] = items[i]
      BY BatchTyped DEF EmbedFailed, CInv, TInv, AskedHasAttempts
    <3>2. CASE items[i].attempts < MaxAttempts
      <4>1. items[i].attempts + 1 \in 0..MaxAttempts
        BY <2>1, <3>2, LibraryAssumption DEF ItemRow
      <4>2. [items[i] EXCEPT !.attempts = items[i].attempts + 1] \in ItemRow
        BY <2>1, <4>1, RowChange
      <4>3. items'[i] # None
        BY <2>3, <4>2, LibraryNone
      <4> QED
        BY <2>1, <2>3, <4>3 DEF ItemRow
    <3> QED
      BY <2>2, <3>1, <3>2
  <2> QED
    BY <1>2, <2>2, <2>3
<1>5. \A i \in Ids : ~Stored(i) => ~Stored(i)'
  BY <1>3 DEF Stored
<1> QED
  BY <1>4, <1>5, SameClusters DEF EmbedFailed
-----------------------------------------------------------------------------
\* An item of the batch gets its vector: it is in no cluster, and no other item
\* of the batch has its id.
LEMMA EmbedStoreClusters ==
  ASSUME CInv, NEW ref \in embedder.batch, EmbedStore(ref)
  PROVE  (ClusterInv /\ PassInv)'
<1> DEFINE id == ref[1]
           v  == [model |-> model, article |-> ref[2]]
<1>1. id \in Ids /\ ref[2] \in Articles
  BY BatchTyped DEF CInv, TInv
<1>2. Stored(id) /\ ref[2] = items[id].article /\ vector[id] = None
  BY DEF CInv, PassInv, BatchDue
<1>3. /\ vector' = [vector EXCEPT ![id] = v]
      /\ items' = [items EXCEPT ![id].attempts = 0]
      /\ embedder' = [embedder EXCEPT !.stage = "stored", !.id = id, !.batch = @ \ {ref}]
  BY <1>2 DEF EmbedStore
<1>4. items[id] \in ItemRow /\ items \in [Ids -> ItemRow \cup {None}]
  BY <1>1, <1>2, RowTyped DEF CInv, TInv, LibraryTypeOK
<1>5. /\ \A i \in Ids : Stored(i)' <=> Stored(i)
      /\ \A i \in Ids : Stored(i) => /\ items'[i].article = items[i].article
                                    /\ items'[i].cluster = items[i].cluster
  <2> DEFINE row == [items[id] EXCEPT !.attempts = 0]
  <2>1. row \in ItemRow
    BY <1>4, RowChange, LibraryAssumption
  <2>2. row # None
    BY <2>1, LibraryNone
  <2>3. row.article = items[id].article /\ row.cluster = items[id].cluster
    BY <1>4 DEF ItemRow
  <2>4. items'[id] = row /\ \A i \in Ids : i # id => items'[i] = items[i]
    BY <1>1, <1>3, <1>4
  <2> HIDE DEF row
  <2> QED
    BY <1>1, <1>2, <2>2, <2>3, <2>4 DEF Stored
<1>6. v # None /\ v.article = ref[2]
  <2>1. v \in Vector
    BY <1>1 DEF Vector, CInv, TInv, LibraryTypeOK
  <2> QED
    BY <2>1, LibraryNone
<1>7. vector'[id] = v /\ \A i \in Ids : i # id => vector'[i] = vector[i]
  BY <1>1, <1>3 DEF CInv, TInv, LibraryTypeOK
<1>8. /\ embedder'.stage = "stored" /\ embedder'.id = id
      /\ embedder'.batch = embedder.batch \ {ref}
  BY <1>3 DEF CInv, TInv, LibraryTypeOK, Pass
<1>9. items[id].cluster = 0
  BY <1>1, <1>2 DEF CInv, ClusterInv, OnlyEmbedded
<1> HIDE DEF id, v
<1>10. Flat'
  <2> SUFFICES ASSUME NEW i \in Ids, Stored(i)', items'[i].cluster # 0
               PROVE  /\ items'[items'[i].cluster] # None
                      /\ items'[items'[i].cluster].cluster = items'[i].cluster
    BY DEF Flat, Stored
  <2>1. Stored(i) /\ items'[i].cluster = items[i].cluster
    BY <1>5
  <2>2. items[i].cluster \in Ids
    BY <2>1, RowTyped DEF CInv, TInv
  <2>3. /\ Stored(items[i].cluster)
        /\ items[items[i].cluster].cluster = items[i].cluster
    BY <2>1 DEF CInv, ClusterInv, Flat
  <2> QED
    BY <1>5, <2>1, <2>2, <2>3 DEF Stored
<1>11. OnlyEmbedded'
  BY <1>5, <1>6, <1>7 DEF CInv, ClusterInv, OnlyEmbedded
<1>12. VectorOfItem'
  BY <1>1, <1>2, <1>5, <1>6, <1>7 DEF CInv, ClusterInv, VectorOfItem
<1>13. BatchDue'
  <2> SUFFICES ASSUME NEW other \in embedder.batch \ {ref}
               PROVE  /\ Stored(other[1])'
                      /\ other[2] = items'[other[1]].article
                      /\ vector'[other[1]] = None
    BY <1>8 DEF BatchDue
  <2>1. other[1] \in Ids
    BY BatchTyped DEF CInv, TInv
  <2>2. Stored(other[1]) /\ other[2] = items[other[1]].article /\ vector[other[1]] = None
    BY DEF CInv, PassInv, BatchDue
  <2>3. other[1] # id
    <3>1. other \in Ids \X Articles /\ ref \in Ids \X Articles
      BY BatchTyped DEF CInv, TInv, Ref
    <3> QED
      BY <1>2, <2>2, <3>1 DEF id
  <2> QED
    BY <1>5, <1>7, <2>1, <2>2, <2>3
<1>14. BeingClustered'
  BY <1>1, <1>2, <1>5, <1>6, <1>7, <1>8, <1>9 DEF BeingClustered
<1>15. HeadReady'
  BY <1>8 DEF HeadReady
<1> QED
  BY <1>10, <1>11, <1>12, <1>13, <1>14, <1>15 DEF ClusterInv, PassInv

\* The pass goes on with the rest of the batch, or is over.
LEMMA NextInPassClusters ==
  ASSUME CInv, embedder' = NextInPass,
         \A i \in Ids : Stored(i) => Stored(i)' /\ items'[i].article = items[i].article,
         vector' = vector
  PROVE  PassInv'
<1>1. NextInPass.stage \in {"idle", "storing"}
  BY NextInPassTyped DEF CInv, TInv
<1>2. NextInPass.batch \subseteq embedder.batch
  BY DEF NextInPass, IdlePass, CInv, TInv, LibraryTypeOK, Pass
<1>3. BatchDue'
  <2> SUFFICES ASSUME NEW ref \in embedder.batch
               PROVE  /\ Stored(ref[1])'
                      /\ ref[2] = items'[ref[1]].article
                      /\ vector[ref[1]] = None
    BY <1>2 DEF BatchDue
  <2>1. ref[1] \in Ids
    BY BatchTyped DEF CInv, TInv
  <2> QED
    BY <2>1 DEF CInv, PassInv, BatchDue
<1> QED
  BY <1>1, <1>3 DEF PassInv, BeingClustered, HeadReady

\* A neighbour is in no cluster, or in one whose head has a vector.
LEMMA EmbedScanClusters == ASSUME CInv, EmbedScan PROVE (ClusterInv /\ PassInv)'
<1>1. ClusterInv'
  BY DEF CInv, ClusterInv, Flat, OnlyEmbedded, VectorOfItem, Stored, EmbedScan
<1>2. CASE embedder' = NextInPass
  <2>1. PassInv'
    BY <1>2, NextInPassClusters DEF EmbedScan, Stored
  <2> QED
    BY <1>1, <2>1
<1>3. CASE \E j \in Neighbours(embedder.id) :
             embedder' = [embedder EXCEPT !.stage = "joining", !.head = HeadOf(j)]
  <2>1. PICK j \in Neighbours(embedder.id) :
          embedder' = [embedder EXCEPT !.stage = "joining", !.head = HeadOf(j)]
    BY <1>3
  <2>2. /\ embedder'.stage = "joining" /\ embedder'.head = HeadOf(j)
        /\ embedder'.id = embedder.id /\ embedder'.batch = embedder.batch
    BY <2>1 DEF CInv, TInv, LibraryTypeOK, Pass
  <2>3. embedder.id \in Ids /\ Stored(embedder.id) /\ vector[embedder.id] # None
        /\ items[embedder.id].cluster = 0
    BY DEF CInv, PassInv, BeingClustered, EmbedScan
  <2>4. j \in Ids \ {embedder.id} /\ Stored(j) /\ vector[j] # None
    BY DEF Neighbours
  <2>5. /\ HeadOf(j) \in Ids \ {embedder.id}
        /\ Stored(HeadOf(j))
        /\ vector[HeadOf(j)] # None
        /\ items[HeadOf(j)].cluster \in {0, HeadOf(j)}
    <3>1. CASE items[j].cluster = 0
      BY <2>4, <3>1 DEF HeadOf
    <3>2. CASE items[j].cluster # 0
      <4>1. HeadOf(j) = items[j].cluster /\ HeadOf(j) \in Ids
        BY <2>4, <3>2, RowTyped DEF HeadOf, CInv, TInv
      <4>2. Stored(HeadOf(j)) /\ items[HeadOf(j)].cluster = HeadOf(j)
        BY <2>4, <3>2, <4>1 DEF CInv, ClusterInv, Flat
      <4>3. items[HeadOf(j)].cluster # 0
        BY <3>2, <4>1, <4>2
      <4>4. vector[HeadOf(j)] # None
        BY <4>1, <4>2, <4>3 DEF CInv, ClusterInv, OnlyEmbedded
      <4> QED
        BY <2>3, <4>1, <4>2, <4>3, <4>4
    <3> QED
      BY <3>1, <3>2
  <2>6. PassInv'
    BY <2>2, <2>3, <2>5
    DEF CInv, PassInv, BatchDue, BeingClustered, HeadReady, EmbedScan, Stored
  <2> QED
    BY <1>1, <2>6
<1> QED
  BY <1>2, <1>3 DEF EmbedScan

\* Joining makes the head carry its own cluster, and the item the head's.
LEMMA JoinRows ==
  ASSUME CInv, EmbedJoin
  PROVE  /\ embedder.id \in Ids /\ Stored(embedder.id) /\ vector[embedder.id] # None
         /\ items[embedder.id].cluster = 0
         /\ embedder.head \in Ids /\ embedder.head # embedder.id
         /\ Stored(embedder.head) /\ vector[embedder.head] # None
         /\ items[embedder.head].cluster \in {0, embedder.head}
         /\ \A k \in Ids : Stored(k)' <=> Stored(k)
         /\ \A k \in Ids : Stored(k) =>
              /\ items'[k].article = items[k].article
              /\ items'[k].read = items[k].read
              /\ items'[k].cluster = IF k = embedder.id \/ k = embedder.head
                                     THEN embedder.head ELSE items[k].cluster
<1> DEFINE id == embedder.id
           head == embedder.head
           Row(k) == CASE Stored(k) /\ k = id -> [items[k] EXCEPT !.cluster = head]
                       [] Stored(k) /\ k = head /\ k # id /\ items[k].cluster = 0
                            -> [items[k] EXCEPT !.cluster = k]
                       [] OTHER -> items[k]
<1>1. items' = [k \in Ids |-> Row(k)]
  BY DEF EmbedJoin, JoinCluster
<1>2. /\ id \in Ids /\ Stored(id) /\ vector[id] # None /\ items[id].cluster = 0
      /\ head \in Ids /\ head # id /\ Stored(head) /\ vector[head] # None
      /\ items[head].cluster \in {0, head}
  BY DEF CInv, PassInv, BeingClustered, HeadReady, EmbedJoin
<1>3. ASSUME NEW k \in Ids, Stored(k)
      PROVE  /\ Row(k) # None
             /\ Row(k).article = items[k].article
             /\ Row(k).read = items[k].read
             /\ Row(k).cluster = IF k = id \/ k = head THEN head ELSE items[k].cluster
  <2>1. items[k] \in ItemRow
    BY <1>3, RowTyped DEF CInv, TInv
  <2>2. [items[k] EXCEPT !.cluster = head] \in ItemRow /\ [items[k] EXCEPT !.cluster = k] \in ItemRow
    BY <1>2, <2>1, RowChange
  <2>3. [items[k] EXCEPT !.cluster = head] # None /\ [items[k] EXCEPT !.cluster = k] # None
    BY <2>2, LibraryNone
  <2>4. CASE k = id
    BY <1>3, <2>1, <2>3, <2>4 DEF ItemRow
  <2>5. CASE k # id /\ k = head /\ items[k].cluster = 0
    BY <1>3, <2>1, <2>3, <2>5 DEF ItemRow
  <2>6. CASE k # id /\ ~(k = head /\ items[k].cluster = 0)
    <3>1. Row(k) = items[k]
      BY <2>6
    <3>2. k = head => items[k].cluster = head
      BY <1>2, <2>6
    <3> QED
      BY <1>3, <2>6, <3>1, <3>2 DEF Stored
  <2> QED
    BY <2>4, <2>5, <2>6
<1>4. \A k \in Ids : ~Stored(k) => Row(k) = items[k]
  OBVIOUS
<1> HIDE DEF Row
<1>5. \A k \in Ids : Stored(k)' <=> Stored(k)
  BY <1>1, <1>3, <1>4 DEF Stored
<1>6. \A k \in Ids : Stored(k) =>
        /\ items'[k].article = items[k].article
        /\ items'[k].read = items[k].read
        /\ items'[k].cluster = IF k = id \/ k = head THEN head ELSE items[k].cluster
  BY <1>1, <1>3
<1> QED
  BY <1>2, <1>5, <1>6

LEMMA EmbedJoinClusters == ASSUME CInv, EmbedJoin PROVE (ClusterInv /\ PassInv)'
<1> DEFINE id == embedder.id
           head == embedder.head
<1>2. /\ id \in Ids /\ Stored(id) /\ vector[id] # None /\ items[id].cluster = 0
      /\ head \in Ids /\ head # id /\ Stored(head) /\ vector[head] # None
      /\ items[head].cluster \in {0, head}
  BY JoinRows
<1>5. \A k \in Ids : Stored(k)' <=> Stored(k)
  BY JoinRows
<1>6. \A k \in Ids : Stored(k) =>
        /\ items'[k].article = items[k].article
        /\ items'[k].cluster = IF k = id \/ k = head THEN head ELSE items[k].cluster
  BY JoinRows
<1>7. vector' = vector /\ embedder' = NextInPass
  BY DEF EmbedJoin
<1> HIDE DEF id, head
<1>8. Flat'
  <2> SUFFICES ASSUME NEW k \in Ids, Stored(k), items'[k].cluster # 0
               PROVE  /\ items'[items'[k].cluster] # None
                      /\ items'[items'[k].cluster].cluster = items'[k].cluster
    BY <1>5 DEF Flat, Stored
  <2>1. CASE k = id \/ k = head
    BY <1>2, <1>5, <1>6, <2>1 DEF Stored
  <2>2. CASE ~(k = id \/ k = head)
    <3>1. items'[k].cluster = items[k].cluster
      BY <1>6, <2>2
    <3>2. items[k].cluster \in Ids
      BY <3>1, RowTyped DEF CInv, TInv
    <3>3. Stored(items[k].cluster) /\ items[items[k].cluster].cluster = items[k].cluster
      BY <3>1 DEF CInv, ClusterInv, Flat
    <3>4. items[k].cluster # id
      BY <1>2, <3>1, <3>3
    <3> QED
      BY <1>5, <1>6, <3>1, <3>2, <3>3, <3>4 DEF Stored
  <2> QED
    BY <2>1, <2>2
<1>9. OnlyEmbedded'
  BY <1>2, <1>5, <1>6, <1>7 DEF CInv, ClusterInv, OnlyEmbedded
<1>10. VectorOfItem'
  BY <1>5, <1>6, <1>7 DEF CInv, ClusterInv, VectorOfItem
<1>11. PassInv'
  BY <1>5, <1>6, <1>7, NextInPassClusters
<1> QED
  BY <1>8, <1>9, <1>10, <1>11 DEF ClusterInv
-----------------------------------------------------------------------------
LEMMA ClusterStep ==
  ASSUME NothingGoes, OneModel PROVE CInv /\ [Next]_libraryVars => CInv'
<1> SUFFICES ASSUME CInv, [Next]_libraryVars PROVE (ClusterInv /\ PassInv)'
  BY TypeStep DEF CInv
<1>1. CASE \E a \in Articles : Poll(a)
  BY <1>1, PollClusters
<1>2. CASE UNCHANGED <<items, vector, embedder>>
  BY <1>2, SameClusters DEF Stored
<1>3. CASE \E f \in Feeds : Unsubscribe(f)
  BY <1>3 DEF NothingGoes, Unsubscribe
<1>4. CASE Prune
  BY <1>4 DEF NothingGoes, Prune
<1>5. CASE EmbedStart
  BY <1>5, EmbedStartClusters
<1>6. CASE EmbedUnreachable \/ EmbedAnswered
  BY <1>6, ReadClusters DEF EmbedUnreachable, EmbedAnswered
<1>7. CASE EmbedFailed
  BY <1>7, EmbedFailedClusters
<1>8. CASE \E ref \in embedder.batch : EmbedStore(ref)
  BY <1>8, EmbedStoreClusters
<1>9. CASE EmbedScan
  BY <1>9, EmbedScanClusters
<1>10. CASE EmbedJoin
  BY <1>10, EmbedJoinClusters
<1>11. CASE \E i \in Ids, b \in BOOLEAN : SetRead(i, b) \/ SetStarred(i, b)
  BY <1>11, SetClusters
<1>12. CASE \E scope \in Scopes : MarkRead(scope)
  BY <1>12, MarkReadClusters
<1>13. CASE Restart
  BY <1>13, ReadClusters DEF Restart
<1>14. ASSUME Next
       PROVE  \/ \E a \in Articles : Poll(a)
              \/ UNCHANGED <<items, vector, embedder>>
              \/ \E f \in Feeds : Unsubscribe(f)
              \/ Prune \/ EmbedStart \/ EmbedUnreachable \/ EmbedAnswered \/ EmbedFailed
              \/ \E ref \in embedder.batch : EmbedStore(ref)
              \/ EmbedScan \/ EmbedJoin
              \/ \E i \in Ids, b \in BOOLEAN : SetRead(i, b) \/ SetStarred(i, b)
              \/ \E scope \in Scopes : MarkRead(scope)
              \/ Restart
  BY <1>14 DEF Next, Age, Subscribe, DigestStart, DigestWrite, DigestFail
<1>15. CASE UNCHANGED libraryVars
  BY <1>2, <1>15 DEF libraryVars
<1> QED
  BY <1>1, <1>2, <1>3, <1>4, <1>5, <1>6, <1>7, <1>8, <1>9, <1>10, <1>11, <1>12, <1>13,
     <1>14, <1>15

\* While nothing is deleted and the embedding model stays, every item that is
\* not listed is in the cluster of one that is, however reports arrive and are
\* clustered, marked, charged and cut off by restarts.
THEOREM CollapseLosesNothing ==
  ASSUME NothingGoes, OneModel
  PROVE  Spec => []ListLosesNothing
<1>1. CInv => ListLosesNothing
  <2> SUFFICES ASSUME CInv, NEW i \in Ids, Stored(i), ~Listed(i)
               PROVE  \E h \in Ids : h = items[i].cluster /\ Listed(h) /\ items[h].cluster = h
    BY DEF ListLosesNothing
  <2>1. items[i].cluster \in Ids /\ items[i].cluster # 0
    BY RowTyped DEF CInv, TInv, Listed
  <2>2. /\ Stored(items[i].cluster)
        /\ items[items[i].cluster].cluster = items[i].cluster
    BY <2>1 DEF CInv, ClusterInv, Flat
  <2> QED
    BY <2>1, <2>2 DEF Listed
<1> QED
  BY ClusterInit, ClusterStep, <1>1, PTL DEF Spec

\* Under the same conditions every vector is of the text of its own item.
THEOREM VectorsMatch ==
  ASSUME NothingGoes, OneModel
  PROVE  Spec => []VectorOfItem
<1>1. CInv => VectorOfItem
  BY DEF CInv, ClusterInv
<1> QED
  BY ClusterInit, ClusterStep, <1>1, PTL DEF Spec
-----------------------------------------------------------------------------
(* What a digest links to, whatever is deleted and whichever model boots.    *)

LEMMA RowNotNone == ASSUME NEW r \in ItemRow PROVE r # None
BY LibraryNone

\* Only retention and unsubscribing delete rows.
LEMMA RowsSurvive ==
  ASSUME TInv, [Next]_libraryVars, ~Prune, subscribed' = subscribed,
         NEW i \in Ids, Stored(i)
  PROVE  items'[i] # None
<1>1. /\ items \in [Ids -> ItemRow \cup {None}] /\ items[i] \in ItemRow
      /\ items[i].attempts \in 0..MaxAttempts /\ items[i] # None
  BY RowTyped DEF TInv, LibraryTypeOK, Stored
<1>2. CASE items' = items
  BY <1>1, <1>2
<1>3. CASE \E a \in Articles : Poll(a)
  <2>1. PICK a \in Articles, j \in Ids : items' = [items EXCEPT ![j] = NewItem(a)]
    BY <1>3 DEF Poll
  <2> QED
    BY <1>1, <2>1, NewItemTyped
<1>4. CASE \E f \in Feeds : Unsubscribe(f)
  BY <1>4 DEF Unsubscribe
<1>5. CASE EmbedFailed
  <2>1. items'[i] = items[i] \/ items'[i] = [items[i] EXCEPT !.attempts = items[i].attempts + 1]
    BY <1>5 DEF EmbedFailed
  <2>2. (\E ref \in embedder.batch : ref[1] = i) => items[i].attempts + 1 \in 0..MaxAttempts
    BY <1>1, <1>5, LibraryAssumption DEF TInv, AskedHasAttempts, EmbedFailed
  <2>3. CASE \E ref \in embedder.batch : ref[1] = i
    BY <1>1, <2>1, <2>2, <2>3, RowChange, RowNotNone
  <2>4. CASE ~\E ref \in embedder.batch : ref[1] = i
    BY <1>1, <1>5, <2>4 DEF EmbedFailed
  <2> QED
    BY <2>3, <2>4
<1>6. CASE \E ref \in embedder.batch : EmbedStore(ref)
  <2>1. PICK ref \in embedder.batch : EmbedStore(ref)
    BY <1>6
  <2>2. items' = items \/ items' = [items EXCEPT ![ref[1]] = [items[ref[1]] EXCEPT !.attempts = 0]]
    BY <2>1 DEF EmbedStore
  <2>3. 0 \in 0..MaxAttempts
    BY LibraryAssumption
  <2>4. [items[i] EXCEPT !.attempts = 0] # None
    BY <1>1, <2>3, RowChange, RowNotNone
  <2> QED
    BY <1>1, <2>2, <2>4
<1>7. CASE EmbedJoin
  <2>1. \/ items'[i] = items[i]
        \/ items'[i] = [items[i] EXCEPT !.cluster = embedder.head]
        \/ items'[i] = [items[i] EXCEPT !.cluster = i]
    BY <1>7 DEF EmbedJoin, JoinCluster
  <2>2. embedder.head \in Ids \cup {0}
    BY DEF TInv, LibraryTypeOK, Pass
  <2> QED
    BY <1>1, <2>1, <2>2, RowChange, RowNotNone
<1>8. CASE \E j \in Ids, b \in BOOLEAN : SetRead(j, b) \/ SetStarred(j, b)
  <2>1. PICK j \in Ids, b \in BOOLEAN : SetRead(j, b) \/ SetStarred(j, b)
    BY <1>8
  <2>2. \/ items'[i] = items[i]
        \/ items'[i] = [items[i] EXCEPT !.read = b]
        \/ items'[i] = [items[i] EXCEPT !.starred = b]
    BY <1>1, <2>1 DEF SetRead, SetStarred
  <2> QED
    BY <1>1, <2>2, RowChange, RowNotNone
<1>9. CASE \E scope \in Scopes : MarkRead(scope)
  BY <1>1, <1>9, MarkReadRows, RowChange, RowNotNone
<1> QED
  BY <1>2, <1>3, <1>4, <1>5, <1>6, <1>7, <1>8, <1>9
     DEF Next, libraryVars, Age, Subscribe, EmbedStart, EmbedUnreachable, EmbedAnswered,
         EmbedScan, DigestStart, DigestWrite, DigestFail, Restart

\* store.rs, prune_items: a link of a stored digest that leads somewhere keeps
\* doing so until the digest is written again or a feed is given up.
THEOREM DigestLinksStay == Spec => LinksStay
<1>1. TInv /\ [Next]_libraryVars =>
        [digest # None /\ digest' = digest /\ subscribed' = subscribed =>
           \A ref \in digest : Stored(ref[1]) => items'[ref[1]] # None]_libraryVars
  <2> SUFFICES ASSUME TInv, [Next]_libraryVars, digest # None, subscribed' = subscribed,
                      NEW ref \in digest, Stored(ref[1])
               PROVE  items'[ref[1]] # None
    OBVIOUS
  <2>1. ref[1] \in Ids
    BY DEF TInv, LibraryTypeOK, Ref
  <2>2. CASE Prune
    BY <2>1, <2>2 DEF Prune, Prunable, ReferredTo, Remove, Stored
  <2> QED
    BY <2>1, <2>2, RowsSurvive
<1>2. Init => TInv
  BY TypeInit
<1> QED
  BY <1>1, <1>2, TypeStep, PTL DEF Spec, LinksStay

-----------------------------------------------------------------------------
(* Under the same conditions the clusters are the stories of Stories.tla.    *)

\* What the reader of the lists sees of the rows.
SameStory(i) ==
  /\ Stored(i)' <=> Stored(i)
  /\ Stored(i) => items'[i].cluster = items[i].cluster
SameMark(i) ==
  /\ Stored(i)' <=> Stored(i)
  /\ Stored(i) => items'[i].read = items[i].read

StoriesGoal == [Story!Next]_(Story!storiesVars)

LEMMA ShelfSame ==
  ASSUME \A i \in Ids : SameStory(i)
  PROVE  [i \in Ids |-> StoryOf(i)]' = [i \in Ids |-> StoryOf(i)]
<1>1. \A i \in Ids : StoryOf(i)' = StoryOf(i)
  BY DEF SameStory, StoryOf
<1> QED
  BY <1>1

LEMMA ReadSame ==
  ASSUME \A i \in Ids : SameMark(i)
  PROVE  {i \in Ids : Stored(i) /\ items[i].read}' = {i \in Ids : Stored(i) /\ items[i].read}
BY DEF SameMark

LEMMA StoriesStutter ==
  ASSUME \A i \in Ids : SameStory(i) /\ SameMark(i) PROVE StoriesGoal
BY ShelfSame, ReadSame DEF StoriesGoal, Story!storiesVars

\* Every stored item stands under an item.
LEMMA StoryTyped ==
  ASSUME TInv, NEW i \in Ids, Stored(i)
  PROVE  StoryOf(i) \in Ids /\ StoryOf(i) # None
<1>1. StoryOf(i) \in Ids
  BY RowTyped DEF TInv, StoryOf
<1> QED
  BY <1>1, LibraryNone

LEMMA StoriesInit == Init => Story!Init
BY DEF Init, Story!Init, StoryOf, Stored

LEMMA StoriesPoll ==
  ASSUME CInv, NEW a \in Articles, Poll(a) PROVE StoriesGoal
<1>1. PICK i \in Ids : NextId(i) /\ items' = [items EXCEPT ![i] = NewItem(a)]
  BY DEF Poll
<1>2. ~Stored(i)
  BY <1>1 DEF NextId, Ids
<1>3. /\ items'[i] = NewItem(a)
      /\ \A j \in Ids : j # i => items'[j] = items[j]
  BY <1>1 DEF CInv, TInv, LibraryTypeOK
<1>4. NewItem(a).cluster = 0 /\ NewItem(a).read = FALSE /\ NewItem(a) # None
  BY NewItemTyped DEF NewItem
<1>5. StoryOf(i) = None /\ StoryOf(i)' = i
  BY <1>2, <1>3, <1>4 DEF StoryOf, Stored
<1>6. \A j \in Ids : j # i => StoryOf(j)' = StoryOf(j)
  BY <1>3 DEF StoryOf, Stored
<1>7. [j \in Ids |-> StoryOf(j)]' = [[j \in Ids |-> StoryOf(j)] EXCEPT ![i] = i]
  BY <1>5, <1>6
<1>8. \A j \in Ids : (Stored(j) /\ items[j].read)' <=> Stored(j) /\ items[j].read
  BY <1>2, <1>3, <1>4 DEF Stored
<1>9. Story!Arrive(i)
  BY <1>5, <1>7, <1>8 DEF Story!Arrive
<1> QED
  BY <1>9 DEF StoriesGoal, Story!Next

LEMMA StoriesMark ==
  ASSUME CInv, NEW i \in Ids, NEW b \in BOOLEAN, SetRead(i, b) PROVE StoriesGoal
<1>1. Stored(i) /\ items[i] \in ItemRow
  BY RowTyped DEF CInv, TInv, SetRead
<1>2. /\ items'[i] = [items[i] EXCEPT !.read = b]
      /\ \A j \in Ids : j # i => items'[j] = items[j]
  BY DEF CInv, TInv, LibraryTypeOK, SetRead
<1>3. items'[i] # None /\ items'[i].cluster = items[i].cluster /\ items'[i].read = b
  BY <1>1, <1>2, RowChange, LibraryNone DEF ItemRow
<1>4. \A j \in Ids : SameStory(j)
  BY <1>1, <1>2, <1>3 DEF SameStory, Stored
<1>5. \A j \in Ids : j # i => SameMark(j)
  BY <1>2 DEF SameMark, Stored
<1>6. {j \in Ids : Stored(j) /\ items[j].read}' \in
        {{j \in Ids : Stored(j) /\ items[j].read} \cup {i},
         {j \in Ids : Stored(j) /\ items[j].read} \ {i}}
  <2>1. CASE b
    <3>1. (Stored(i) /\ items[i].read)'
      BY <1>3, <2>1 DEF Stored
    <3>2. {j \in Ids : Stored(j) /\ items[j].read}' =
            {j \in Ids : Stored(j) /\ items[j].read} \cup {i}
      BY <1>5, <3>1 DEF SameMark
    <3> QED
      BY <3>2
  <2>2. CASE ~b
    <3>1. ~(Stored(i) /\ items[i].read)'
      BY <1>3, <2>2
    <3>2. {j \in Ids : Stored(j) /\ items[j].read}' =
            {j \in Ids : Stored(j) /\ items[j].read} \ {i}
      BY <1>5, <3>1 DEF SameMark
    <3> QED
      BY <3>2
  <2> QED
    BY <2>1, <2>2
<1>7. [j \in Ids |-> StoryOf(j)][i] # None
  BY <1>1, StoryTyped DEF CInv
<1>8. Story!Mark(i)
  BY <1>4, <1>6, <1>7, ShelfSame DEF Story!Mark
<1> QED
  BY <1>8 DEF StoriesGoal, Story!Next

LEMMA StoriesStar ==
  ASSUME CInv, NEW i \in Ids, NEW b \in BOOLEAN, SetStarred(i, b) PROVE StoriesGoal
<1>1. Stored(i) /\ items[i] \in ItemRow
  BY RowTyped DEF CInv, TInv, SetStarred
<1>2. /\ items'[i] = [items[i] EXCEPT !.starred = b]
      /\ \A j \in Ids : j # i => items'[j] = items[j]
  BY DEF CInv, TInv, LibraryTypeOK, SetStarred
<1>3. /\ items'[i] # None /\ items'[i].cluster = items[i].cluster
      /\ items'[i].read = items[i].read
  BY <1>1, <1>2, RowChange, LibraryNone DEF ItemRow
<1>4. \A j \in Ids : SameStory(j) /\ SameMark(j)
  BY <1>1, <1>2, <1>3 DEF SameStory, SameMark, Stored
<1> QED
  BY <1>4, StoriesStutter

\* A charge, or a counter that is set back, shows in no list.
LEMMA StoriesCount ==
  ASSUME CInv,
         \A i \in Ids : \/ items'[i] = items[i]
                        \/ /\ Stored(i)
                           /\ \E n \in 0..MaxAttempts :
                                items'[i] = [items[i] EXCEPT !.attempts = n]
  PROVE  StoriesGoal
<1>1. ASSUME NEW i \in Ids PROVE SameStory(i) /\ SameMark(i)
  <2>1. CASE items'[i] = items[i]
    BY <2>1 DEF SameStory, SameMark, Stored
  <2>2. CASE Stored(i) /\ \E n \in 0..MaxAttempts :
                            items'[i] = [items[i] EXCEPT !.attempts = n]
    <3>1. PICK n \in 0..MaxAttempts : items'[i] = [items[i] EXCEPT !.attempts = n]
      BY <2>2
    <3>2. items[i] \in ItemRow
      BY <2>2, RowTyped DEF CInv, TInv
    <3>3. /\ items'[i] # None /\ items'[i].cluster = items[i].cluster
          /\ items'[i].read = items[i].read
      BY <3>1, <3>2, RowChange, LibraryNone DEF ItemRow
    <3> QED
      BY <2>2, <3>3 DEF SameStory, SameMark, Stored
  <2> QED
    BY <1>1, <2>1, <2>2
<1> QED
  BY <1>1, StoriesStutter

LEMMA StoriesFailed == ASSUME CInv, EmbedFailed PROVE StoriesGoal
<1>1. ASSUME NEW i \in Ids
      PROVE  \/ items'[i] = items[i]
             \/ /\ Stored(i)
                /\ \E n \in 0..MaxAttempts : items'[i] = [items[i] EXCEPT !.attempts = n]
  <2>1. CASE Stored(i) /\ \E ref \in embedder.batch : ref[1] = i
    <3>1. items[i].attempts \in 0..MaxAttempts
      BY <2>1, RowTyped DEF CInv, TInv
    <3>2. items[i].attempts < MaxAttempts
      BY <2>1 DEF CInv, TInv, AskedHasAttempts, EmbedFailed
    <3>3. items[i].attempts + 1 \in 0..MaxAttempts
      BY <3>1, <3>2, LibraryAssumption
    <3>4. items'[i] = [items[i] EXCEPT !.attempts = items[i].attempts + 1]
      BY <2>1 DEF EmbedFailed
    <3> QED
      BY <2>1, <3>3, <3>4
  <2>2. CASE ~(Stored(i) /\ \E ref \in embedder.batch : ref[1] = i)
    BY <2>2 DEF EmbedFailed
  <2> QED
    BY <2>1, <2>2
<1> QED
  BY <1>1, StoriesCount

LEMMA StoriesStore ==
  ASSUME CInv, NEW ref \in embedder.batch, EmbedStore(ref) PROVE StoriesGoal
<1>1. ref[1] \in Ids /\ Stored(ref[1])
  BY BatchTyped DEF CInv, TInv, PassInv, BatchDue
<1>2. items' = [items EXCEPT ![ref[1]].attempts = 0]
  BY <1>1 DEF EmbedStore
<1>3. 0 \in 0..MaxAttempts
  BY LibraryAssumption
<1>4. /\ items'[ref[1]] = [items[ref[1]] EXCEPT !.attempts = 0]
      /\ \A j \in Ids : j # ref[1] => items'[j] = items[j]
  BY <1>1, <1>2 DEF CInv, TInv, LibraryTypeOK
<1> QED
  BY <1>1, <1>3, <1>4, StoriesCount

\* What joins has been alone, and joins an item that names its own story.
LEMMA StoriesJoin == ASSUME CInv, EmbedJoin PROVE StoriesGoal
<1> DEFINE id == embedder.id
           head == embedder.head
           shelf == [i \in Ids |-> StoryOf(i)]
<1>1. /\ id \in Ids /\ Stored(id) /\ items[id].cluster = 0
      /\ head \in Ids /\ head # id /\ Stored(head)
      /\ items[head].cluster \in {0, head}
  BY JoinRows
<1>2. \A k \in Ids : Stored(k)' <=> Stored(k)
  BY JoinRows
<1>3. \A k \in Ids : Stored(k) =>
        /\ items'[k].read = items[k].read
        /\ items'[k].cluster = IF k = id \/ k = head THEN head ELSE items[k].cluster
  BY JoinRows
<1>4. StoryOf(id) = id /\ StoryOf(head) = head
  BY <1>1 DEF StoryOf
<1>5. \A j \in Ids : StoryOf(j) = id => j = id
  <2> SUFFICES ASSUME NEW j \in Ids, StoryOf(j) = id, j # id PROVE FALSE
    OBVIOUS
  <2>1. Stored(j) /\ items[j].cluster = id /\ id # 0
    BY <1>1, LibraryNone DEF StoryOf, Ids
  <2>2. items[id].cluster = id
    BY <2>1 DEF CInv, ClusterInv, Flat
  <2> QED
    BY <1>1, <2>1, <2>2
<1>6. id # 0 /\ head # 0
  BY <1>1 DEF Ids
<1>7. ASSUME NEW k \in Ids PROVE StoryOf(k)' = IF k = id THEN head ELSE StoryOf(k)
  <2>1. CASE ~Stored(k)
    BY <1>1, <1>2, <2>1 DEF StoryOf
  <2>2. CASE Stored(k) /\ (k = id \/ k = head)
    BY <1>2, <1>3, <1>4, <1>6, <2>2 DEF StoryOf
  <2>3. CASE Stored(k) /\ ~(k = id \/ k = head)
    BY <1>2, <1>3, <2>3 DEF StoryOf
  <2> QED
    BY <2>1, <2>2, <2>3
<1>8. shelf' = [shelf EXCEPT ![id] = head]
  BY <1>7
<1>9. {i \in Ids : Stored(i) /\ items[i].read}' = {i \in Ids : Stored(i) /\ items[i].read}
  BY <1>2, <1>3, ReadSame DEF SameMark
<1>10. Story!Alone(id) /\ head \in Story!Told \ {id}
  BY <1>1, <1>4, <1>5 DEF Story!Alone, Story!Told
<1>11. Story!Gather(id, head)
  BY <1>8, <1>9, <1>10 DEF Story!Gather
<1> QED
  BY <1>1, <1>11 DEF StoriesGoal, Story!Next

\* An item that stands alone is no cluster's head, so the rest of the clusters of
\* what matches is the rest of its stories.
LEMMA StoriesMarkRead ==
  ASSUME CInv, NEW scope \in Scopes, MarkRead(scope) PROVE StoriesGoal
<1> DEFINE matched  == {i \in Ids : /\ Stored(i)
                                    /\ ~items[i].read
                                    /\ FeedOf[items[i].article] \in scope}
           clusters == {items[i].cluster : i \in matched} \ {0}
           marked(i) == Stored(i) /\ (i \in matched \/ items[i].cluster \in clusters)
           shelf    == [i \in Ids |-> StoryOf(i)]
           read     == {i \in Ids : Stored(i) /\ items[i].read}
           stories  == {StoryOf(i) : i \in matched}
<1>1. items' = [i \in Ids |-> IF marked(i) THEN [items[i] EXCEPT !.read = TRUE] ELSE items[i]]
  BY DEF MarkRead
<1>2. \A i \in matched : i \in Ids /\ Stored(i)
  OBVIOUS
<1>3. clusters = {items[i].cluster : i \in matched} \ {0}
  OBVIOUS
<1>4. \A i \in Ids : marked(i) => Stored(i)
  OBVIOUS
<1>5. \A i \in Ids : marked(i) <=> Stored(i) /\ (i \in matched \/ items[i].cluster \in clusters)
  OBVIOUS
<1> HIDE DEF matched, clusters, marked
<1>6. ASSUME NEW i \in Ids
      PROVE  /\ SameStory(i)
             /\ Stored(i)' <=> Stored(i)
             /\ Stored(i) => items'[i].read = (marked(i) \/ items[i].read)
  <2>1. CASE ~Stored(i)
    BY <1>1, <1>4, <2>1 DEF SameStory, Stored
  <2>2. CASE Stored(i)
    <3>1. items[i] \in ItemRow
      BY <2>2, RowTyped DEF CInv, TInv
    <3>2. CASE marked(i)
      <4>1. items'[i] = [items[i] EXCEPT !.read = TRUE]
        BY <1>1, <3>2
      <4>2. [items[i] EXCEPT !.read = TRUE] # None
        BY <3>1, RowChange, LibraryNone
      <4>3. items'[i].cluster = items[i].cluster /\ items'[i].read = TRUE
        BY <3>1, <4>1 DEF ItemRow
      <4> QED
        BY <2>2, <3>2, <4>1, <4>2, <4>3 DEF SameStory, Stored
    <3>3. CASE ~marked(i)
      <4>1. items'[i] = items[i]
        BY <1>1, <3>3
      <4>2. items[i].read \in BOOLEAN
        BY <3>1 DEF ItemRow
      <4> QED
        BY <2>2, <3>3, <4>1, <4>2 DEF SameStory, Stored
    <3> QED
      BY <3>2, <3>3
  <2> QED
    BY <2>1, <2>2
<1>7. \A i \in Ids : Stored(i) =>
        \/ items[i].cluster = 0 /\ StoryOf(i) = i
        \/ /\ items[i].cluster # 0 /\ StoryOf(i) = items[i].cluster
           /\ StoryOf(i) \in Ids /\ Stored(StoryOf(i))
           /\ items[StoryOf(i)].cluster = items[i].cluster
  BY RowTyped DEF CInv, TInv, ClusterInv, Flat, StoryOf
<1>8. ASSUME NEW i \in Ids PROVE marked(i) <=> StoryOf(i) \in stories
  <2>1. ASSUME marked(i) PROVE StoryOf(i) \in stories
    <3>1. CASE i \in matched
      BY <3>1
    <3>2. CASE items[i].cluster \in clusters
      <4>1. PICK m \in matched : items[m].cluster = items[i].cluster
        BY <1>3, <3>2
      <4>2. items[i].cluster # 0
        BY <1>3, <3>2
      <4>3. StoryOf(m) = StoryOf(i)
        BY <1>2, <1>4, <1>7, <2>1, <4>1, <4>2
      <4> QED
        BY <4>3
    <3> QED
      BY <1>5, <2>1, <3>1, <3>2
  <2>2. ASSUME StoryOf(i) \in stories PROVE marked(i)
    <3>1. PICK m \in matched : StoryOf(i) = StoryOf(m)
      BY <2>2
    <3>2. m \in Ids /\ Stored(m)
      BY <1>2
    <3>3. Stored(i)
      BY <3>1, <3>2, StoryTyped DEF CInv, StoryOf
    <3>4. CASE items[m].cluster = 0
      BY <1>5, <1>7, <3>1, <3>2, <3>3, <3>4
    <3>5. CASE items[m].cluster # 0
      <4>1. items[i].cluster = items[m].cluster
        BY <1>7, <3>1, <3>2, <3>3, <3>5
      <4> QED
        BY <1>3, <1>5, <3>3, <3>5, <4>1
    <3> QED
      BY <3>4, <3>5
  <2> QED
    BY <2>1, <2>2
<1>9. stories \in SUBSET Story!Told
  <2> SUFFICES ASSUME NEW m \in matched
               PROVE  StoryOf(m) \in Ids /\ shelf[StoryOf(m)] = StoryOf(m)
    BY DEF Story!Told
  <2>1. m \in Ids /\ Stored(m)
    BY <1>2
  <2> QED
    BY <1>7, <2>1
<1>10. read' = read \cup {i \in Ids : shelf[i] \in stories}
  <2>1. \A i \in Ids : (Stored(i) /\ items[i].read)' <=>
          (Stored(i) /\ items[i].read) \/ StoryOf(i) \in stories
    BY <1>4, <1>6, <1>8
  <2> HIDE DEF stories
  <2> QED
    BY <2>1
<1>11. Story!MarkStories
  BY <1>6, <1>9, <1>10, ShelfSame DEF Story!MarkStories
<1> QED
  BY <1>11 DEF StoriesGoal, Story!Next

LEMMA StoriesNext ==
  ASSUME NothingGoes PROVE CInv /\ [Next]_libraryVars => StoriesGoal
<1> SUFFICES ASSUME CInv, [Next]_libraryVars PROVE StoriesGoal
  OBVIOUS
<1>1. CASE \E a \in Articles : Poll(a)
  BY <1>1, StoriesPoll
<1>2. CASE items' = items
  BY <1>2, StoriesStutter DEF SameStory, SameMark, Stored
<1>3. CASE \E f \in Feeds : Unsubscribe(f)
  BY <1>3 DEF NothingGoes, Unsubscribe
<1>4. CASE Prune
  BY <1>4 DEF NothingGoes, Prune
<1>5. CASE EmbedFailed
  BY <1>5, StoriesFailed
<1>6. CASE \E ref \in embedder.batch : EmbedStore(ref)
  BY <1>6, StoriesStore
<1>7. CASE EmbedJoin
  BY <1>7, StoriesJoin
<1>8. CASE \E i \in Ids, b \in BOOLEAN : SetRead(i, b) \/ SetStarred(i, b)
  BY <1>8, StoriesMark, StoriesStar
<1>9. CASE \E scope \in Scopes : MarkRead(scope)
  BY <1>9, StoriesMarkRead
<1>10. ASSUME Next
       PROVE  \/ \E a \in Articles : Poll(a)
              \/ items' = items
              \/ \E f \in Feeds : Unsubscribe(f)
              \/ Prune \/ EmbedFailed
              \/ \E ref \in embedder.batch : EmbedStore(ref)
              \/ EmbedJoin
              \/ \E i \in Ids, b \in BOOLEAN : SetRead(i, b) \/ SetStarred(i, b)
              \/ \E scope \in Scopes : MarkRead(scope)
  BY <1>10 DEF Next, Age, Subscribe, EmbedStart, EmbedUnreachable, EmbedAnswered,
               EmbedScan, DigestStart, DigestWrite, DigestFail, Restart
<1>11. CASE UNCHANGED libraryVars
  BY <1>2, <1>11 DEF libraryVars
<1> QED
  BY <1>1, <1>2, <1>3, <1>4, <1>5, <1>6, <1>7, <1>8, <1>9, <1>10, <1>11

\* While nothing is deleted and the embedding model stays, clusters are stories:
\* whatever the passes, restarts and settings do, an item is gathered into a story
\* at most once and stays, and mark-read takes whole stories.
THEOREM StoriesImplemented ==
  ASSUME NothingGoes, OneModel
  PROVE  Spec => ImplementsStories
<1>1. Init => Story!Init
  BY StoriesInit
<1>2. CInv /\ [Next]_libraryVars => [Story!Next]_(Story!storiesVars)
  BY StoriesNext DEF StoriesGoal
<1> QED
  BY ClusterInit, ClusterStep, <1>1, <1>2, PTL DEF Spec, ImplementsStories, Story!Spec
=============================================================================
