------------------------------ MODULE Library ------------------------------
(***************************************************************************)
(* The items table and the workers that share it: the poller that inserts, *)
(* the embedding worker that collapses reports of one story into a cluster *)
(* (llm/embed.rs), the digest generators (llm/digest.rs), the retention    *)
(* worker that deletes (retention.rs), and the reader (api.rs).            *)
(*                                                                         *)
(* Every store function is one step.  The embedding worker and the digest  *)
(* generators read candidates, wait for a model to answer, and write their *)
(* results to ids that may have gone, or become another item, meanwhile.   *)
(*                                                                         *)
(* A cluster is named by its head's id and the head carries its own; the   *)
(* lists show an item that has no cluster or heads its own.                *)
(***************************************************************************)
EXTENDS Integers, FiniteSets

CONSTANTS
  MaxItems,        \* bound: item ids are 1..MaxItems
  Feeds,           \* subscriptions
  Articles,        \* entries publishers' documents list
  FeedOf,          \* the feed that lists an article
  Similar,         \* pairs of articles above the dedupe threshold
  Models,          \* embedding models cfg.embed_model may name, boot by boot
  MaxAttempts,     \* MAX_ATTEMPTS of embed.rs
  EmbedBatch,      \* BATCH of embed.rs
  DedupeSettings,  \* values settings.dedupe_enabled() takes
  Generators,      \* who writes digests: the tick, the handler
  DayOf,           \* articles of the day that is digested
  MinItems,        \* MIN_ITEMS of digest.rs
  Retention,       \* whether retention_days > 0
  PruneBatch,      \* BATCH of retention.rs
  Deletable,       \* feeds the reader may unsubscribe from
  Returning,       \* feeds the reader may subscribe to again
  Reading,         \* whether the reader reads and stars items
  MaxRestarts,     \* bound: how often the process restarts
  None             \* no item, no vector, no digest

\* The shape of the parameters: similarity is a dot product.
ASSUME LibraryAssumption ==
  /\ MaxItems \in Nat \ {0}
  /\ FeedOf \in [Articles -> Feeds]
  /\ Similar \subseteq Articles \X Articles
  /\ \A s \in Similar : <<s[2], s[1]>> \in Similar
  /\ MaxAttempts \in Nat \ {0}
  /\ EmbedBatch \in Nat \ {0}
  /\ DedupeSettings \subseteq BOOLEAN
  /\ Generators \subseteq {"tick", "handler"}
  /\ DayOf \subseteq Articles
  /\ MinItems \in Nat
  /\ Retention \in BOOLEAN
  /\ PruneBatch \in Nat \ {0}
  /\ Deletable \subseteq Feeds
  /\ Returning \subseteq Feeds
  /\ Reading \in BOOLEAN
  /\ MaxRestarts \in Nat

VARIABLES
  items,       \* the items table
  vector,      \* item_embeddings: vector[i] names the model and the text it is of
  subscribed,  \* feeds there is a row for
  old,         \* articles past the dedupe window and the retention cutoff
  model,       \* cfg.embed_model of this boot
  embedder,    \* where the embedding worker is in its pass
  generator,   \* generator[g]: the candidates g is waiting for the model with
  digest,      \* the digest of the day, or None
  restarts     \* restarts so far

libraryVars == <<items, vector, subscribed, old, model, embedder, generator,
                 digest, restarts>>

Ids == 1..MaxItems

\* cluster_id: 0 is NULL.
ItemRow == [article : Articles, read : BOOLEAN, starred : BOOLEAN,
            cluster : Ids \cup {0}, attempts : 0..MaxAttempts]

Vector == [model : Models, article : Articles]

\* An item as it was when a worker read it.
Ref == Ids \X Articles

\* `batch` is what is left of the pass, `id` the item being clustered, `head`
\* the cluster it is about to join.
Pass == [stage : {"idle", "asked", "storing", "stored", "joining"},
         batch : SUBSET Ref, id : Ids \cup {0}, head : Ids \cup {0},
         dedupe : BOOLEAN]

ASSUME LibraryNone == None \notin ItemRow \cup Vector \cup Ids

LibraryTypeOK ==
  /\ items \in [Ids -> ItemRow \cup {None}]
  /\ vector \in [Ids -> Vector \cup {None}]
  /\ subscribed \in SUBSET Feeds
  /\ old \in SUBSET Articles
  /\ model \in Models
  /\ embedder \in Pass
  /\ generator \in [Generators -> (SUBSET Ref) \cup {None}]
  /\ digest \in (SUBSET Ref) \cup {None}
  /\ restarts \in 0..MaxRestarts

IdlePass == [stage |-> "idle", batch |-> {}, id |-> 0, head |-> 0, dedupe |-> FALSE]

Init ==
  /\ items = [i \in Ids |-> None]
  /\ vector = [i \in Ids |-> None]
  /\ subscribed = Feeds
  /\ old = {}
  /\ model \in Models
  /\ embedder = IdlePass
  /\ generator = [g \in Generators |-> None]
  /\ digest = None
  /\ restarts = 0
-----------------------------------------------------------------------------
Stored(i) == items[i] # None
Listed(i) == Stored(i) /\ items[i].cluster \in {0, i}
RefTo(i)  == <<i, items[i].article>>

AtMost(a, b) == IF a <= b THEN a ELSE b

NewItem(article) ==
  [article |-> article, read |-> FALSE, starred |-> FALSE, cluster |-> 0, attempts |-> 0]

\* SQLite gives a new row the largest id in the table plus one.
NextId(i) ==
  /\ \A j \in Ids : Stored(j) => j < i
  /\ i = 1 \/ \E j \in Ids : Stored(j) /\ j + 1 = i

\* insert_items_tx: INSERT OR IGNORE on (feed_id, guid).
Poll(article) ==
  /\ FeedOf[article] \in subscribed
  /\ \A j \in Ids : Stored(j) => items[j].article # article
  /\ \E i \in Ids : NextId(i) /\ items' = [items EXCEPT ![i] = NewItem(article)]
  /\ UNCHANGED <<vector, subscribed, old, model, embedder, generator, digest,
                 restarts>>

\* Rows that go take their vectors along (ON DELETE CASCADE).
Remove(S) ==
  /\ items' = [i \in Ids |-> IF i \in S THEN None ELSE items[i]]
  /\ vector' = [i \in Ids |-> IF i \in S THEN None ELSE vector[i]]

\* delete_feed: the items go with their feed.
Unsubscribe(f) ==
  /\ f \in subscribed \cap Deletable
  /\ subscribed' = subscribed \ {f}
  /\ Remove({i \in Ids : Stored(i) /\ FeedOf[items[i].article] = f})
  /\ UNCHANGED <<old, model, embedder, generator, digest, restarts>>

Subscribe(f) ==
  /\ f \in Returning \ subscribed
  /\ subscribed' = subscribed \cup {f}
  /\ UNCHANGED <<items, vector, old, model, embedder, generator, digest, restarts>>
-----------------------------------------------------------------------------
(* The embedding worker: one pass at a time. *)

\* Mutant: a vector of whichever model will do.
DueOnce == {i \in Ids : /\ Stored(i)
                        /\ items[i].attempts < MaxAttempts
                        /\ vector[i] = None}

\* due_for_embedding: no vector, or one of another model.
Due == {i \in Ids : /\ Stored(i)
                    /\ items[i].attempts < MaxAttempts
                    /\ vector[i] = None \/ vector[i].model # model}

EmbedStart ==
  /\ embedder.stage = "idle"
  /\ \E S \in SUBSET Due, dedupe \in DedupeSettings :
       /\ S # {}
       /\ Cardinality(S) = AtMost(EmbedBatch, Cardinality(Due))
       /\ embedder' = [IdlePass EXCEPT !.stage = "asked", !.dedupe = dedupe,
                                       !.batch = {RefTo(i) : i \in S}]
  /\ UNCHANGED <<items, vector, subscribed, old, model, generator, digest, restarts>>

\* The host is off: nobody is charged.
EmbedUnreachable ==
  /\ embedder.stage = "asked"
  /\ embedder' = IdlePass
  /\ UNCHANGED <<items, vector, subscribed, old, model, generator, digest, restarts>>

\* The call failed: every candidate is charged an attempt.
EmbedFailed ==
  /\ embedder.stage = "asked"
  /\ items' = [i \in Ids |->
       IF Stored(i) /\ \E ref \in embedder.batch : ref[1] = i
       THEN [items[i] EXCEPT !.attempts = @ + 1]
       ELSE items[i]]
  /\ embedder' = IdlePass
  /\ UNCHANGED <<vector, subscribed, old, model, generator, digest, restarts>>

EmbedAnswered ==
  /\ embedder.stage = "asked"
  /\ embedder' = [embedder EXCEPT !.stage = "storing"]
  /\ UNCHANGED <<items, vector, subscribed, old, model, generator, digest, restarts>>

\* Mutant: the vectors are matched to the candidates in another order.
EmbedStoreShuffled(ref) ==
  /\ embedder.stage = "storing"
  /\ ref \in embedder.batch
  /\ Stored(ref[1])
  /\ \E other \in embedder.batch :
       vector' = [vector EXCEPT ![ref[1]] = [model |-> model, article |-> other[2]]]
  /\ items' = [items EXCEPT ![ref[1]].attempts = 0]
  /\ embedder' = [embedder EXCEPT !.stage = "stored", !.id = ref[1], !.batch = @ \ {ref}]
  /\ UNCHANGED <<subscribed, old, model, generator, digest, restarts>>

\* record_embedding.  For an item that is gone the foreign key fails, and with
\* it the pass.
EmbedStore(ref) ==
  /\ embedder.stage = "storing"
  /\ ref \in embedder.batch
  /\ \/ /\ Stored(ref[1])
        /\ vector' = [vector EXCEPT ![ref[1]] = [model |-> model, article |-> ref[2]]]
        /\ items' = [items EXCEPT ![ref[1]].attempts = 0]
        /\ embedder' = [embedder EXCEPT !.stage = "stored", !.id = ref[1],
                                        !.batch = @ \ {ref}]
     \/ /\ ~Stored(ref[1])
        /\ embedder' = IdlePass
        /\ UNCHANGED <<items, vector>>
  /\ UNCHANGED <<subscribed, old, model, generator, digest, restarts>>

NextInPass ==
  IF embedder.batch = {} THEN IdlePass
  ELSE [embedder EXCEPT !.stage = "storing", !.id = 0, !.head = 0]

\* neighbours_within: vectors of the same model inside the window, as similar as
\* the threshold asks.
Neighbours(i) ==
  {j \in Ids \ {i} : /\ Stored(j)
                     /\ vector[j] # None
                     /\ vector[j].model = model
                     /\ items[j].article \notin old
                     /\ <<vector[i].article, vector[j].article>> \in Similar}

\* Mutant: a new cluster with the neighbour, whatever cluster that is in.
HeadOfNaive(j) == j

\* The cluster a neighbour is in, or the one it would head.
HeadOf(j) == IF items[j].cluster = 0 THEN j ELSE items[j].cluster

\* cluster_one up to its choice of the best neighbour.
EmbedScan ==
  /\ embedder.stage = "stored"
  /\ LET i == embedder.id
         found == IF embedder.dedupe /\ vector[i] # None THEN Neighbours(i) ELSE {}
     IN \/ found = {} /\ embedder' = NextInPass
        \/ \E j \in found :
             embedder' = [embedder EXCEPT !.stage = "joining", !.head = HeadOf(j)]
  /\ UNCHANGED <<items, vector, subscribed, old, model, generator, digest, restarts>>

\* join_cluster: the head first, if it is in no cluster yet, then the item.
JoinCluster(i, head) ==
  items' = [k \in Ids |->
    CASE Stored(k) /\ k = i -> [items[k] EXCEPT !.cluster = head]
      [] Stored(k) /\ k = head /\ k # i /\ items[k].cluster = 0
           -> [items[k] EXCEPT !.cluster = k]
      [] OTHER -> items[k]]

EmbedJoin ==
  /\ embedder.stage = "joining"
  /\ JoinCluster(embedder.id, embedder.head)
  /\ embedder' = NextInPass
  /\ UNCHANGED <<vector, subscribed, old, model, generator, digest, restarts>>
-----------------------------------------------------------------------------
(* Digests of one day. *)

\* digest_candidates: the day's items, one per story.
Candidates == {i \in Ids : Listed(i) /\ items[i].article \in DayOf}

\* generate, until the model is asked.  The tick writes yesterday's, once; the
\* handler writes any day's, again if need be.
DigestStart(g) ==
  /\ generator[g] = None
  /\ g = "tick" => digest = None /\ DayOf \cap old = {}
  /\ Cardinality(Candidates) >= MinItems
  /\ generator' = [generator EXCEPT ![g] = {RefTo(i) : i \in Candidates}]
  /\ UNCHANGED <<items, vector, subscribed, old, model, embedder, digest, restarts>>

\* prune of digest.rs: of what the model names only ids it was given survive.
\* The last digest written is the day's.
DigestWrite(g) ==
  /\ generator[g] # None
  /\ digest' \in SUBSET generator[g]
  /\ generator' = [generator EXCEPT ![g] = None]
  /\ UNCHANGED <<items, vector, subscribed, old, model, embedder, restarts>>

DigestFail(g) ==
  /\ generator[g] # None
  /\ generator' = [generator EXCEPT ![g] = None]
  /\ UNCHANGED <<items, vector, subscribed, old, model, embedder, digest, restarts>>

ReferredTo(i) == digest # None /\ \E ref \in digest : ref[1] = i
-----------------------------------------------------------------------------
(* Retention. *)

\* Mutant: items of a digest are deleted like the others.
PrunableUnreferenced ==
  {i \in Ids : /\ Stored(i)
               /\ items[i].read
               /\ ~items[i].starred
               /\ items[i].article \in old}

\* What prune_items may delete: read, not starred, past the cutoff, and no
\* stored digest refers to it.
Prunable ==
  {i \in Ids : /\ Stored(i)
               /\ items[i].read
               /\ ~items[i].starred
               /\ items[i].article \in old
               /\ ~ReferredTo(i)}

Prune ==
  /\ Retention
  /\ \E S \in SUBSET Prunable :
       /\ S # {}
       /\ Cardinality(S) = AtMost(PruneBatch, Cardinality(Prunable))
       /\ Remove(S)
  /\ UNCHANGED <<subscribed, old, model, embedder, generator, digest, restarts>>
-----------------------------------------------------------------------------
(* The reader. *)

\* update_item with `read` or `starred` in the patch.
SetRead(i, read) ==
  /\ Reading
  /\ Stored(i)
  /\ items' = [items EXCEPT ![i].read = read]
  /\ UNCHANGED <<vector, subscribed, old, model, embedder, generator, digest,
                 restarts>>

SetStarred(i, starred) ==
  /\ Reading
  /\ Stored(i)
  /\ items' = [items EXCEPT ![i].starred = starred]
  /\ UNCHANGED <<vector, subscribed, old, model, embedder, generator, digest,
                 restarts>>

\* The feed_id of a mark-read request, or everything.
Scopes == {{f} : f \in Feeds} \cup {Feeds}

\* Mutant: only what matches is marked.
MarkReadMatched(scope) ==
  /\ Reading
  /\ items' = [i \in Ids |->
        IF Stored(i) /\ FeedOf[items[i].article] \in scope
        THEN [items[i] EXCEPT !.read = TRUE] ELSE items[i]]
  /\ UNCHANGED <<vector, subscribed, old, model, embedder, generator, digest,
                 restarts>>

\* mark_read: the unread items of the feeds in scope, and the unread rest of
\* every cluster one of them is in.
MarkRead(scope) ==
  LET matched  == {i \in Ids : /\ Stored(i)
                               /\ ~items[i].read
                               /\ FeedOf[items[i].article] \in scope}
      clusters == {items[i].cluster : i \in matched} \ {0}
  IN /\ Reading
     /\ items' = [i \in Ids |->
           IF Stored(i) /\ (i \in matched \/ items[i].cluster \in clusters)
           THEN [items[i] EXCEPT !.read = TRUE] ELSE items[i]]
     /\ UNCHANGED <<vector, subscribed, old, model, embedder, generator, digest,
                    restarts>>

\* An article's date passes out of the window and behind the cutoff: days after
\* the tick has had its answer about that day.
Age(article) ==
  /\ article \notin old
  /\ article \in DayOf /\ "tick" \in Generators => generator["tick"] = None
  /\ old' = old \cup {article}
  /\ UNCHANGED <<items, vector, subscribed, model, embedder, generator, digest,
                 restarts>>

\* A boot may come with another embedding model; passes in flight are gone.
Restart ==
  /\ restarts < MaxRestarts
  /\ restarts' = restarts + 1
  /\ model' \in Models
  /\ embedder' = IdlePass
  /\ generator' = [g \in Generators |-> None]
  /\ UNCHANGED <<items, vector, subscribed, old, digest>>
-----------------------------------------------------------------------------
Next ==
  \/ \E a \in Articles : Poll(a) \/ Age(a)
  \/ \E f \in Feeds : Unsubscribe(f) \/ Subscribe(f)
  \/ EmbedStart \/ EmbedUnreachable \/ EmbedFailed \/ EmbedAnswered
  \/ \E ref \in embedder.batch : EmbedStore(ref)
  \/ EmbedScan \/ EmbedJoin
  \/ \E g \in Generators : DigestStart(g) \/ DigestWrite(g) \/ DigestFail(g)
  \/ Prune
  \/ \E i \in Ids, b \in BOOLEAN : SetRead(i, b) \/ SetStarred(i, b)
  \/ \E scope \in Scopes : MarkRead(scope)
  \/ Restart

Spec == Init /\ [][Next]_libraryVars

\* The worker loops for ever, and a model host that is asked again and again
\* gives an answer sooner or later.
LibraryFairness ==
  /\ WF_libraryVars(EmbedStart)
  /\ WF_libraryVars(EmbedUnreachable \/ EmbedFailed \/ EmbedAnswered)
  /\ SF_libraryVars(EmbedFailed \/ EmbedAnswered)
  /\ WF_libraryVars(\E ref \in embedder.batch : EmbedStore(ref))
  /\ WF_libraryVars(EmbedScan)
  /\ WF_libraryVars(EmbedJoin)

FairSpec == Spec /\ LibraryFairness
-----------------------------------------------------------------------------
(* Properties. *)

\* A collapsed list loses nothing: an item that is not listed is in the cluster
\* of one that is, which shows it among its siblings.
ListLosesNothing ==
  \A i \in Ids : Stored(i) /\ ~Listed(i) =>
    \E h \in Ids : h = items[i].cluster /\ Listed(h) /\ items[h].cluster = h

\* The story an item stands under in the lists.
StoryOf(i) ==
  IF ~Stored(i) THEN None
  ELSE IF items[i].cluster = 0 THEN i ELSE items[i].cluster

Story == INSTANCE Stories WITH
  shelf <- [i \in Ids |-> StoryOf(i)],
  read  <- {i \in Ids : Stored(i) /\ items[i].read}

\* Clusters are stories: reports are gathered and never parted again, and
\* mark-read, whatever narrows it, takes each story whole.
ImplementsStories == Story!Spec

\* A vector is of the text of the item it is stored under.
VectorOfItem ==
  \A i \in Ids : vector[i] # None =>
    Stored(i) /\ vector[i].article = items[i].article

\* A link of a stored digest that leads somewhere keeps doing so until the
\* digest is written again or the reader unsubscribes, whatever the retention
\* worker deletes.
LinksStay ==
  [][digest # None /\ digest' = digest /\ subscribed' = subscribed =>
       \A ref \in digest : Stored(ref[1]) => items'[ref[1]] # None]_libraryVars

\* Once the model host answers, every stored item gets a vector of the current
\* model, or is given up on, or goes; unless items keep arriving for ever, each of
\* which the worker may take first (due_for_embedding, pass).
EveryItemEmbedded ==
  \A i \in Ids :
    \/ Stored(i) ~> \/ ~Stored(i)
                    \/ vector[i] # None /\ vector[i].model = model
                    \/ items[i].attempts = MaxAttempts
    \/ []<><<\E a \in Articles : Poll(a)>>_libraryVars
=============================================================================
