------------------------------ MODULE FeedPoll ------------------------------
(***************************************************************************)
(* How rosso polls its subscriptions: the feeds table of store.rs, the     *)
(* poll loop of feed/poller.rs, poll_feed of feed/mod.rs, and the HTTP     *)
(* handlers of api.rs that touch the same rows.                            *)
(*                                                                         *)
(* The database is one connection behind a mutex, so every store function  *)
(* is one atomic step.  Nothing is held across the network: each poll      *)
(* reads a snapshot of its row, talks to the server with it, and writes    *)
(* what came of it, computed from the snapshot, to whatever the row has    *)
(* become since.  The poll loop runs one poll per feed and waits for all   *)
(* of them before its next tick; the refresh button and the add-feed       *)
(* handler write to the same rows without asking it.                       *)
(*                                                                         *)
(* Time is relative: a row keeps how long it still has to wait, and the    *)
(* feeds that are overdue keep only their order, which is all that         *)
(* due_feeds looks at.                                                     *)
(***************************************************************************)
EXTENDS Schedule, FiniteSets, Sequences

CONSTANTS
  MaxFeeds,          \* bound: row ids are 1..MaxFeeds
  Urls,              \* feed urls
  Imported,          \* sequence of urls subscribed on an earlier boot
  Requests,          \* HTTP requests that can be in flight at once
  FetchConcurrency,  \* cfg.fetch_concurrency
  Batch,             \* BATCH of poller.rs
  MaxRefusals,       \* MAX_REFUSALS of store.rs
  FailureCap,        \* bound: the failure counter saturates here
  MaxVersion,        \* bound: how often a server publishes
  Ttls,              \* ttls a document may declare; 0 is none
  Waits,             \* waits a Retry-After header may name
  ReplyKinds,        \* bound: the kinds of answer servers give
  MaxRestarts,       \* bound: how often the process restarts
  None               \* no row, no task, no request

\* The shape of the parameters, and what a seed import can look like.
ASSUME PollAssumption ==
  /\ MaxFeeds \in Nat \ {0}
  /\ Imported \in Seq(Urls)
  /\ Len(Imported) <= MaxFeeds
  /\ \A i, j \in 1..Len(Imported) : Imported[i] = Imported[j] => i = j
  /\ FetchConcurrency \in Nat \ {0}
  /\ Batch \in Nat \ {0}
  /\ MaxRefusals \in Nat \ {0}
  /\ FailureCap \in Nat \ {0}
  /\ MaxVersion \in Nat
  /\ Ttls \subseteq Nat
  /\ Waits \subseteq Nat
  /\ MaxRestarts \in Nat

VARIABLES
  feeds,     \* the feeds table
  items,     \* items[i]: the items stored under row i
  server,    \* server[u]: the version of the document now at url u
  batch,     \* batch[i]: the poll loop's task for row i, in this tick
  requests,  \* requests[r]: what HTTP request r is doing
  restarts,  \* restarts so far
  retired,   \* history: rows the poller itself disabled
  owed       \* history: what is left of the wait the server of row i named last

pollVars == <<feeds, items, server, batch, requests, restarts, retired, owed>>

Ids      == 1..MaxFeeds
Versions == 0..MaxVersion

\* A document carries the item its version introduced and, when the server
\* bothers, a validator (ETag or Last-Modified) naming the version.
Item == Urls \X Versions
Tag  == Item \cup {<<>>}

Interval == MinInterval..MaxPublisher

\* `next` is the wait left, or how far back in the queue an overdue feed is.
FeedRow ==
  [url : Urls, disabled : BOOLEAN, next : {n \in Int : n <= MaxPublisher},
   interval : Interval, failures : 0..FailureCap, refusals : 0..MaxRefusals,
   etag : Tag, error : BOOLEAN]

Snapshot == [url : Urls, etag : Tag, interval : Interval, failures : 0..FailureCap]

Document == [version : Versions, tagged : BOOLEAN, ttl : Ttls]

Reply ==
  [kind : {"notModified"}]
    \cup [kind : {"retryAfter"}, wait : Waits]
    \cup [kind : {"body"}, doc : Document]
    \cup [kind : {"failed"}, refused : BOOLEAN]

\* A poll between its read of the row and its write to it.
Task ==
  [stage : {"queued"}, snap : Snapshot]
    \cup [stage : {"answered"}, snap : Snapshot, reply : Reply]

Request ==
  [op : {"refresh"}, id : Ids, task : Task]
    \cup [op : {"discovered"}, url : Urls, doc : Document]
    \cup [op : {"inserted"}, id : Ids, url : Urls, doc : Document]

\* The placeholder is no row, no task and no request.
ASSUME NoneAssumption == None \notin FeedRow \cup Task \cup Request

TypeOK ==
  /\ feeds \in [Ids -> FeedRow \cup {None}]
  /\ items \in [Ids -> SUBSET Item]
  /\ server \in [Urls -> Versions]
  /\ batch \in [Ids -> Task \cup {None}]
  /\ requests \in [Requests -> Request \cup {None}]
  /\ restarts \in 0..MaxRestarts
  /\ retired \in SUBSET Ids
  /\ owed \in [Ids -> Nat]
-----------------------------------------------------------------------------
Subscribed(i) == feeds[i] # None
Enabled(i)    == Subscribed(i) /\ ~feeds[i].disabled

\* What INSERT INTO feeds gives a row: due at once, nothing known about it.
NewRow(u) ==
  [url |-> u, disabled |-> FALSE, next |-> 0, interval |-> DefaultInterval,
   failures |-> 0, refusals |-> 0, etag |-> <<>>, error |-> FALSE]

Init ==
  /\ feeds = [i \in Ids |-> IF i <= Len(Imported) THEN NewRow(Imported[i]) ELSE None]
  /\ items = [i \in Ids |-> {}]
  /\ server = [u \in Urls |-> 0]
  /\ batch = [i \in Ids |-> None]
  /\ requests = [r \in Requests |-> None]
  /\ restarts = 0
  /\ retired = {}
  /\ owed = [i \in Ids |-> 0]
-----------------------------------------------------------------------------
\* What a poll reads of its row before it goes to the network.
SnapshotOf(i) ==
  [url |-> feeds[i].url, etag |-> feeds[i].etag,
   interval |-> feeds[i].interval, failures |-> feeds[i].failures]

Queued(snap)          == [stage |-> "queued", snap |-> snap]
Answered(snap, reply) == [stage |-> "answered", snap |-> snap, reply |-> reply]

\* An answer supersedes whatever the server said before it.
Owe(i, reply) ==
  IF Subscribed(i)
  THEN [owed EXCEPT ![i] = IF reply.kind = "retryAfter"
                           THEN AtMost(reply.wait, MaxPublisher) ELSE 0]
  ELSE owed

\* conditional_get, and the parse of what it brought.  A 304 needs a validator
\* that still names the current document; "failed" is a refusal (401, 403, 404,
\* 410) or anything else that goes wrong: transport, status, size, a document
\* that does not parse.
RepliesTo(snap) ==
  {reply \in Reply :
    /\ reply.kind \in ReplyKinds
    /\ reply.kind = "notModified" => snap.etag = <<snap.url, server[snap.url]>>
    /\ reply.kind = "body" => reply.doc.version = server[snap.url]}

\* Mutant: items and row in two transactions, a crash between them.
RecordSuccessTorn(i, url, doc, current) ==
  LET item == <<url, doc.version>>
      wait == NextInterval(current, "unchanged", 0, doc.ttl)
  IN /\ items' \in {items, [items EXCEPT ![i] = @ \cup {item}]}
     /\ feeds' = [feeds EXCEPT ![i] =
          [@ EXCEPT !.etag = IF doc.tagged THEN item ELSE <<>>,
                    !.next = wait, !.interval = wait,
                    !.failures = 0, !.refusals = 0,
                    !.error = FALSE]]
     /\ UNCHANGED retired

\* Mutant: a successful poll switches the feed back on.
RecordSuccessEnabling(i, url, doc, current) ==
  LET item == <<url, doc.version>>
      wait == NextInterval(current, "unchanged", 0, doc.ttl)
  IN /\ items' = [items EXCEPT ![i] = @ \cup {item}]
     /\ feeds' = [feeds EXCEPT ![i] =
          [@ EXCEPT !.etag = IF doc.tagged THEN item ELSE <<>>,
                    !.next = wait, !.interval = wait,
                    !.failures = 0, !.refusals = 0, !.disabled = FALSE,
                    !.error = FALSE]]
     /\ UNCHANGED retired

\* record_success: one transaction for the items and the row.
RecordSuccess(i, url, doc, current) ==
  LET item  == <<url, doc.version>>
      found == IF item \in items[i] THEN "unchanged" ELSE "newItems"
      wait  == NextInterval(current, found, 0, doc.ttl)
  IN /\ items' = [items EXCEPT ![i] = @ \cup {item}]
     /\ feeds' = [feeds EXCEPT ![i] =
          [@ EXCEPT !.etag = IF doc.tagged THEN item ELSE <<>>,
                    !.next = wait, !.interval = wait,
                    !.failures = 0, !.refusals = 0,
                    !.error = FALSE]]
     /\ UNCHANGED retired

\* record_unchanged, with the interval poll_inner computes: no ttl is passed.
RecordUnchanged(i, snap) ==
  LET wait == NextInterval(snap.interval, "unchanged", 0, 0)
  IN /\ feeds' = [feeds EXCEPT ![i] =
          [@ EXCEPT !.next = wait, !.interval = wait,
                    !.failures = 0, !.refusals = 0, !.error = FALSE]]
     /\ UNCHANGED <<items, retired>>

\* Mutant: the wait goes into the row as the header gave it.
RecordRetryAfterUncapped(i, asked) ==
  /\ feeds' = [feeds EXCEPT ![i].next = asked]
  /\ UNCHANGED <<items, retired>>

\* Mutant: the wait is merged with our own schedule.
RecordRetryAfterMerged(i, asked) ==
  /\ feeds' = [feeds EXCEPT ![i].next = AtMost(asked, feeds[i].interval)]
  /\ UNCHANGED <<items, retired>>

\* record_retry_after: neither the interval nor a counter moves.
RecordRetryAfter(i, asked) ==
  /\ feeds' = [feeds EXCEPT ![i].next = AtMost(asked, MaxPublisher)]
  /\ UNCHANGED <<items, retired>>

\* Mutant: the backoff is computed from the count before this poll.
RecordFailureLate(i, snap, refused) ==
  LET row      == feeds[i]
      wait     == NextInterval(snap.interval, "failed", snap.failures, 0)
      refusals == IF refused THEN AtMost(row.refusals + 1, MaxRefusals) ELSE 0
      retire   == refused /\ row.refusals + 1 >= MaxRefusals
  IN /\ feeds' = [feeds EXCEPT ![i] =
          [row EXCEPT !.next = wait, !.interval = wait,
                      !.failures = AtMost(row.failures + 1, FailureCap),
                      !.refusals = refusals, !.error = TRUE,
                      !.disabled = row.disabled \/ retire]]
     /\ retired' = IF retire /\ ~row.disabled THEN retired \cup {i} ELSE retired
     /\ UNCHANGED items

\* record_failure.  The interval follows the snapshot's failures, the counters
\* follow the row's.
RecordFailure(i, snap, refused) ==
  LET row      == feeds[i]
      wait     == NextInterval(snap.interval, "failed", snap.failures + 1, 0)
      refusals == IF refused THEN AtMost(row.refusals + 1, MaxRefusals) ELSE 0
      retire   == refused /\ row.refusals + 1 >= MaxRefusals
  IN /\ feeds' = [feeds EXCEPT ![i] =
          [row EXCEPT !.next = wait, !.interval = wait,
                      !.failures = AtMost(row.failures + 1, FailureCap),
                      !.refusals = refusals, !.error = TRUE,
                      !.disabled = row.disabled \/ retire]]
     /\ retired' = IF retire /\ ~row.disabled THEN retired \cup {i} ELSE retired
     /\ UNCHANGED items

NothingRecorded == UNCHANGED <<feeds, items, retired>>

\* poll_feed from the answer on.  If the row is gone, the items violate their
\* foreign key, that error is recorded as a failure, and the UPDATE finds no row.
Record(i, task) ==
  LET snap  == task.snap
      reply == task.reply
  IN \/ ~Subscribed(i) /\ NothingRecorded
     \/ /\ Subscribed(i)
        /\ \/ reply.kind = "notModified" /\ RecordUnchanged(i, snap)
           \/ reply.kind = "retryAfter" /\ RecordRetryAfter(i, reply.wait)
           \/ reply.kind = "body" /\ RecordSuccess(i, snap.url, reply.doc, snap.interval)
           \/ reply.kind = "failed" /\ RecordFailure(i, snap, reply.refused)
-----------------------------------------------------------------------------
(* The poll loop. *)

Due == {i \in Ids : Enabled(i) /\ feeds[i].next <= 0}

Idle == \A i \in Ids : batch[i] = None

\* Mutant: due_feeds without its ORDER BY.
TickUnordered ==
  /\ Idle
  /\ \E S \in SUBSET Due :
       /\ S # {}
       /\ Cardinality(S) = AtMost(Batch, Cardinality(Due))
       /\ batch' = [i \in Ids |-> IF i \in S THEN Queued(SnapshotOf(i)) ELSE None]
  /\ UNCHANGED <<feeds, items, server, requests, restarts, retired, owed>>

\* due_feeds: the longest overdue first, at most Batch of them; one task each.
Tick ==
  /\ Idle
  /\ \E S \in SUBSET Due :
       /\ S # {}
       /\ Cardinality(S) = AtMost(Batch, Cardinality(Due))
       /\ \A i \in S, j \in Due \ S : feeds[i].next <= feeds[j].next
       /\ batch' = [i \in Ids |-> IF i \in S THEN Queued(SnapshotOf(i)) ELSE None]
  /\ UNCHANGED <<feeds, items, server, requests, restarts, retired, owed>>

Fetching == {i \in Ids : batch[i] # None /\ batch[i].stage = "answered"}

\* A task takes a permit and the server answers it; the permit is held until
\* the outcome is recorded.
Fetch(i) ==
  /\ batch[i] # None
  /\ batch[i].stage = "queued"
  /\ Cardinality(Fetching) < FetchConcurrency
  /\ \E reply \in RepliesTo(batch[i].snap) :
       /\ batch' = [batch EXCEPT ![i] = Answered(@.snap, reply)]
       /\ owed' = Owe(i, reply)
  /\ UNCHANGED <<feeds, items, server, requests, restarts, retired>>

FinishPoll(i) ==
  /\ batch[i] # None
  /\ batch[i].stage = "answered"
  /\ Record(i, batch[i])
  /\ batch' = [batch EXCEPT ![i] = None]
  /\ UNCHANGED <<server, requests, restarts, owed>>
-----------------------------------------------------------------------------
(* HTTP handlers. *)

\* refresh_feed reads the row whether or not it is due, disabled or being polled.
RefreshStart(r, i) ==
  /\ requests[r] = None
  /\ Subscribed(i)
  /\ requests' = [requests EXCEPT ![r] =
       [op |-> "refresh", id |-> i, task |-> Queued(SnapshotOf(i))]]
  /\ UNCHANGED <<feeds, items, server, batch, restarts, retired, owed>>

RefreshFetch(r) ==
  /\ requests[r] # None
  /\ requests[r].op = "refresh"
  /\ requests[r].task.stage = "queued"
  /\ \E reply \in RepliesTo(requests[r].task.snap) :
       /\ requests' = [requests EXCEPT ![r].task = Answered(@.snap, reply)]
       /\ owed' = Owe(requests[r].id, reply)
  /\ UNCHANGED <<feeds, items, server, batch, restarts, retired>>

RefreshFinish(r) ==
  /\ requests[r] # None
  /\ requests[r].op = "refresh"
  /\ requests[r].task.stage = "answered"
  /\ Record(requests[r].id, requests[r].task)
  /\ requests' = [requests EXCEPT ![r] = None]
  /\ UNCHANGED <<server, batch, restarts, owed>>

\* SQLite gives a new row the largest id in the table plus one: the id of a
\* deleted newest row is used again.
NextId(i) ==
  /\ \A j \in Ids : Subscribed(j) => j < i
  /\ i = 1 \/ \E j \in Ids : Subscribed(j) /\ j + 1 = i

\* insert_feed: INSERT OR IGNORE on the unique url.
Known(url) == \E i \in Ids : Subscribed(i) /\ feeds[i].url = url

InsertFeed(i, url) ==
  /\ NextId(i)
  /\ ~Known(url)
  /\ feeds' = [feeds EXCEPT ![i] = NewRow(url)]
  /\ UNCHANGED <<items, retired>>

\* add_feed fetches the document before there is a row for it ...
Discover(r, url) ==
  /\ requests[r] = None
  /\ \E doc \in Document :
       /\ doc.version = server[url]
       /\ requests' = [requests EXCEPT ![r] =
            [op |-> "discovered", url |-> url, doc |-> doc]]
  /\ UNCHANGED <<feeds, items, server, batch, restarts, retired, owed>>

\* ... inserts the row, or answers that it is known already ...
AddFeedInsert(r) ==
  /\ requests[r] # None
  /\ requests[r].op = "discovered"
  /\ \/ \E i \in Ids :
          /\ InsertFeed(i, requests[r].url)
          /\ requests' = [requests EXCEPT ![r] =
               [op |-> "inserted", id |-> i, url |-> @.url, doc |-> @.doc]]
     \/ /\ Known(requests[r].url)
        /\ requests' = [requests EXCEPT ![r] = None]
        /\ NothingRecorded
  /\ UNCHANGED <<server, batch, restarts, owed>>

\* ... and records the document it fetched, in a step of its own.
AddFeedRecord(r) ==
  /\ requests[r] # None
  /\ requests[r].op = "inserted"
  /\ LET i == requests[r].id
     IN \/ /\ Subscribed(i)
           /\ RecordSuccess(i, requests[r].url, requests[r].doc, DefaultInterval)
        \/ ~Subscribed(i) /\ NothingRecorded
  /\ requests' = [requests EXCEPT ![r] = None]
  /\ UNCHANGED <<server, batch, restarts, owed>>

\* import_opml, one outline: the row and nothing else.
ImportFeed(url) ==
  /\ \E i \in Ids : InsertFeed(i, url)
  /\ UNCHANGED <<server, batch, requests, restarts, owed>>

\* update_feed with `disabled` in the patch.
SetDisabled(i) ==
  /\ Subscribed(i)
  /\ feeds' = [feeds EXCEPT ![i].disabled = TRUE]
  /\ UNCHANGED <<items, server, batch, requests, restarts, retired, owed>>

\* Mutant: re-enabling keeps the refusals that retired the feed.
ReEnableKeeping(i) ==
  /\ Subscribed(i)
  /\ feeds' = [feeds EXCEPT ![i] =
       [@ EXCEPT !.disabled = FALSE, !.failures = 0, !.next = 0]]
  /\ retired' = retired \ {i}
  /\ owed' = [owed EXCEPT ![i] = 0]
  /\ UNCHANGED <<items, server, batch, requests, restarts>>

\* Re-enabling clears the refusals and the backoff and makes the feed due.
ReEnable(i) ==
  /\ Subscribed(i)
  /\ feeds' = [feeds EXCEPT ![i] =
       [@ EXCEPT !.disabled = FALSE, !.refusals = 0, !.failures = 0, !.next = 0]]
  /\ retired' = retired \ {i}
  /\ owed' = [owed EXCEPT ![i] = 0]
  /\ UNCHANGED <<items, server, batch, requests, restarts>>

DeleteFeed(i) ==
  /\ Subscribed(i)
  /\ feeds' = [feeds EXCEPT ![i] = None]
  /\ items' = [items EXCEPT ![i] = {}]
  /\ retired' = retired \ {i}
  /\ owed' = [owed EXCEPT ![i] = 0]
  /\ UNCHANGED <<server, batch, requests, restarts>>
-----------------------------------------------------------------------------
(* The world outside: publishers, the clock, a process that is restarted. *)

\* A wait is on its way to the row.
WaitPending(i) ==
  \/ /\ batch[i] # None
     /\ batch[i].stage = "answered"
     /\ batch[i].reply.kind = "retryAfter"
  \/ \E r \in Requests :
       /\ requests[r] # None
       /\ requests[r].op = "refresh"
       /\ requests[r].id = i
       /\ requests[r].task.stage = "answered"
       /\ requests[r].task.reply.kind = "retryAfter"

Publish(url) ==
  /\ server[url] < MaxVersion
  /\ server' = [server EXCEPT ![url] = @ + 1]
  /\ UNCHANGED <<feeds, items, batch, requests, restarts, retired, owed>>

\* One unit of time.  Of the feeds that are overdue only the order is kept.
Elapse ==
  LET waited(i) == feeds[i].next - 1
      after(i)  == {waited(j) : j \in {k \in Ids : /\ Subscribed(k)
                                                   /\ waited(k) < 0
                                                   /\ waited(i) < waited(k)}}
      left(i)   == IF waited(i) >= 0 THEN waited(i) ELSE 0 - (1 + Cardinality(after(i)))
  IN /\ feeds' = [i \in Ids |->
           IF Subscribed(i) THEN [feeds[i] EXCEPT !.next = left(i)] ELSE None]
     /\ owed' = [i \in Ids |-> AtLeast(owed[i] - 1, 0)]
     /\ UNCHANGED <<items, server, batch, requests, restarts, retired>>

\* A restart forgets every poll and request in flight, and with them the waits
\* that were not recorded yet; the database survives.
Restart ==
  /\ restarts < MaxRestarts
  /\ restarts' = restarts + 1
  /\ batch' = [i \in Ids |-> None]
  /\ requests' = [r \in Requests |-> None]
  /\ owed' = [i \in Ids |-> IF WaitPending(i) THEN 0 ELSE owed[i]]
  /\ UNCHANGED <<feeds, items, server, retired>>
-----------------------------------------------------------------------------
Next ==
  \/ Tick
  \/ \E i \in Ids : Fetch(i) \/ FinishPoll(i)
  \/ \E r \in Requests, i \in Ids : RefreshStart(r, i)
  \/ \E r \in Requests : RefreshFetch(r) \/ RefreshFinish(r)
  \/ \E r \in Requests, u \in Urls : Discover(r, u)
  \/ \E r \in Requests : AddFeedInsert(r) \/ AddFeedRecord(r)
  \/ \E u \in Urls : ImportFeed(u)
  \/ \E i \in Ids : SetDisabled(i) \/ ReEnable(i) \/ DeleteFeed(i)
  \/ \E u \in Urls : Publish(u)
  \/ Elapse
  \/ Restart

Spec == Init /\ [][Next]_pollVars

\* The poll loop never ends, a fetch times out at the latest (60 s), and the
\* clock never stops: strongly fair, because readers who flip switches between
\* two units of time do not hold it up.  Nothing makes a reader or a publisher
\* act.
Fairness ==
  /\ WF_pollVars(Tick)
  /\ \A i \in Ids : WF_pollVars(Fetch(i)) /\ WF_pollVars(FinishPoll(i))
  /\ SF_pollVars(Elapse)

FairSpec == Spec /\ Fairness
-----------------------------------------------------------------------------
(* Properties. *)

\* A validator is stored only with the items of the document it came with, so a
\* later 304 can never stand for entries the reader was never given
\* (record_success is one transaction; record_unchanged touches no validator).
ValidatorsMeanStored ==
  \A i \in Ids : Subscribed(i) /\ feeds[i].etag # <<>> => feeds[i].etag \in items[i]

\* A feed at the refusal limit is off: whichever polls overlap, and however the
\* reader flips the switch meanwhile, no enabled feed carries MAX_REFUSALS.
RefusalLimit == \A i \in Ids : Enabled(i) => feeds[i].refusals < MaxRefusals

\* If the last thing a server said is a wait, and it has been recorded, then the
\* schedule keeps it: no answer the server gave earlier cuts it short.
WaitHonoured ==
  \A i \in Ids : Subscribed(i) /\ owed[i] > 0 /\ ~WaitPending(i)
                   => feeds[i].next >= owed[i]

\* The interval of a failing feed is at least what its failure count calls for:
\* no answer computed from an older count undoes the backoff.
BackoffKept ==
  \A i \in Ids : Subscribed(i) /\ feeds[i].failures > 0 =>
    feeds[i].interval >= Backoff(feeds[i].failures)

\* A feed the poller retired "stays in the list, with the reason on it, for the
\* reader to re-enable" (record_failure).  So the comment says: a refresh that
\* succeeds clears the error and leaves the feed off.
RetiredHasReason == \A i \in Ids : i \in retired => feeds[i].error

\* What the reader sees of a feed, for FeedLifecycle.
StatusOf(i) ==
  IF ~Subscribed(i) THEN "absent"
  ELSE IF ~feeds[i].disabled THEN "active"
  ELSE IF i \in retired THEN "retired" ELSE "paused"

StrikesOf(i) == IF Enabled(i) THEN feeds[i].refusals ELSE 0

Lifecycle == INSTANCE FeedLifecycle WITH
  status  <- [i \in Ids |-> StatusOf(i)],
  strikes <- [i \in Ids |-> StrikesOf(i)]

\* The detailed system implements the promise.
ImplementsLifecycle == Lifecycle!Spec

\* No enabled feed waits forever, however many are due at once: it is fetched,
\* or the reader disables or deletes it, or keeps re-enabling it, which sends it
\* to the end of the queue each time (due_feeds, tick, update_feed).
EveryFeedIsPolled ==
  \A i \in Ids :
    \/ Enabled(i) ~> i \in Fetching \/ ~Enabled(i)
    \/ []<><<ReEnable(i)>>_pollVars
=============================================================================
