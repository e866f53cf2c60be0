# rosso: a verification project

rosso is a self-hosted feed reader: one Rust process over one SQLite file, a
Svelte frontend, and an optional model host (Ollama) on the LAN. The process
polls feeds, fetches the articles behind teasers, summarizes and scores items,
collapses several reports of one story into one, writes a daily digest, deletes
what was read long ago, and serves all of it to a browser. This directory holds
TLA+ models of that machinery, TLC configurations that check them on small
instances, and proofs that TLAPS checks for every value of the constants.

Paths below are relative to the repository; `store.rs` and the like are under
`src/backend/src/`.

## 1. Inventory

| Component | Code | State | Operations | What is hard |
|---|---|---|---|---|
| Poll schedule | `feed/schedule.rs` | none (pure) | `next_interval`, `jitter` | shifts, integer division, three clamps with different owners |
| Feed polling | `feed/poller.rs`, `feed/mod.rs`, `feed/fetch.rs`, `api.rs`, `store.rs` | table `feeds`; the tasks of a tick; requests in flight | `tick`, `poll_feed`, `refresh_feed`, `add_feed`, `import_opml`, `update_feed`, `delete_feed` | each poll reads a snapshot, waits for a server, and writes to whatever the row has become; nothing keeps two polls of a feed apart |
| Item library | `store.rs`, `llm/embed.rs`, `llm/digest.rs`, `retention.rs`, `api.rs` | tables `items`, `item_embeddings`, `digests` | insert, embed, cluster, digest, prune, read, star, mark-read | workers refer to items by id across awaits while others delete them; clusters are pointers between rows |
| Item pipeline | `extract.rs`, `llm/enrich.rs`, `store.rs`, `settings.rs`, `api.rs` | columns of `items`, `feeds.user_agent`, `feeds.llm_enabled`, the profile; refusals per host in memory | extraction in batches and inline, summaries, scores, rescoring | two paths fetch one page; enrichment waits for extraction through row state only; settings change under a pass |
| Document parsing | `feed/parse.rs`, `feed/comments.rs` | none | `parse`, `discussion_urls` | guids that survive edits, what counts as truncated |
| Discovery | `feed/discover.rs` | none | `discover` | one exchange, HTML link elements |
| Favicons | `feed/favicon.rs` | two columns of `feeds` | worker: one icon per pass | attempts run out |
| Settings | `settings.rs` | table `settings` | `load`, `save`, fingerprint | a profile edit makes every score stale |
| Database | `db.rs` | one connection behind a mutex | `with`, schema, migrations | the unit of atomicity of everything above |
| Live events | `events.rs`, the stream of `api.rs` | broadcast channel of 256 | `emit`, `subscribe` | a slow tab loses events, a closed one all of them |
| Lists and paging | `store.rs`, `api.rs` | none | `list_items`, `cursor_for`, search | the cursor and the order must agree |
| Model host | `llm/mod.rs`, `llm/ollama.rs`, `llm/embed.rs`, `llm/prompts.rs` | the semaphore `llm_permits`, the cached health behind a mutex | `available`, `embed_query`, `embed`, `chat_json`, `models` | may be off, slow or wrong; searches and workers share one or few permits; a handler may be dropped at any await |
| OPML | `feed/opml.rs` | none | pure | text formats |
| Process | `lib.rs`, `main.rs`, `routes.rs`, `auth.rs`, `config.rs`, `error.rs`, `shutdown.rs` | the signal, the drain and its watchdog | wiring, header check, bounded drain | streams never end by themselves, a search may wait for minutes, workers are not drained |
| Frontend store | `src/frontend/src/lib/stores/reader.svelte.ts`, `createResource.svelte.ts` | selection, lists, open item | load, select, open, mark, live events | requests answered out of order, unsequenced |
| Components | `src/frontend/src/lib/components/`, `routes/` | view state | rendering | - |

How they interact. Everything persistent goes through `store.rs`; every store
function runs in one closure on the one connection, so it is one atomic step.
Workers (poller, extraction, embedding, enrichment, digest, retention,
favicons) never call each other: each derives its work from row state with a
`due_*` query, leaves the database, talks to a server or the model host, and
comes back with an id. HTTP handlers do the same on behalf of the reader, and
three of them (`refresh_feed`, `add_feed`, `get_item`) do a worker's job at
the worker's side. What can go wrong is therefore almost always the same shape:
**a decision read from a row, an await, and a write to a row that is no longer
what was read.** `PROJECT.json` lists the hazards one by one, at the line where
each bites.

What makes each component correct:

- documents: a post is stored once and none is lost, whatever the publisher edits; a
  discussion belongs to its post;
- schedule: nobody is polled faster than promised or for ever slower; failures back off;
- polling: a 304 never stands for items that were not stored; a refusing server is
  left alone after three refusals and only by that rule; a wait is kept; nobody starves;
- library: what a list hides is reachable from what it shows; a vector belongs to the
  text it was computed from; links of digests stay; every item is embedded in the end;
- pipeline: a summary is of the text the item has; attempts and refusals end; a score
  answers the profile its row names; every item is scored in the end;
- lists: pages neither repeat nor skip;
- model host: no permit is lost with a client that leaves; a search or a digest asked for by hand
  does not wait behind the backlog; `/status` is recent without flooding the host, and does not hang; a deploy cuts
  no request that is quick;
- frontend: once nothing is under way, the sidebar shows the server's counts, and every row
  of the list is as the server has it and inside what is selected; the
  pane shows what was clicked last; only what was shown becomes read.

## 2. Modules

| Module | What it is | Code |
|---|---|---|
| `Schedule` | the arithmetic of `next_interval`, as constant operators | `feed/schedule.rs` |
| `Cadence` | the interval of one feed over its life, in real seconds | `record_success`, `poll_inner`, `poll_feed` |
| `FeedLifecycle` | abstract: what a subscription promises the reader | stated from the refusal rule of `record_failure` and `update_feed` |
| `FeedPoll` | the feeds table and everyone who polls or edits it; implements `FeedLifecycle` | `feed/*`, `api.rs`, `store.rs` |
| `Library` | items, vectors, clusters, digests, retention, the reader's marks; implements `Stories` | `llm/embed.rs`, `llm/digest.rs`, `retention.rs`, `store.rs` |
| `Stories` | abstract: which reports stand under which story, and what reading marks | stated from clustering and mark-read |
| `ItemPipeline` | extraction and enrichment of items | `extract.rs`, `llm/enrich.rs`, `store.rs` |
| `ReaderStore` | one open tab: its store, its requests, the live channel, and the part of the server it sees | `stores/reader.svelte.ts`, `api.ts`, components, `api.rs`, `store.rs`, `events.rs` |
| `Parsing` | from entries to items, as operators | `feed/parse.rs`, `feed/comments.rs` |
| `Paging` | order, cursor and pages of a list, as operators | `list_items`, `cursor_for` |
| `Documents` | a publisher's edits, polls that parse and store, the favicon worker, a reader who pages | `store.rs`, `feed/favicon.rs`, `api.rs` |
| `ModelHost` | permits, health probe, searches, digests by hand, `/status` and settings requests, drain | `llm/mod.rs`, `llm/digest.rs`, `llm/embed.rs`, `llm/ollama.rs`, `api.rs`, `shutdown.rs`, `lib.rs` |
| `MCFeedPoll`, `MCLibrary`, `MCItemPipeline`, `MCReaderStore`, `MCDocuments`, `MCModelHost` | values of constants a `.cfg` cannot write | - |
| `ScheduleProofs`, `CadenceProofs`, `FeedPollProofs`, `LibraryProofs`, `ItemPipelineProofs`, `DocumentsProofs`, `ModelHostProofs`, `ReaderProofs` | theorems | - |

`FeedPoll` and `Cadence` extend `Schedule`; `FeedPoll` instantiates
`FeedLifecycle` and `Library` instantiates `Stories`, each under a refinement mapping. `Documents` extends `Parsing` and
instantiates `Paging`. `Library` and `ItemPipeline` are two
views of the table `items`, cut where the columns separate: no column that one
writes decides a step of the other, except that embedding waits for extraction,
which `Library` leaves to the arrival of the item. `ReaderStore` sees the same table
from the other side: the workers are there only as what they change and tell a tab. `ModelHost` is under the two workers:
what is one step of theirs there (asked, answered, failed, unreachable) is a permit, a
call and a time-out here.

Definitions whose comment begins with `Mutant:` are not part of a model: each is
a definition of the model with one plausible mistake, and replacing the original
by it must make the run named in `PROJECT.json` fail.

### Schedule and Cadence

`NextInterval(current, result, failures, ttl)` is the function, one unit being
one second in `Cadence` and a coarser one in `FeedPoll`. `Cadence` has three
variables (`interval_s`, `failures`, `ttl_minutes` in seconds) and one action per
way a poll ends: a 200 with or without new items, each with any declared ttl, a
304, a failure. What is passed as ttl differs between them, as in `poll_inner`.

### FeedPoll

| Model | Code |
|---|---|
| `feeds[i]` (url, disabled, next, interval, failures, refusals, etag, error) | a row; `etag` stands for ETag and Last-Modified together |
| `items[i]` | the items stored under the row, a set of (url, version) |
| `server[u]` | the version of the document at the publisher |
| `batch[i]`, `requests[r]` | polls between their read of the row and their write to it |
| `retired`, `owed` | history variables: rows the poller itself disabled; what is left of the wait the server named last |
| `Tick`, `Fetch`, `FinishPoll` | `tick`: `due_feeds`, one task per feed, a permit held for the fetch; the next tick waits for all |
| `RefreshStart/Fetch/Finish` | `refresh_feed` with its `poll_feed` |
| `Discover`, `AddFeedInsert`, `AddFeedRecord` | `add_feed`: three separate steps |
| `ImportFeed`, `SetDisabled`, `ReEnable`, `DeleteFeed` | the handlers of the same name |
| `RecordSuccess/Unchanged/RetryAfter/Failure` | the four store functions a poll may end in |
| `Publish`, `Elapse`, `Restart` | the world: external |

Time is relative: a row holds what is left of its wait; of overdue feeds only
the order is kept, which is all `due_feeds` looks at. `NextId` models SQLite's
choice of row ids (`INTEGER PRIMARY KEY` without `AUTOINCREMENT` uses the id of
a deleted newest row again). The wait for a permit and the server's answer are
one step, as nothing is read between them. Left out: columns that are only
displayed (title, site_url, icon, last_fetch_at, retry_after_s), the category,
jitter, the wall clock.

### Library

| Model | Code |
|---|---|
| `items[i]` (article, read, starred, cluster, attempts) | a row; `cluster` 0 is NULL, a head carries its own id |
| `vector[i]` | `item_embeddings`: the model and the text a vector is of |
| `old` | articles whose date has passed the 72-hour window and the retention cutoff |
| `embedder` | `pass` of `embed.rs`: asked, storing, stored, joining |
| `generator[g]`, `digest` | the tick's and the handler's `generate`, and the day's row |
| `Poll`, `Unsubscribe`, `Subscribe` | `insert_items_tx`, `delete_feed` (cascading), `insert_feed` |
| `EmbedStart` ... `EmbedJoin` | `due_for_embedding`, `record_embed_failure`, `record_embedding`, `neighbours_within`, `cluster_one`, `join_cluster`: each its own step, as in the code |
| `DigestStart/Write/Fail` | `digest_candidates`, the prune of invented ids and `record_digest`, an error of the model |
| `Prune` | `prune_items` |
| `SetRead`, `SetStarred`, `MarkRead` | `update_item`, `mark_read` |

Abstractions: similarity is a symmetric relation between articles; the best
neighbour is any neighbour; the order of candidates is free (more behaviours
than the code has); the charges of a failed batch are one step; the opt-out and
the extraction gate of `due_for_embedding` are left out; one day is digested;
mark-read takes a feed or everything.

`Stories` knows only a shelf per item and what is read. Under the mapping an item's shelf is
its head, or itself while it is in no cluster: embedding, digests and the
bookkeeping of a pass are stutters, `cluster_one` and `join_cluster` gather an item
that is alone, `update_item` marks one item and `mark_read` whole stories. Retention
and unsubscribing take items out of stories, which `Stories` does not promise
against; the run and the theorem are about libraries from which nothing goes.

### ItemPipeline

| Model | Code |
|---|---|
| `items[i]` (text, truncated, url, extracted, tries, error, summary, score, scored, attempts) | the columns of the same names; `summary` holds which text it is of, `score` which profile it answers |
| `extractor`, `refusals` | the worker's batch and page, and its map of refusing hosts |
| `opening[r]` | a request in `run_inline` |
| `enricher` | `pass` of `enrich.rs`: settings loaded, batch listed, model asked |
| `charged` | history: which agents have failed on an item, and whether they were refused |
| `ExtractList/Skip/Fetch/Finish` | `due_for_extraction` and the loop of `run` |
| `OpenStart/Finish/Timeout` | `get_item`, `run_inline` with its deadline |
| `EnrichLoad/List/Answered/Failed/Unreachable` | `settings::load`, `due_for_enrichment`, `full_pass` and `rescore_pass`, `record_enrich_failure` with its two outcomes |
| `SetAgent`, `SetLlm`, `SaveProfile` | `update_feed`, `save` |

Abstractions: items are not deleted here; candidate order is free; successive
versions of an article are one text; the politeness pause of a host is time only.
`ExtractEnabled` is `cfg.extract_enabled`: without it neither the worker nor a request
fetches, and the rows stay as they are.

### ModelHost

| Model | Code |
|---|---|
| `calls[c]`, `queue` | `llm_permits`: who holds a permit and for how long, and who waits, first come first served |
| `cache`, `lock` | `Health.last`: the answer with its age, and its mutex |
| `Generators` | which workers and requests call for a generation (240 s), not an embedding (120 s) |
| `requests[r]` | a handler of `status`, `get_settings`, `list_items` with `mode=semantic`, `make_digest`, or `stream`, and where it stands |
| `phase`, `drained` | serving, draining since a signal, stopped |
| `host`, `away`, `rested` | whether the machine answers; history: how long it has, and how long ago the last completed probe was |
| `WorkerCalls/Done` | `llm_permits.acquire()` of the workers, and the end of the call or its time-out |
| `Search`, `MakeDigest`, `ModelAnswered` | `embed_query`; `make_digest` with `generate`, which asks for nothing if the day held too little; the end of the call |
| `AskHealth`, `CacheHit`, `ProbeStart`, `ProbeAnswered/TimedOut`, `ModelsListed` | `Health::available`, `probe`, `ollama::models` |
| `Disconnect` | a client leaves and its handler is dropped at the await where it stands |
| `Signal`, `Exit`, `Boot` | `shutdown::signal`, the end of `run_server` or of the watchdog, the next start |
| `Tick` | time, which passes only while nothing is `Overdue` |

The module is timed: a unit is a tick, the time-outs are constants, and a tick is
allowed only when no call, probe, handler or drain has reached its end. That the process
itself takes no time between two awaits is an assumption of this module alone.
A probe sees the host as it is when the answer comes, or times out if the host was away at
some moment of it. The steps of a handler before its first await and after its last
are part of the neighbouring action. Left out: what is asked and answered, the
semaphore's batch operations, connections that stay open without a request.

### ReaderStore

| Model | Code |
|---|---|
| `db` | the tables as far as a tab sees them: feeds, stored, read and tagged items, the head of each cluster |
| `page` (sel, list, open, opening, feeds, topic, timer, atTop) | the `$state` of the store, `countsTimer`, `listAtTop` |
| `up`, `down` | requests not handled yet; answers and live events not received yet |
| `wanted`, `opened`, `upset` | history: the last click on an item, what has been in the pane, which part of the display the network may have spoiled since it was last read from the server (`Healed`) |
| `Hits`, `Near` | what the text index finds for the query, and what is near it in meaning |
| `Listed`, `Found` | `list_items`; with `mode=semantic` any of the near items that are embedded, by feed and not by topic (`semantic_search`), or the text index if the host does not answer |
| `SelectView/Feed/Topic`, `Search`, `OpenItem`, `Close`, `ToggleRead`, `MarkAllRead`, `RemoveFeed`, `Scroll` | clicks and keys, up to their first `await` |
| `Handle`, `Fail` | the handlers of `api.rs` with their store functions; a request that fails before or after the server did its part |
| `Receive` with `ReceiveItems`, `ReceiveDetail`, ... | what the code does after an `await`, or in `handle` |
| `Arrive`, `Enrich`, `Collapse`, `Retention`, `PollFails` | `ItemsNew`, `ItemEnriched` (its tags, which `Enriched` patches into row and pane), a cluster join and `prune_items` (which say nothing), `FeedUpdated` |
| `TimerFires`, `Lose` | `refreshCountsSoon`; an event lost to a lagging or reconnecting stream |

The page is one thread, so what runs between two awaits is one action; what is
left to do after an await travels with its message. Any two requests may overtake
each other, on the way out and on the way back; events keep their order.
Abstractions: the two requests of `refreshCounts` are one; what a worker stores
and what it emits is one step; one topic and one query stand for all; the list
has no order and no pages; the label that says how a search ran (`ranAs`) is left out; an
item that retention deleted keeps its marks in `db.read` and `db.tagged`, which the
properties compare with, and its id is not used again here (`Library` has that); `error`, `loadingItems`, the digest section, stars,
thumbs, settings and the dialogs (`addFeed`, `importOpml`, `refreshFeed`, which
reload as `removeFeed` does) are left out; marking an item unread by hand is
`ToggleRead`.

### Parsing, Paging, Documents

An entry is what feed-rs hands over (id, links, title, date, content or summary,
and the `<comments>` that `comments.rs` recovers); hrefs and titles are model
values, a body is its amount of prose and furniture, its picture, whether it hands
off to the rest, and its beginning. `StableGuid`, `DiscussionUrl`, `IsStub`,
`IsTruncated`, ... are the functions of the same names; `EntryId` models what
feed-rs puts where the source has no id, random where there is neither a link nor a
title. `Paging` is the order, the keyset and the cursor of `list_items`.

| Model | Code |
|---|---|
| `published` | the document at the publisher |
| `feed` (site, declared, icon, tries) | `site_url`, `icon_url`, `icon`, `icon_attempts` |
| `items` | the rows in the order of their ids, each with the entry it was made from (history) |
| `reading` | a client's pages so far, its cursor, and (history) what was in the list all the time |
| `Poll` | `parse`, `insert_items_tx`, `record_success` |
| `IconStart/Stored/Failed` | `feed_needing_icon`, `fetch_icon`, `record_icon`, `record_icon_failure` |
| `StartReading`, `NextPage`, `MarkRead` | `list_items` with its cursor; a row that leaves the unread list |

Abstractions: one subscription; rows are not deleted (`Library` does that); dates
are numbers; sanitizing only moves a lazy picture's source; the order in which icons
are tried is free.

## 3. Runs

All runs check for deadlock but those of `ReaderStore`, where a tab may be idle for ever. Every
property of a passing run has a mutant.

| Run | Instance | Shows |
|---|---|---|
| `FeedPollRaces` | one feed, one request of any kind, two refusals retire, one restart | types; validators stand for stored items; no enabled feed at the refusal limit; `FeedLifecycle` is implemented |
| `FeedPollAlone` | two feeds, a tick that takes one, one permit, ttls and waits below and above our ceiling, no requests | a named wait is kept, backoff is kept, no enabled feed starves: all of the loop alone, where no refresh can come between |
| `Cadence` | the constants of `schedule.rs` | bounds, backoff, drift to both ends |
| `LibraryClusters` | three reports of one story in two feeds, batches of two, dedupe on or off per pass | collapsed items are reachable, vectors belong to their items, `Stories` is implemented |
| `LibraryRetention` | two articles, retention, a digest written repeatedly, unsubscribe and return, two embedding models, one restart | retention breaks no stored link; every item is embedded or given up on |
| `PipelineRaces` | one item, one request, two agents, two profiles, one restart | attempts bounded, scores answer their profile, a stored article stays whatever a second fetch brings |
| `PipelineAlone` | two items on one host, no requests, opt-out, a profile edit, one restart | summaries of the stored text, refusals final, everything is scored |
| `Reader` | two items in two feeds, one found by text and the other by meaning, three clicks, arrivals or faults, two messages under way when one of them happens | the counts settle on the server's, every row of the list on its state there and inside what is selected, the pane shows the last click, only opened items become read, no opening hangs |
| `Documents` | seven documents of nine entries, three polls, two rows to a page, one row read meanwhile | a post is stored once and none lost, discussions stay with their posts, pages of dated rows are complete, the icon settles |
| `ModelHost` | a worker that generates and one that embeds, a request that may search and one that may make a digest, each of which may also ask for the status or the settings or listen, one permit; `Generate` 2, `Embed` 1, `Ttl` 2, `Probe` 1, `Models` 1, `Grace` 3 | no permit is lost, a search or digest waits for each of the others once at most, `/status` is recent and does not hang, probes are spaced, a deploy cuts no quick request |
| `LibraryCollapse` | two reports, retention | *violation*: retention deletes a head and its cluster is in no list |
| `PipelineTeaser` | one item, one request | *violation*: the teaser is summarized and the article never |

Why the bounds are enough. The races are between two writers of one row, so one
row with the worker and one request exercises every pair of steps; a third
writer adds orders of the same pairs (and the proofs cover any number). Two
versions of a document are enough to tell a stale validator from a current one.
Two or three refusals put at least one below the limit. Three items are the
least that make a cluster join go wrong (two to form one, one to move or split
it). Two items and batches of one are the least where one can starve the other.
Every counter has its bound in a guard or saturates; both kinds are named in the
CONSTANTS. `LibraryRetention` turns deduplication off: clustering is the subject
of `LibraryClusters`, and the digest's links do not depend on it. In `Reader` the
races are between two clicks, a click and an event, or an answer and an event, with
a fault or a third click between: three bounded happenings, with the requests,
answers and timers they cause not bounded at all. Two feeds with an item each are
enough for a narrowing to leave something out. The entries of `Documents` are chosen so
that each lacks or shares something: two posts on one article, an edit, a blank id, a
link without an id, an id without a link, three with a body only; two have the same date, so that a page ends
between them. Three polls put two edits of a document under one reader. In `ModelHost` two
requests are one at the mutex with a probe that it may give up and one that waits behind
it and loses by that, and the calls of both lengths are made by workers and by requests, so
that four wait for one permit; longer queues are the theorems'. The time-outs are as small as they can be
and still different where the code has them different: a generation is longer
than an embedding, a result lives longer than a probe takes, and the drain outlasts a
probe with the list of models, by one (the code: 240 s, 120 s, 60 s, 2 s, 5 s and the grace
of the environment). The theorems hold for all numbers with these two conditions: an embedding takes no longer
than a generation, and the drain outlasts a probe with the list of models.

Fairness. `FeedPoll`: the poll loop never returns, a fetch has a timeout, and time
passes whatever readers click (strong fairness of `Elapse` against a reader who
toggles a feed between any two ticks). `EveryFeedIsPolled` excepts a reader who
re-enables the same feed for ever, since each time sends it to the end of the queue.
`Library` and `ItemPipeline`: each worker's loop is weakly fair; the model host,
asked again and again, answers or fails sooner or later (strong fairness), since an
unreachable host is charged to nobody and nothing can be promised while it stays
off. A time-out counts as unreachable too (`is_unreachable`, `llm/ollama.rs:127`), so that
fairness also says that no item makes the host time out at every single attempt. `EveryItemEmbedded` excepts items that arrive for ever; `EveryItemScored`
excepts feeds that are opted out. In `ReaderStore` every request is handled or
fails, every answer and event is received or lost, and a timer fires; what the
reader and the workers do is bounded by `MaxActs`, so `PaneSettles` speaks of a
reader who sooner or later stops clicking. In `Documents` the favicon worker is
weakly fair. No fairness is assumed of readers, publishers, restarts or deletions.
In `Cadence` fairness is in the premise of `DriftReachesBounds`: it says where a feed
drifts *if* every poll ends the same way from some time on. `ModelHost` needs no
fairness: its bounds on waiting are invariants of a model with a clock.

## 4. Where code and comments disagree

Found while modelling and kept as runs (details in `PROJECT.json`):

1. `store.rs:89` says siblings keep a collapsed list from losing anything;
   `prune_items` deletes heads on their own (`LibraryCollapse`).
2. `store.rs:1615` says waiting for extraction keeps the two workers in step; the
   inline fetch is outside that condition (`PipelineTeaser`).

Disagreements of comments with the code that the models contain as well, each a few
steps of the actions above, without a run of their own:

- `store.rs:589` says a retired feed "stays in the list, with the reason on it", and
  `FeedInspector.svelte:216` that "the reason stays readable". A poll that began before two
  refused refreshes retired the feed, and ends well, clears the error and the refusals
  (`RecordSuccess`, `RecordUnchanged` of `FeedPoll`) and leaves the feed off.
  `RetiredHasReason` therefore holds of the poll loop alone, where it is proved.
- `extract.rs:6` says of the two fetches of a page that "whichever gets there first wins".
  With the worker and one request in `ItemPipeline`, the one that fails late writes its
  error and attempt on the item the other has extracted, and a second success overwrites
  the article with its own. `ArticleStays` is what holds.
- `README.md:36` says every item gets a summary and a score; with `ROSSO_EXTRACT=0`
  (`ExtractEnabled = FALSE`) enrichment waits for ever for the extraction of a teaser,
  and embedding by the same clause (`store.rs:1338`). `EveryItemScored` is checked with
  extraction on.
- `reader.svelte.ts:244` says a topic still narrows a search; one by meaning passes the
  feed only (`api.rs:434`, `store.rs:1423`, `ByMeaning` of `ReaderStore`), so the list shows
  items outside the topic. `ListSettles` says so: such a row belongs to the feed and to
  what is near the query.
- `store.rs:903` says mark-read marks "exactly what the list is showing"; while the list is
  of a search by meaning, `Marked` is what the text index finds, and listed items stay
  unread.

In the models too, and more briefly: the ttl that `schedule.rs:38`
calls a floor forgotten by the next 304 or failure (`feed/mod.rs:61`, `Cadence`);
row ids used again (`db.rs:197`), so that a poll in flight stores the items of a
deleted feed under the one that got its id (`FeedPoll`); a cursor that is not "the
sort key of the last row the client saw" (`store.rs:1794`) when that row is undated,
and an empty next page (`Documents`); a discussion equal to the article's link kept
from `<comments>`, though `parse.rs:34` speaks of one "separate from the article"
(`Parsing`); an entry with an id but neither link nor title, whose id `stable_guid` does not
look at, though `parse.rs:306` speaks of detecting exactly the entries whose id feed-rs
made up (`Parsing`); a refresh that overwrites a wait the poll loop recorded
(`store.rs:550`), and two polls in flight of which the later failure leaves a backoff one
failure short; a vector that lands on the item that got a deleted one's id; a digest written
over candidates that retention has deleted meanwhile (`store.rs:968`); a head that
is embedded again after a change of model and leaves its cluster; deleted entries
coming back with the next poll; mark-read reaching the head of another feed through
a hidden member (`store.rs:903`); an agent change undone by a late refusal
(`store.rs:265`); an item whose rescoring failed three times keeping its old score
(`settings.rs:82`); and, in `ReaderStore`: what a cut or lagging stream lost staying
lost until the next event or click, since nothing reloads on a reconnect
(`reader.svelte.ts:201`); a row that retention took staying in the list until it is loaded
again; two list
answers that overtake each other leaving the older list (`reader.svelte.ts:55`); the
embed pass moving counts without an event; mark-read reaching items that arrived
after the list was loaded, or that its view leaves out (`reader.svelte.ts:417`); an
article whose opening was not ended by picking another list popping up over it
(`reader.svelte.ts:238`). Each is a few steps of the actions above. The box's
pending search that survives the click that ends it (`SearchBox.svelte:19`) is in
the model as a search of its own.

Read in the code and not in any model, for whoever works on it: an item whose generation
always takes longer than 240 s is asked about for ever, since a time-out is taken for a host
that is off (`llm/ollama.rs:127`); feed and topic counts are said to be loaded together
(`reader.svelte.ts:84`), but are two requests, between which an item may be read; a blank
query with a cursor pages the plain list (`api.rs`, `list_items`); two loads of
`createResource` are not sequenced; a PUT of the settings page sends all its fields, so two
tabs overwrite each other's.

## 5. Proofs

What TLC checks on small instances, TLAPS proves for any constants that satisfy
the named assumptions (`IntervalAssumption`, `PollAssumption`, ... each of which
TLC evaluates in the runs). Nothing else is assumed; conditions a theorem needs
beyond them are hypotheses of its statement (`Requests = {}`, `Alone`,
`NothingGoes`, `OneModel`).

- **Schedule, Cadence.** `NextIntervalBounds` bounds every result.
  `OnlyPublisherExceedsCeiling` and `BackoffGrows` rest on the invariant that a
  failing feed's interval is no longer than what its next failure brings, and
  `Backoff` is monotone.
- **FeedPoll.** `IInv` is `TypeOK`, `ValidatorsMeanStored`, `RefusalLimit` and
  `RetiredIsOff` (a retired row is there and disabled). They are inductive together
  because no store function takes a validator from a snapshot: `record_unchanged`
  leaves the validators alone and `record_success` writes those of the document whose
  items it stores. One lemma per store function, one per action; a last section maps
  every step to a step or stutter of `FeedLifecycle`.
- **FeedPoll, the loop alone.** `AInv` adds per row: the task's snapshot has at
  least the row's failures (so the backoff computed from it is no shorter), and
  whatever is owed is on its way in the task or already in `next`; `RetiredHasReasonAlone`
  that without a refresh a row the loop has retired keeps its error, whatever servers answer,
  as it is in no batch any more.
- **Library.** The type invariant needs that whatever the host is asked about
  has attempts left (`AskedHasAttempts`). `ListLosesNothing` needs `CInv`: clusters are
  one level deep (`Flat`), an item without a vector is in no cluster, the batch is what is
  still due, the item being clustered is free, and the head chosen for it is, or will be, a
  head. It is proved for libraries from which nothing is deleted and whose model
  stays; `LibraryCollapse` shows that it does not hold beyond. `DigestLinksStay` needs
  neither hypothesis: no action but retention and unsubscribing deletes a row
  (`RowsSurvive`). Under the same two
  hypotheses `StoriesImplemented` maps every step of `Library` to a step or a stutter of
  `Stories`, with `CInv` as the invariant the mapping stands on: an item that joins is alone,
  and what mark-read matches is a union of stories.
- **ItemPipeline.** `PInv`: what is listed or fetched is stored, a pass holds one
  candidate per item and that has attempts left; `ScoreAnswersItsProfile` is part of it.
  `AttemptsAreBounded` counts what is under way: the failures charged to an item and the
  fetches of it that have not ended are together at most `MaxExtractAttempts` plus the
  number of requests (`Charges`), for which the worker must have an item once
  (`WorkerOnce`). A fetch may start only below the limit; every charge ends one.
- **ItemPipeline, the workers alone.** `AInv`: what is listed is pending, what is
  summarized or about to be is not, a candidate's text is still the row's, a
  refusal has spent every attempt. From it follow `SummaryOfStoredText`
  and `RefusalIsFinal`. `ArticlesStay` needs neither: it holds for any number of requests,
  as no step of either path takes an article from a row.
- **ModelHost**, for any number of workers, requests and permits and any time-outs. First
  the queues: what entering, leaving at the head and leaving from the middle do to a
  sequence in which nobody is twice. `NoPermitIsLost` is then inductive with the types of
  the queues. The health adds that the head of `lock` is the only one that may probe, that
  a probe is no older than its time-out, and that what is cached was so when it was written
  (its age against `away`): from it follow `StatusIsRecent` and `ProbesSpaced`. For
  `StatusWaitBounded` and `QuickRequestsSurvive` each request at the mutex has waited
  no longer than the probe ahead of it is old, one time-out more for each that was given up.
- **ReaderStore.** `TabInv` types what travels: whatever is in `up` and `down` is a request
  or an answer of its kind, about items there are, and at most one opening is waited for. With
  the history of clicks it gives `LastClickShown` and `ReadOnlyIfOpened`.
  `CountsSettle` needs `CountsInv`: whenever the numbers on the screen may differ from the
  server's, a refresh is still to come (`Pending`: a timer, a request for them, or a message
  that makes the page ask), or else the last answer under way has the server's numbers
  (`Ends`), unless the network has spoiled them.
  `ListSettles` needs more, as a row is told of in three ways: by a load of the list, by
  the answer to a read mark, by an event. `ListInv` says that the last load asked for is
  of what is selected now, and that either a load is still to come (one is asked for, or
  an answer under way makes the page ask) or what is under way agrees with the tables
  (`Agrees`): the last load leaves only rows the server has, or had when they were read, and
  that belong to what is selected, by the narrowing or by meaning; and what is said of
  each row last agrees with the tables, read mark and tags each on its own, since an event
  tells of the tags alone; where nothing is said, the page has it already. Retention leaves
  the marks of the row, and a load of the list handled now puts right what the network upset. Every step is one of a few changes of this, whose effect on the last
  message of a kind is settled once for both invariants (`LastAppended`, `LastRemoved`):
  something is told (`AgreesTold`), received (`AgreesReceived`), loaded
  (`AgreesLoaded`), or asked for (`AskedKeeps`).
- **ModelHost, the permits.** `AllWaitTheirTurn` needs a budget: a request, whether a search
  or a digest, still waits for the rest of every call that holds a permit and for the whole of every call
  that is before it in the queue (`Ahead`). The time it has waited and the sum of these never
  exceed the calls of all workers and requests together: a tick moves a unit from one to the
  other, a call that ends leaves its unused rest, and who comes later queues behind. The
  sums are folds over sets; lemmas say how they split and grow.
- **Documents.** The rows come out of a fold over the document, a discussion out of the
  last entry that names it, a page out of a choice of the first row again and again: the
  first part of the module says what each of them returns, for documents, lists and pages
  of any length. `StoreOK` then says that rows are what `RowOf` makes of some entry at some
  time, read or unread, and that no two have the same guid. As the guid of an entry and its
  identity tell entries apart alike (`GuidIsIdentity`), the theorems about posts follow
  from what a poll adds, that about discussions from what a row is. `PagesCovered` needs `ReadOK`: nothing seen comes after the cursor
  a reader holds, and every row that stood in the list all the time has been seen or comes
  after it. New rows may come before or after; what matters is that no row changes its
  place, and that the cursor of a dated row is its place.
  `PublicationsAssumption` says what documents are: entries and links in sequences, links
  that lead somewhere, and no id or link that is what a hash is (a hash is taken not to
  collide; that the code's has 64 bits is left out).

Only model-checked: every liveness property (`EveryFeedIsPolled`,
`DriftReachesBounds`, `EveryItemEmbedded`, `EveryItemScored`, `PaneSettles`, `IconSettles`),
since fairness and ENABLED are out of the prover's reach. Induction over data is out of
reach as well where it takes an operator for its parameter; sums, folds and pages are
proved instead by the least number at which a statement fails (`LeastNumber`).

## 6. What could come next

1. The starred and interesting views of `list_items`; stars and thumbs in `ReaderStore`;
   the two requests of `refreshCounts` as two.
2. Settings: a PUT, its validation, and two tabs that send one each.

## 7. Not modelled, and why

The search of a page for feeds, OPML, prompts and the JSON of the model host are
pure functions or I/O whose outcomes are inputs of the models. Auth, routing,
configuration and errors keep no state. Schema creation and migrations run once before
everything else. Rendering is the browser's, and so are the helpers of single components
(`createResource`, the menu, the preferences). Full-text search, and the ranking of a
semantic one, read without writing; what such a search waits for is in `ModelHost`, what
its answer does to the list in `ReaderStore`.
`jitter` and the pauses of the workers only choose among the interleavings the models
already allow.
