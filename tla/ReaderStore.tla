---------------------------- MODULE ReaderStore ----------------------------
(***************************************************************************)
(* One open tab: the store behind its components (reader.svelte.ts), the   *)
(* server it asks (api.rs, store.rs) and the live channel (events.rs).     *)
(*                                                                         *)
(* The page is single-threaded: a click, an answer, an event or a timer is *)
(* one step, and every await ends it.  A request waits in `up` until the   *)
(* server handles it, its answer and the live events wait in `down` until  *)
(* the page receives them.  Answers may overtake each other in both        *)
(* directions (each request has a connection of its own); events come in   *)
(* order, or are lost when the stream lags or is cut.                      *)
(*                                                                         *)
(* What a click still has to do after an await travels with its message.   *)
(* The two requests of refreshCounts, always sent together, are one here.  *)
(* Ordering and paging of the list, the label that says how a search ran,  *)
(* the digest, the settings, stars and thumbs are left out: rows are read  *)
(* or not, tagged or not, and one topic and one query stand for all.       *)
(***************************************************************************)
EXTENDS Naturals, FiniteSets, SequencesExt

CONSTANTS
  Items,      \* item ids
  Feeds,      \* subscriptions
  FeedOf,     \* the feed of an item
  Hits,       \* the items the text index finds for the query
  Near,       \* the items whose vector is near the query's
  MinTopic,   \* MIN_TOPIC_COUNT of store.rs
  MaxActs,      \* bound: what the reader and the loops do, and what goes wrong
  MaxUnderWay,  \* bound: messages under way when one of them acts
  None

ASSUME ReaderAssumption ==
  /\ IsFiniteSet(Items)
  /\ FeedOf \in [Items -> Feeds]
  /\ Hits \subseteq Items
  /\ Near \subseteq Items
  /\ MinTopic \in Nat \ {0}
  /\ MaxActs \in Nat
  /\ MaxUnderWay \in Nat \ {0}
  /\ None \notin Items \cup Feeds

VARIABLES
  db,      \* the server's tables: feeds, stored, read and tagged items, cluster heads
  page,    \* the store of the tab
  up,      \* requests on their way to the server, oldest first
  down,    \* answers and events on their way to the page, oldest first
  acts,    \* how much of MaxActs is used up
  wanted,  \* history: the item clicked last, None once the pane was closed
  opened,  \* history: the items that have been in the pane
  upset    \* history: what the page shows that the network may have got wrong

vars == <<db, page, up, down, acts, wanted, opened, upset>>

Views     == {"unread", "all"}

\* Nothing in the search box, or the query and the mode it is searched in.
Searches  == {"none", "text", "meaning"}
Selection == [view : Views, feed : Feeds \cup {None}, tag : BOOLEAN, q : Searches]
Row       == [read : BOOLEAN, tagged : BOOLEAN]
Opened    == [item : Items, row : Row]

ASSUME ReaderNone == None \notin Opened

\* The list and the feeds of the sidebar, as they are answered and shown.
Lists   == UNION {[S -> Row] : S \in SUBSET Items}
Sidebar == UNION {[S -> 0..Cardinality(Items)] : S \in SUBSET Feeds}

\* What the page remembers; `timer` is countsTimer.
Pages ==
  [sel : Selection, list : Lists,
   open : Opened \cup {None}, opening : Items \cup {None},
   feeds : Sidebar, topic : 0..Cardinality(Items), timer : BOOLEAN, atTop : BOOLEAN]

Database ==
  [feeds : SUBSET Feeds, stored : SUBSET Items, read : SUBSET Items,
   tagged : SUBSET Items, head : [Items -> Items]]

\* The two parts of the display that can be wrong each on its own.
Parts == {"counts", "list"}
-----------------------------------------------------------------------------
(* Requests. *)

Ask(kind, arg) == [kind |-> kind, arg |-> arg]

Load(sel) == <<Ask("items", sel)>>

\* refreshCounts, for the click that opened `item`.
Counts(item) == <<Ask("counts", item)>>

Reload(sel) == Counts(None) \o Load(sel)

-----------------------------------------------------------------------------
(* The server: what it answers, and what a request changes. *)

RowOf(d, i) == [read |-> i \in d.read, tagged |-> i \in d.tagged]

Shown(d, i) == i \in d.stored /\ d.head[i] = i

\* The narrowing as the text index and the list know it.
InFeed(scope, i) == scope.feed = None \/ FeedOf[i] = scope.feed

InScope(d, scope, i) ==
  /\ InFeed(scope, i)
  /\ scope.tag => i \in d.tagged
  /\ scope.q # "none" => i \in Hits

\* list_items: a search spans the archive and is not collapsed.
Listed(d, sel) ==
  {i \in d.stored :
     /\ InScope(d, sel, i)
     /\ sel.q # "none" \/ (Shown(d, i) /\ (sel.view = "all" \/ i \notin d.read))}

\* semantic_search: the feed narrows it, the topic does not.
ByMeaning(sel, i) == sel.q = "meaning" /\ InFeed(sel, i) /\ i \in Near

\* What a search by meaning may answer: those of the near items that are embedded
\* by now, or what the text index has when the model host does not answer.
Found(d, sel) ==
  {Listed(d, sel)} \cup
  (IF sel.q = "meaning" THEN SUBSET {i \in d.stored : ByMeaning(sel, i)} ELSE {})

Unread(d) == {i \in d.stored : Shown(d, i) /\ i \notin d.read}

FeedCounts(d) == [f \in d.feeds |-> Cardinality({i \in Unread(d) : FeedOf[i] = f})]

TopicCount(d) ==
  LET n == Cardinality(Unread(d) \cap d.tagged) IN IF n >= MinTopic THEN n ELSE 0

\* mark_read: what the filters match by the text index, and the clusters of it whole.
Marked(d, scope) ==
  {i \in d.stored : \E j \in d.stored \ d.read :
                      InScope(d, scope, j) /\ d.head[i] = d.head[j]}

\* A request for what is no longer there is a 404.
Possible(r) ==
  /\ r.kind = "detail" => r.arg \in db.stored
  /\ r.kind = "patch" => r.arg.item \in db.stored
  /\ r.kind = "remove" => r.arg \in db.feeds

\* The tables after the request.
Effect(r) ==
  CASE r.kind = "patch" ->
         [db EXCEPT !.read = IF r.arg.read THEN @ \cup {r.arg.item} ELSE @ \ {r.arg.item}]
    [] r.kind = "mark" -> [db EXCEPT !.read = @ \cup Marked(db, r.arg)]
    [] r.kind = "remove" ->
         LET gone == {i \in Items : FeedOf[i] = r.arg}
         IN [db EXCEPT !.feeds = @ \ {r.arg}, !.stored = @ \ gone,
                       !.read = @ \ gone, !.tagged = @ \ gone]
    [] OTHER -> db

\* What an answer to r may hold.
BodiesOf(r, d) ==
  CASE r.kind = "items"  -> {[i \in S |-> RowOf(d, i)] : S \in Found(d, r.arg)}
    [] r.kind = "counts" -> {[feeds |-> FeedCounts(d), topic |-> TopicCount(d)]}
    [] r.kind = "detail" -> {RowOf(d, r.arg)}
    [] r.kind = "patch"  -> {RowOf(d, r.arg.item)}
    [] OTHER -> {None}

Answer(r, ok, body) ==
  [kind |-> r.kind, arg |-> r.arg, ok |-> ok, body |-> body]

Event(kind, item, body) ==
  [kind |-> kind, arg |-> item, ok |-> TRUE, body |-> body]

Events == {"items-new", "feed-updated", "item-enriched"}

\* What a message bears on.
PartOf(kind) ==
  CASE kind = "counts" -> {"counts"}
    [] kind \in {"items", "patch", "detail", "item-enriched"} -> {"list"}
    [] OTHER -> {}

\* The part of the display for which the k-th message overtakes an earlier one.
Overtaking(queue, k) ==
  {p \in Parts : p \in PartOf(queue[k].kind) /\ \E j \in 1..(k - 1) : p \in PartOf(queue[j].kind)}

\* What was wrong before is put right by counts read now, and by a list read now
\* if it is of what is selected and no other is asked for.
Healed(k) ==
  {p \in Parts :
     \/ p = "counts" /\ up[k].kind = "counts"
     \/ /\ p = "list" /\ up[k] = Ask("items", page.sel)
        /\ \A j \in 1..Len(up) : up[j].kind = "items" => j = k}

\* The page has been loaded and nothing is under way: init is done.
Init ==
  /\ \E stored \in SUBSET Items :
       db = [feeds |-> Feeds, stored |-> stored, read |-> {}, tagged |-> {},
             head |-> [i \in Items |-> i]]
  /\ LET sel == [view |-> "unread", feed |-> None, tag |-> FALSE, q |-> "none"]
     IN page = [sel |-> sel, list |-> [i \in Listed(db, sel) |-> RowOf(db, i)],
                open |-> None, opening |-> None, feeds |-> FeedCounts(db),
                topic |-> TopicCount(db), timer |-> FALSE, atTop |-> TRUE]
  /\ up = <<>> /\ down = <<>>
  /\ acts = 0
  /\ wanted = None /\ opened = {} /\ upset = {}

\* One of the bounded things happens; faults do not wait for a quiet network.
Act   == acts < MaxActs /\ acts' = acts + 1
Start == Act /\ Len(up) + Len(down) < MaxUnderWay

Handle(k) ==
  LET r     == up[k]
      ok    == Possible(r)
      after == IF ok THEN Effect(r) ELSE db
  IN /\ db' = after
     /\ up' = RemoveAt(up, k)
     /\ \E body \in (IF ok THEN BodiesOf(r, after) ELSE {None}) :
          down' = Append(down, Answer(r, ok, body))
     /\ upset' = (upset \ Healed(k)) \cup Overtaking(up, k)
     /\ UNCHANGED <<page, acts, wanted, opened>>

\* The request fails: before the server, or on the way back.
Fail(k) ==
  LET r == up[k]
  IN /\ Act
     /\ \E reached \in BOOLEAN : db' = IF reached /\ Possible(r) THEN Effect(r) ELSE db
     /\ up' = RemoveAt(up, k)
     /\ down' = Append(down, Answer(r, FALSE, None))
     /\ upset' = upset \cup (IF r.kind \in {"patch", "mark", "remove"} THEN Parts ELSE PartOf(r.kind))
     /\ UNCHANGED <<page, wanted, opened>>

\* A poll stores an item, and says so.  An id retention took is not given again
\* here (Library has what happens when it is).
Arrive(i) ==
  /\ Start
  /\ i \notin db.stored \cup db.read
  /\ FeedOf[i] \in db.feeds
  /\ db' = [db EXCEPT !.stored = @ \cup {i}, !.head[i] = i]
  /\ down' = Append(down, Event("items-new", None, None))
  /\ UNCHANGED <<page, up, wanted, opened, upset>>

\* The enricher tags an item and sends what it wrote: the tags, not the row.
Enrich(i) ==
  /\ Start
  /\ i \in db.stored \ db.tagged
  /\ db' = [db EXCEPT !.tagged = @ \cup {i}]
  /\ down' = Append(down, Event("item-enriched", i, TRUE))
  /\ UNCHANGED <<page, up, wanted, opened, upset>>

\* prune_items: a read item is deleted, and nothing is said.  What it was last is
\* kept in `read` and `tagged`, for the properties alone.
Retention(i) ==
  /\ Start
  /\ i \in db.stored \cap db.read
  /\ db' = [db EXCEPT !.stored = @ \ {i}]
  /\ UNCHANGED <<page, up, down, wanted, opened, upset>>

\* The embed pass puts an item under another report of its story.  The counts
\* are of heads, and nothing is said.
Collapse(i, h) ==
  /\ Start
  /\ i # h
  /\ Shown(db, i) /\ Shown(db, h)
  /\ db' = [db EXCEPT !.head[i] = h]
  /\ upset' = upset \cup {"counts"}
  /\ UNCHANGED <<page, up, down, wanted, opened>>

\* A poll fails: only the feed row changes, and the sidebar is told.
PollFails ==
  /\ Act
  /\ down' = Append(down, Event("feed-updated", None, None))
  /\ UNCHANGED <<db, page, up, wanted, opened, upset>>

\* The stream is cut or lags: an event is gone.
Lose(k) ==
  /\ down[k].kind \in Events
  /\ Act
  /\ down' = RemoveAt(down, k)
  /\ upset' = Parts
  /\ UNCHANGED <<db, page, up, wanted, opened>>
-----------------------------------------------------------------------------
(* The page receives an answer or an event. *)

\* Mutant: an event that finds a refresh under way is taken as covered by it.
CountsSoonOnce(p) ==
  [p EXCEPT !.timer = @ \/ \A m \in Range(up) \cup Range(down) : m.kind # "counts"]

\* refreshCountsSoon: one timer at a time.
CountsSoon(p) == [p EXCEPT !.timer = TRUE]

\* patchLocal: the whole row.
Patched(p, i, row) ==
  [p EXCEPT
     !.list = [j \in DOMAIN p.list |-> IF j = i THEN row ELSE p.list[j]],
     !.open = IF p.open # None /\ p.open.item = i THEN [item |-> i, row |-> row] ELSE p.open]

\* The patch of an enriched item: what the event carries, in the row and the pane.
Enriched(p, i, tagged) ==
  [p EXCEPT
     !.list = [j \in DOMAIN p.list |->
                 IF j = i THEN [p.list[j] EXCEPT !.tagged = tagged] ELSE p.list[j]],
     !.open = IF p.open # None /\ p.open.item = i
              THEN [item |-> i, row |-> [p.open.row EXCEPT !.tagged = tagged]] ELSE p.open]

\* openItem's finally.
Settled(p, i) == IF p.opening = i THEN [p EXCEPT !.opening = None] ELSE p

Remember(p, requests) == page' = p /\ up' = up \o requests

\* loadItems; a failure leaves the list.
ReceiveItems(m) ==
  /\ Remember(IF m.ok THEN [page EXCEPT !.list = m.body] ELSE page, <<>>)
  /\ UNCHANGED opened

\* Mutant: the tab adds up what it is told.
ReceiveCountsAdding(m) ==
  LET p == IF m.ok THEN [page EXCEPT !.feeds = m.body.feeds, !.topic = @ + m.body.topic]
           ELSE page
  IN /\ Remember(IF m.arg # None THEN Settled(p, m.arg) ELSE p, <<>>)
     /\ UNCHANGED opened

\* loadFeeds and loadTopics; openItem ends with them.
ReceiveCounts(m) ==
  LET p == IF m.ok THEN [page EXCEPT !.feeds = m.body.feeds, !.topic = m.body.topic] ELSE page
  IN /\ Remember(IF m.arg # None THEN Settled(p, m.arg) ELSE p, <<>>)
     /\ UNCHANGED opened

\* Mutant: whatever arrives last is shown.
ReceiveDetailAnyway(m) ==
  /\ opened' = IF m.ok THEN opened \cup {m.arg} ELSE opened
  /\ LET p == [page EXCEPT !.open = [item |-> m.arg, row |-> m.body]]
     IN IF ~m.ok THEN Remember(Settled(page, m.arg), <<>>)
        ELSE IF m.body.read THEN Remember(Settled(p, m.arg), <<>>)
        ELSE Remember(p, <<Ask("patch", [item |-> m.arg, read |-> TRUE, opens |-> TRUE])>>)

\* Mutant: the wait ends with the article only, not in a finally.
ReceiveDetailStuck(m) ==
  /\ m.ok /\ page.opening = m.arg
       => LET p == [page EXCEPT !.open = [item |-> m.arg, row |-> m.body]]
          IN IF m.body.read THEN Remember(Settled(p, m.arg), <<>>)
             ELSE Remember(p, <<Ask("patch", [item |-> m.arg, read |-> TRUE, opens |-> TRUE])>>)
  /\ m.ok /\ page.opening = m.arg => opened' = opened \cup {m.arg}
  /\ ~(m.ok /\ page.opening = m.arg) => Remember(page, <<>>) /\ UNCHANGED opened

\* openItem, back from its first await: an answer that was overtaken is
\* dropped, a failure ends the wait.
ReceiveDetail(m) ==
  \/ /\ page.opening # m.arg
     /\ Remember(page, <<>>)
     /\ UNCHANGED opened
  \/ /\ page.opening = m.arg
     /\ ~m.ok
     /\ Remember(Settled(page, m.arg), <<>>)
     /\ UNCHANGED opened
  \/ /\ page.opening = m.arg
     /\ m.ok
     /\ opened' = opened \cup {m.arg}
     /\ LET p == [page EXCEPT !.open = [item |-> m.arg, row |-> m.body]]
        IN IF m.body.read THEN Remember(Settled(p, m.arg), <<>>)
           ELSE Remember(p, <<Ask("patch", [item |-> m.arg, read |-> TRUE, opens |-> TRUE])>>)

\* setRead, back from its first await; openItem catches its failure, a key
\* press does not.
ReceivePatch(m) ==
  /\ IF m.ok
     THEN Remember(Patched(page, m.arg.item, m.body),
                   Counts(IF m.arg.opens THEN m.arg.item ELSE None))
     ELSE Remember(IF m.arg.opens THEN Settled(page, m.arg.item) ELSE page, <<>>)
  /\ UNCHANGED opened

\* markAllRead.
ReceiveMark(m) ==
  /\ Remember(page, IF m.ok THEN Reload(page.sel) ELSE <<>>)
  /\ UNCHANGED opened

\* removeFeed: a list narrowed to the feed widens.
ReceiveRemove(m) ==
  LET p == IF page.sel.feed = m.arg THEN [page EXCEPT !.sel.feed = None] ELSE page
  IN /\ IF m.ok THEN Remember(p, Reload(p.sel)) ELSE Remember(page, <<>>)
     /\ UNCHANGED opened

\* handle: the list is only reloaded under a reader who would not notice.
ReceiveEvent(m) ==
  LET p         == CountsSoon(page)
      unnoticed == /\ m.kind = "items-new"
                   /\ p.atTop /\ p.open = None /\ p.opening = None /\ p.sel.q = "none"
  IN /\ IF m.kind = "item-enriched"
        THEN Remember(CountsSoon(Enriched(page, m.arg, m.body)), <<>>)
        ELSE Remember(p, IF unnoticed THEN Load(p.sel) ELSE <<>>)
     /\ UNCHANGED opened

Receive(k) ==
  LET m == down[k]
  IN /\ m.kind \in Events => \A j \in 1..(k - 1) : down[j].kind \notin Events
     /\ \/ m.kind = "items" /\ ReceiveItems(m)
        \/ m.kind = "counts" /\ ReceiveCounts(m)
        \/ m.kind = "detail" /\ ReceiveDetail(m)
        \/ m.kind = "patch" /\ ReceivePatch(m)
        \/ m.kind = "mark" /\ ReceiveMark(m)
        \/ m.kind = "remove" /\ ReceiveRemove(m)
        \/ m.kind \in Events /\ ReceiveEvent(m)
     /\ down' = RemoveAt(down, k)
     /\ upset' = upset \cup Overtaking(down, k)
     /\ UNCHANGED <<db, acts, wanted>>

\* countsTimer fires.
TimerFires ==
  /\ page.timer
  /\ Remember([page EXCEPT !.timer = FALSE], Counts(None))
  /\ UNCHANGED <<db, down, acts, wanted, opened, upset>>
-----------------------------------------------------------------------------
(* The reader. *)

Click ==
  /\ Start
  /\ UNCHANGED <<db, down, opened, upset>>

\* Mutant: the list is asked for before the selection is stored.
SelectLate(sel) ==
  /\ Click
  /\ Remember([page EXCEPT !.sel = sel, !.open = None], Load(page.sel))
  /\ UNCHANGED wanted

\* select: whatever is picked, the pane closes and the list is asked for.
Select(sel) ==
  /\ Click
  /\ Remember([page EXCEPT !.sel = sel, !.open = None], Load(sel))
  /\ UNCHANGED wanted

\* A view clears the rest; a feed and the topic clear each other.
SelectView(view) == Select([view |-> view, feed |-> None, tag |-> FALSE, q |-> "none"])

SelectFeed(f) ==
  /\ f \in DOMAIN page.feeds
  /\ Select([page.sel EXCEPT !.feed = f, !.tag = FALSE])

SelectTopic ==
  /\ page.topic > 0
  /\ Select(IF page.sel.tag THEN [page.sel EXCEPT !.tag = FALSE]
            ELSE [page.sel EXCEPT !.tag = TRUE, !.feed = None])

\* search: the box typed in, switched to the other mode, or cleared.
Search(q) ==
  /\ q # page.sel.q
  /\ Select([page.sel EXCEPT !.q = q])

\* Mutant: the item is marked read when it is clicked.
OpenItemMarking(i) ==
  /\ i \in DOMAIN page.list
  /\ Click
  /\ Remember([page EXCEPT !.opening = i],
              <<Ask("detail", i), Ask("patch", [item |-> i, read |-> TRUE, opens |-> FALSE])>>)
  /\ wanted' = i

OpenItem(i) ==
  /\ i \in DOMAIN page.list
  /\ Click
  /\ Remember([page EXCEPT !.opening = i], <<Ask("detail", i)>>)
  /\ wanted' = i

\* closeItem and showDigests: nothing is open or awaited any more.
Close ==
  /\ page.open # None \/ page.opening # None
  /\ Click
  /\ Remember([page EXCEPT !.open = None, !.opening = None], <<>>)
  /\ wanted' = None

\* The key m.
ToggleRead ==
  /\ page.open # None
  /\ Click
  /\ Remember(page, <<Ask("patch",
       [item |-> page.open.item, read |-> ~page.open.row.read, opens |-> FALSE])>>)
  /\ UNCHANGED wanted

\* The button that marks read: it sends the narrowing, without the view.
MarkAllRead ==
  /\ Click
  /\ Remember(page, <<Ask("mark", page.sel)>>)
  /\ UNCHANGED wanted

RemoveFeed(f) ==
  /\ f \in DOMAIN page.feeds
  /\ Click
  /\ Remember(page, <<Ask("remove", f)>>)
  /\ UNCHANGED wanted

Scroll ==
  /\ Click
  /\ Remember([page EXCEPT !.atTop = ~@], <<>>)
  /\ UNCHANGED wanted
-----------------------------------------------------------------------------
Next ==
  \/ \E k \in 1..Len(up) : Handle(k) \/ Fail(k)
  \/ \E k \in 1..Len(down) : Receive(k) \/ Lose(k)
  \/ \E i \in Items : Arrive(i) \/ Enrich(i) \/ Retention(i) \/ OpenItem(i)
  \/ \E i, h \in Items : Collapse(i, h)
  \/ PollFails
  \/ TimerFires
  \/ \E view \in Views : SelectView(view)
  \/ \E f \in Feeds : SelectFeed(f) \/ RemoveFeed(f)
  \/ \E q \in Searches : Search(q)
  \/ SelectTopic \/ Close \/ ToggleRead \/ MarkAllRead \/ Scroll

Spec == Init /\ [][Next]_vars

\* Every request is answered or fails, every answer arrives, a timer fires.
\* Nothing makes the reader click or the workers work.
Fairness ==
  /\ WF_vars(\E k \in 1..Len(up) : Handle(k))
  /\ WF_vars(\E k \in 1..Len(down) : Receive(k))
  /\ WF_vars(TimerFires)

FairSpec == Spec /\ Fairness
-----------------------------------------------------------------------------
(* Properties. *)

\* The shape of the tables and of the store.
ReaderTypeOK ==
  /\ db \in Database
  /\ page \in Pages
  /\ upset \subseteq Parts
  /\ wanted \in Items \cup {None}

Quiet == up = <<>> /\ down = <<>> /\ ~page.timer

\* When nothing is under way any more, the sidebar shows the numbers the server
\* has, however the clicks, the events and the timer were interleaved -- unless,
\* since the server last counted, the network reordered two answers of a kind or
\* lost something, or the embed pass collapsed an item (refreshCountsSoon,
\* refreshCounts, setRead, removeFeed).
CountsSettle ==
  Quiet /\ "counts" \notin upset =>
    /\ page.feeds = FeedCounts(db)
    /\ page.topic = TopicCount(db)

\* When nothing is under way any more, every row of the list is an item the
\* server has, or retention took after it was read, in the state it has or had
\* there, and belongs to what is selected: the narrowing the sidebar shows, or,
\* searched by meaning, the feed and the near items -- unless the network
\* reordered or lost something that bears on the list since it was last loaded
\* (select, search, loadItems, patchLocal, handle).
ListSettles ==
  Quiet /\ "list" \notin upset =>
    \A i \in DOMAIN page.list :
      /\ i \in db.stored \cup db.read
      /\ page.list[i] = RowOf(db, i)
      /\ InScope(db, page.sel, i) \/ ByMeaning(page.sel, i)

\* An item appears in the pane only if it is the one clicked last, and the pane
\* was not closed since: answers that were overtaken open nothing (openItem).
LastClickShown ==
  [][ page'.open # None /\ (page.open = None \/ page'.open.item # page.open.item)
        => page'.open.item = wanted ]_vars

\* Apart from the button that marks the narrowing read, an item becomes read only
\* if its article was in the pane: a click whose answer was overtaken by another
\* leaves its item unread (openItem, setRead).
ReadOnlyIfOpened ==
  [][ \A i \in db'.read \ db.read :
        \/ i \in opened
        \/ \E k \in 1..Len(up) : up[k].kind = "mark" /\ i \in Marked(db, up[k].arg) ]_vars

\* The pane never waits for ever: what is being opened is shown, fails, is closed
\* or gives way to another (openItem's finally).
PaneSettles == page.opening # None ~> page.opening = None
=============================================================================
