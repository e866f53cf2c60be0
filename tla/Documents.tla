----------------------------- MODULE Documents -----------------------------
(***************************************************************************)
(* What becomes of a document: a publisher edits it, polls parse it and    *)
(* store what is new, the favicon worker looks after its site, and a       *)
(* reader pages through the list meanwhile (parse.rs, record_success,      *)
(* favicon.rs, list_items).                                                *)
(*                                                                         *)
(* One subscription that is polled now and then and always answers with    *)
(* the whole document; when and whether is the subject of FeedPoll.  Rows  *)
(* are a sequence, their ids the positions; none is deleted here.  A row   *)
(* remembers the entry it was made from and the document that was in.      *)
(***************************************************************************)
EXTENDS Parsing, FiniteSets

CONSTANTS
  Publications,  \* the documents the publisher may have
  PageIcons,     \* the icons the page of a site names
  MaxTries,      \* MAX_ATTEMPTS of favicon.rs
  Limit,         \* rows to a page
  MaxPolls,      \* bound: polls
  MaxReads       \* bound: rows marked read

ASSUME DocumentsAssumption ==
  /\ Limit \in Nat \ {0}
  /\ MaxTries \in Nat \ {0}
  /\ MaxPolls \in Nat /\ MaxReads \in Nat
  /\ None \notin [ts : Nat, id : Nat]

Entries == UNION {ToSet(document.entries) : document \in Publications}

\* Entries and links come in sequences; a link leads somewhere.  No id and no link is
\* what a hash is: a hash is what it is made from here.
ASSUME PublicationsAssumption ==
  /\ \A document \in Publications : document.entries \in Seq(Entries)
  /\ \A entry \in Entries :
       /\ entry.date \in Nat \cup {None}
       /\ entry.links \in Seq(ToSet(entry.links))
       /\ \A link \in ToSet(entry.links) : link # None /\ Resolve[link.href] # None
  /\ \A named, hashed \in Entries :
       {named.id, UrlOf(named.links), Blank}
         \cap {<<"hash", UrlOf(hashed.links), hashed.title>>,
               <<UrlOf(hashed.links), hashed.title>>,
               ContentHash(hashed),
               <<hashed.title, hashed.date, StartOf(hashed)>>} = {}

VARIABLES
  published,  \* the document at the publisher
  feed,       \* the row of the subscription: site_url, icon_url, icon, icon_attempts
  items,      \* the rows of its items
  polls,      \* how many polls there were: the clock of fetched_at
  worker,     \* the site the favicon worker is fetching from, or None
  reading     \* the reader's way through the unread list, page by page, or None

docVars == <<published, feed, items, polls, worker, reading>>

List == INSTANCE Paging

Ids == DOMAIN items
Unread == {i \in Ids : ~items[i].read}
-----------------------------------------------------------------------------
(* Storing a document. *)

\* The UNIQUE(feed_id, guid) of items, and OR IGNORE.
Insert(rows, row) ==
  IF \E i \in DOMAIN rows : rows[i].guid = row.guid THEN rows ELSE Append(rows, row)

\* The row of an entry, and where it is from.
RowOf(document, n, now) ==
  LET item == ParseItem(document, n, now)
  IN [entry     |-> document.entries[n],
      among     |-> ToSet(document.entries),
      guid      |-> item.guid,
      url       |-> item.url,
      comments  |-> item.comments,
      published |-> item.published,
      text      |-> item.text,
      truncated |-> item.truncated,
      fetched   |-> now,
      read      |-> FALSE]

\* insert_items_tx: one after the other, in the order of the document.
InsertItems(rows, document, now) ==
  FoldLeft(Insert, rows, [n \in DOMAIN document.entries |-> RowOf(document, n, now)])

\* COALESCE(new, old)
Coalesce(new, old) == IF new # None THEN new ELSE old

\* Mutant: what the document does not name is forgotten.
FeedAfterBlanking(row, document) ==
  [row EXCEPT !.site = SiteOf(document.links), !.declared = document.icon]

\* record_success, as far as the favicon worker sees it.
FeedAfter(row, document) ==
  [row EXCEPT !.site = Coalesce(SiteOf(document.links), @),
              !.declared = Coalesce(document.icon, @)]

Init ==
  /\ published \in Publications
  /\ feed = [site |-> None, declared |-> None, icon |-> None, tries |-> 0]
  /\ items = <<>>
  /\ polls = 0
  /\ worker = None
  /\ reading = None

Publish ==
  /\ polls < MaxPolls
  /\ \E document \in Publications \ {published} : published' = document
  /\ UNCHANGED <<feed, items, polls, worker, reading>>

Poll ==
  /\ polls < MaxPolls
  /\ polls' = polls + 1
  /\ items' = InsertItems(items, published, polls')
  /\ feed' = FeedAfter(feed, published)
  /\ UNCHANGED <<published, worker, reading>>
-----------------------------------------------------------------------------
(* The favicon worker. *)

\* feed_needing_icon
NeedsIcon == feed.icon = None /\ feed.site # None /\ feed.tries < MaxTries

IconStart ==
  /\ worker = None
  /\ NeedsIcon
  /\ worker' = [site |-> feed.site, declared |-> feed.declared]
  /\ UNCHANGED <<published, feed, items, polls, reading>>

\* What fetch_icon tries: what the page names, what the feed declared, and
\* /favicon.ico, for which the site stands here.
Candidates ==
  {i \in PageIcons[worker.site] \cup {worker.declared, worker.site} : i # None}

\* The first that is an image, small and no banner is stored.
IconStored ==
  /\ worker # None
  /\ \E icon \in Candidates :
       feed' = [feed EXCEPT !.icon = icon, !.tries = 0]
  /\ worker' = None
  /\ UNCHANGED <<published, items, polls, reading>>

IconFailed ==
  /\ worker # None
  /\ feed' = [feed EXCEPT !.tries = @ + 1]
  /\ worker' = None
  /\ UNCHANGED <<published, items, polls, reading>>
-----------------------------------------------------------------------------
(* The reader. *)

\* The first page, and the cursor of the next.
StartReading ==
  /\ reading = None
  /\ LET page == List!PageAfter(items, Unread, None)
     IN reading' = [seen |-> page, cursor |-> List!NextCursor(items, page), stood |-> Unread]
  /\ UNCHANGED <<published, feed, items, polls, worker>>

NextPage ==
  /\ reading # None
  /\ reading.cursor # None
  /\ LET page == List!PageAfter(items, Unread, reading.cursor)
     IN reading' = [reading EXCEPT !.seen = @ \o page,
                                   !.cursor = List!NextCursor(items, page)]
  /\ UNCHANGED <<published, feed, items, polls, worker>>

\* The list is put away.
StopReading ==
  /\ reading # None
  /\ reading' = None
  /\ UNCHANGED <<published, feed, items, polls, worker>>

\* A row is read, here or in another tab, and leaves the list.
MarkRead(i) ==
  /\ Cardinality(Ids \ Unread) < MaxReads
  /\ ~items[i].read
  /\ items' = [items EXCEPT ![i].read = TRUE]
  /\ reading' = IF reading = None THEN None ELSE [reading EXCEPT !.stood = @ \ {i}]
  /\ UNCHANGED <<published, feed, polls, worker>>
-----------------------------------------------------------------------------
Next ==
  \/ Publish
  \/ Poll
  \/ IconStart
  \/ IconStored
  \/ IconFailed
  \/ StartReading
  \/ NextPage
  \/ StopReading
  \/ \E i \in Ids : MarkRead(i)

Spec == Init /\ [][Next]_docVars

\* The worker never stops, and a download times out at the latest.
FairSpec ==
  /\ Spec
  /\ WF_docVars(IconStart)
  /\ WF_docVars(IconStored \/ IconFailed)
-----------------------------------------------------------------------------
(* Properties. *)

\* By what a publisher keeps two posts apart, and keeps one post the same: an id,
\* which counts beside a link or a title only.
Identity(entry) ==
  CASE entry.id \notin {None, Blank} /\ (entry.links # <<>> \/ entry.title # None) -> entry.id
    [] entry.id = Blank /\ entry.links # <<>> -> UrlOf(entry.links)
    [] entry.id = None /\ (entry.links # <<>> \/ entry.title # None) ->
         <<UrlOf(entry.links), entry.title>>
    [] OTHER -> <<entry.title, entry.date, StartOf(entry)>>

\* A post that keeps its identity is stored once, however often it is polled,
\* edited and moved in its document (stable_guid).
OneItemPerPost ==
  \A i, j \in Ids : Identity(items[i].entry) = Identity(items[j].entry) => i = j

\* A post is never taken for another: what was in a document that was stored is
\* there, under its own identity (stable_guid, OR IGNORE).
NoPostIsLost ==
  [][ polls' # polls =>
        \A n \in DOMAIN published.entries :
          \E i \in DOMAIN items' :
            Identity(items'[i].entry) = Identity(published.entries[n]) ]_docVars

\* A post that names a discussion, and has for its identity an id that no other post
\* of the document uses, leads to its own discussion, whoever else links to the
\* same article (discussion_url, discussion_urls).
DiscussionIsItsOwn ==
  \A i \in Ids :
    LET entry == items[i].entry
    IN /\ entry.comments # None
       /\ entry.id \notin {None, Blank} /\ Identity(entry) = entry.id
       /\ \A other \in items[i].among \ {entry} : entry.id \notin KeysOf(other)
       => items[i].comments = entry.comments

\* Where every row is dated, a reader who gets to the last page has seen every
\* row that was in the list all the time, and none twice, whatever was polled
\* and read meanwhile (list_items, cursor_for).
PagesAreComplete ==
  reading # None /\ (\A i \in Ids : items[i].published # None) =>
    /\ \A m, n \in DOMAIN reading.seen : reading.seen[m] = reading.seen[n] => m = n
    /\ reading.cursor = None => reading.stood \subseteq ToSet(reading.seen)

\* A subscription that once named its site ends with an icon, or with its
\* attempts spent, also when later documents do not name the site any more.
IconSettles == feed.site # None ~> feed.icon # None \/ feed.tries = MaxTries
=============================================================================
