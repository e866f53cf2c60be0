------------------------------ MODULE Parsing ------------------------------
(***************************************************************************)
(* From a document to items: parse.rs and comments.rs, as operators.       *)
(*                                                                         *)
(* An entry is what feed-rs hands over: [id, links, title, date, content,  *)
(* summary, comments].  A link is [rel, href], a body                      *)
(* [prose, furniture, image, handsOff, start]: the characters of prose,    *)
(* those of links and labels, the picture in it, whether it ends by        *)
(* pointing at the rest of itself, and its beginning.  What the sanitizer  *)
(* removes besides is left out.                                            *)
(***************************************************************************)
EXTENDS Naturals, SequencesExt

CONSTANTS
  FullText,  \* FULL_TEXT_CHARS
  MinProse,  \* MIN_PROSE_CHARS
  FeedUrl,   \* where the document is from
  Resolve,   \* absolutize, on the hrefs that occur
  None,
  Blank      \* an id of nothing but white space

ASSUME ParsingAssumption ==
  /\ MinProse \in Nat /\ FullText \in Nat
  /\ MinProse <= FullText
  /\ None # Blank
-----------------------------------------------------------------------------
(* Links. *)

\* The first element that satisfies Test, or None.
FirstOf(seq, Test(_)) ==
  LET n == SelectInSeq(seq, Test) IN IF n = 0 THEN None ELSE seq[n]

IsHtmlLink(link) == link.rel = "alternate"

Absolute(link) == IF link = None THEN None ELSE Resolve[link.href]

\* The article of an entry.
UrlOf(links) ==
  LET html == FirstOf(links, IsHtmlLink)
  IN Absolute(IF html # None \/ links = <<>> THEN html ELSE Head(links))

\* pick_site_link: not the document itself.
SiteOf(links) ==
  LET html  == FirstOf(links, LAMBDA l : IsHtmlLink(l) /\ l.href # FeedUrl)
      leads == FirstOf(links, LAMBDA l : l.href # FeedUrl)
  IN Absolute(IF html # None THEN html ELSE leads)
-----------------------------------------------------------------------------
(* Bodies. *)

\* unlazy: a picture waiting for a script gets its source.
Sanitized(body) == [body EXCEPT !.image = IF @ = "lazy" THEN "real" ELSE @]

Length(body) == body.prose + body.furniture

\* is_stub: a picture is content, whatever the text around it says.
IsStub(body) ==
  /\ body.image = "none"
  /\ IF Length(body) < MinProse THEN body.prose = 0 ELSE body.prose < MinProse

\* The body an item keeps: the content before the summary, and no stub.
BodyOf(entry) ==
  LET raw == IF entry.content # None THEN entry.content ELSE entry.summary
  IN IF raw = None THEN None
     ELSE IF IsStub(Sanitized(raw)) THEN None ELSE Sanitized(raw)

IsTruncated(entry) ==
  LET body == BodyOf(entry)
  IN \/ entry.content = None
     \/ body = None
     \/ Length(body) < FullText
     \/ body.handsOff
-----------------------------------------------------------------------------
(* Identity. *)

\* What feed-rs puts into Entry::id: the id of the source, else a hash of the
\* link and the title, else a random one.
EntryId(entry, random) ==
  IF entry.id # None THEN entry.id
  ELSE IF entry.links # <<>> \/ entry.title # None
  THEN <<"hash", UrlOf(entry.links), entry.title>>
  ELSE <<"random", random>>

StartOf(entry) == LET body == BodyOf(entry) IN IF body = None THEN None ELSE body.start

ContentHash(entry) == <<"rosso", entry.title, entry.date, StartOf(entry)>>

\* Mutant: whatever feed-rs says is taken.
StableGuidTrusting(entry, random) ==
  IF EntryId(entry, random) # Blank THEN EntryId(entry, random)
  ELSE IF UrlOf(entry.links) # None THEN UrlOf(entry.links)
  ELSE ContentHash(entry)

\* Mutant: an entry without an id is its title.
StableGuidByTitle(entry, random) ==
  IF entry.id \notin {None, Blank} THEN entry.id ELSE <<"rosso", entry.title>>

StableGuid(entry, random) ==
  IF EntryId(entry, random) # Blank /\ (entry.links # <<>> \/ entry.title # None)
  THEN EntryId(entry, random)
  ELSE IF UrlOf(entry.links) # None THEN UrlOf(entry.links)
  ELSE ContentHash(entry)
-----------------------------------------------------------------------------
(* Discussions. *)

\* The names comments.rs files the discussion of an entry under: as written.
KeysOf(entry) ==
  {k \in {entry.id} : k \notin {None, Blank}}
    \cup {entry.links[n].href : n \in {1} \cap DOMAIN entry.links}

\* discussion_urls: of two that share a name, the later one.
DiscussionUrls(entries) ==
  LET Filed(n) == IF entries[n].comments = None THEN {} ELSE KeysOf(entries[n])
  IN [k \in UNION {Filed(n) : n \in DOMAIN entries} |->
        entries[Max({n \in DOMAIN entries : k \in Filed(n)})].comments]

IsReplies(link) == link.rel = "replies"

\* Mutant: the link is looked up before the id.
DiscussionUrlByLink(entry, guid, url, discussions) ==
  IF url \in DOMAIN discussions THEN discussions[url]
  ELSE IF guid \in DOMAIN discussions THEN discussions[guid]
  ELSE None

DiscussionUrl(entry, guid, url, discussions) ==
  LET replies == FirstOf(entry.links, IsReplies)
  IN IF guid \in DOMAIN discussions THEN discussions[guid]
     ELSE IF url \in DOMAIN discussions THEN discussions[url]
     ELSE IF replies # None /\ replies.href # url THEN replies.href
     ELSE None
-----------------------------------------------------------------------------
ParseEntry(entry, discussions, random) ==
  LET guid == StableGuid(entry, random)
      url  == UrlOf(entry.links)
  IN [guid      |-> guid,
      url       |-> url,
      comments  |-> DiscussionUrl(entry, guid, url, discussions),
      published |-> entry.date,
      text      |-> BodyOf(entry) # None,
      truncated |-> IsTruncated(entry)]

\* One entry of a document [links, icon, entries].  `random` is different at each
\* parse.
ParseItem(document, n, random) ==
  ParseEntry(document.entries[n], DiscussionUrls(document.entries), <<random, n>>)
=============================================================================
