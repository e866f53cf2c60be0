-------------------------- MODULE DocumentsProofs --------------------------
(***************************************************************************)
(* What is stored of documents, and what a reader sees of it page by page, *)
(* for any publisher, any size of a page and any number of polls.          *)
(*                                                                         *)
(* First what the operators of the model return: the least and the         *)
(* greatest of a set of positions, the rows of a document one after the    *)
(* other, and a page.  Each is proved by taking the smallest case that     *)
(* fails.                                                                  *)
(***************************************************************************)
EXTENDS Documents, TLAPS, FiniteSetTheorems, SequenceTheorems

\* A set of numbers has a least one.
LEMMA LeastNumber ==
  ASSUME NEW T \in SUBSET Nat, T # {}
  PROVE  \E m \in T : \A k \in T : m <= k
<1>1. IsWellFoundedOn(OpToRel(<, Nat), Nat)
  BY NatLessThanWellFounded
<1> DEFINE R == OpToRel(<, Nat)
<1>2. \E m \in T : \A k \in T : ~(<<k, m>> \in R)
  <2> HIDE DEF R
  <2>1. IsWellFoundedOn(R, Nat)
    BY <1>1 DEF R
  <2> QED
    BY <2>1, WFMin
<1>3. PICK m \in T : \A k \in T : ~(<<k, m>> \in R)
  BY <1>2
<1>4. ASSUME NEW k \in T, k < m  PROVE FALSE
  <2>1. <<k, m>> \in R
    BY <1>4 DEF OpToRel
  <2> QED
    BY <1>3, <2>1
<1> QED
  BY <1>4

\* The first of some positions, and the last of them.
LEMMA Extremes ==
  ASSUME NEW k \in Nat
  PROVE  \A s \in SUBSET (1..k) : s # {} => /\ Min(s) \in s
                                           /\ Max(s) \in s
                                           /\ \A x \in s : Min(s) <= x /\ x <= Max(s)
<1> SUFFICES ASSUME NEW s \in SUBSET (1..k), s # {}
             PROVE  /\ Min(s) \in s
                    /\ Max(s) \in s
                    /\ \A x \in s : Min(s) <= x /\ x <= Max(s)
  OBVIOUS
<1>1. \E m \in s : \A x \in s : m =< x
  BY LeastNumber
<1>2. \E m \in s : \A x \in s : m >= x
  <2> DEFINE T == {k - x : x \in s}
  <2>1. T \in SUBSET Nat /\ T # {}
    OBVIOUS
  <2> HIDE DEF T
  <2>2. PICK d \in T : \A e \in T : d <= e
    BY <2>1, LeastNumber
  <2>3. PICK m \in s : d = k - m
    BY DEF T
  <2>4. \A x \in s : k - m <= k - x
    BY <2>2, <2>3 DEF T
  <2> QED
    BY <2>4
<1>3. Min(s) \in s /\ \A x \in s : Min(s) =< x
  BY <1>1 DEF Min
<1>4. Max(s) \in s /\ \A x \in s : Max(s) >= x
  BY <1>2 DEF Max
<1> QED
  BY <1>3, <1>4

\* The recursive function that stores one row after the other.
Stores(g, rows, new) ==
  g = [s \in SUBSET DOMAIN new |->
         IF s = {} THEN rows ELSE Insert(g[s \ {Max(s)}], new[Max(s)])]

\* It exists, and it is what InsertItems folds with.
LEMMA StoringExists ==
  ASSUME NEW k \in Nat, NEW rows, NEW new, DOMAIN new = 1..k
  PROVE  \E g : Stores(g, rows, new) /\ FoldLeft(Insert, rows, new) = g[1..k]
<1> DEFINE Level(n) == {s \in SUBSET (1..k) : \A x \in s : x <= n}
           Next1(g, s) == IF s = {} THEN rows ELSE Insert(g[s \ {Max(s)}], new[Max(s)])
           Good(n) == \E g : g = [s \in Level(n) |-> Next1(g, s)]
           bad == {n \in Nat : ~Good(n)}
<1>1. Good(0)
  <2> DEFINE g == [s \in Level(0) |-> rows]
  <2>1. \A s \in Level(0) : s = {}
    OBVIOUS
  <2>2. g = [s \in Level(0) |-> Next1(g, s)]
    BY <2>1
  <2> QED
    BY <2>2
<1>2. ASSUME NEW n \in Nat, Good(n)  PROVE Good(n + 1)
  <2>1. PICK g : g = [s \in Level(n) |-> Next1(g, s)]
    BY <1>2
  <2> DEFINE h == [s \in Level(n + 1) |-> Next1(g, s)]
  <2>2. ASSUME NEW s \in Level(n + 1), s # {}
        PROVE  h[s \ {Max(s)}] = g[s \ {Max(s)}]
    <3> DEFINE t == s \ {Max(s)}
    <3>1. Max(s) \in s /\ \A x \in s : x <= Max(s)
      BY <2>2, Extremes
    <3>2. t \in Level(n) /\ t \in Level(n + 1)
      <4>1. ASSUME NEW x \in t  PROVE x <= n
        <5>1. x \in 1..k /\ Max(s) \in 1..k /\ x # Max(s) /\ x <= Max(s) /\ Max(s) <= n + 1
          BY <3>1, <4>1
        <5> QED
          BY <5>1
      <4> QED
        BY <4>1
    <3>3. g[t] = Next1(g, t)
      BY <2>1, <3>2
    <3>4. h[t] = Next1(g, t)
      BY <3>2
    <3> QED
      BY <3>3, <3>4
  <2>3. \A s \in Level(n + 1) : Next1(g, s) = Next1(h, s)
    BY <2>2
  <2>4. h = [s \in Level(n + 1) |-> Next1(h, s)]
    BY <2>3
  <2> QED
    BY <2>4
<1>3. bad = {}
  <2> SUFFICES ASSUME bad # {} PROVE FALSE
    OBVIOUS
  <2> HIDE DEF Good
  <2>1. PICK m \in bad : \A n \in bad : m <= n
    BY LeastNumber
  <2>2. m # 0
    BY <1>1, <2>1
  <2>3. m - 1 \in Nat /\ Good(m - 1)
    BY <2>1, <2>2
  <2>4. Good((m - 1) + 1)
    BY <1>2, <2>3
  <2> QED
    BY <2>1, <2>4
<1>4. Good(k)
  <2> HIDE DEF Good
  <2> QED
    BY <1>3
<1>5. Level(k) = SUBSET DOMAIN new
  OBVIOUS
<1>6. \E g : Stores(g, rows, new)
  <2>1. PICK g : g = [s \in Level(k) |-> Next1(g, s)]
    BY <1>4
  <2>2. g = [s \in SUBSET DOMAIN new |-> Next1(g, s)]
    BY <1>5, <2>1
  <2> QED
    BY <2>2 DEF Stores
<1> DEFINE fold == CHOOSE g : Stores(g, rows, new)
<1>7. FoldLeft(Insert, rows, new) = fold[DOMAIN new]
  BY DEF FoldLeft, MapThenFoldSet, Stores
<1> QED
  BY <1>6, <1>7

\* Rows as the UNIQUE constraint wants them.
Unique(rows) == \A i, j \in DOMAIN rows : rows[i].guid = rows[j].guid => i = j

\* All that was there is still where it was.
Extends(more, rows) ==
  DOMAIN rows \subseteq DOMAIN more /\ \A i \in DOMAIN rows : more[i] = rows[i]

Has(rows, guid) == \E i \in DOMAIN rows : rows[i].guid = guid

LEMMA Inserting ==
  ASSUME NEW R, NEW rows \in Seq(R), NEW row \in R
  PROVE  /\ Insert(rows, row) \in Seq(R)
         /\ Extends(Insert(rows, row), rows)
         /\ Has(Insert(rows, row), row.guid)
         /\ Unique(rows) => Unique(Insert(rows, row))
<1>1. CASE \E i \in DOMAIN rows : rows[i].guid = row.guid
  BY <1>1 DEF Insert, Extends, Has
<1>2. CASE ~ \E i \in DOMAIN rows : rows[i].guid = row.guid
  <2> DEFINE more == Append(rows, row)
  <2>1. Insert(rows, row) = more
    BY <1>2 DEF Insert
  <2>2. /\ more \in Seq(R) /\ Len(rows) \in Nat
        /\ DOMAIN rows = 1..Len(rows) /\ DOMAIN more = 1..(Len(rows) + 1)
        /\ \A i \in DOMAIN rows : more[i] = rows[i]
        /\ more[Len(rows) + 1] = row
    BY AppendProperties
  <2> HIDE DEF more
  <2>3. Extends(more, rows)
    BY <2>2 DEF Extends
  <2>4. Has(more, row.guid)
    BY <2>2 DEF Has
  <2>5. Unique(rows) => Unique(more)
    <3> SUFFICES ASSUME Unique(rows), NEW i \in DOMAIN more, NEW j \in DOMAIN more,
                        more[i].guid = more[j].guid
                 PROVE  i = j
      BY DEF Unique
    <3>1. \A m \in DOMAIN more : m \in DOMAIN rows \/ m = Len(rows) + 1
      BY <2>2
    <3> QED
      BY <1>2, <2>2, <3>1 DEF Unique
  <2> QED
    BY <2>1, <2>2, <2>3, <2>4, <2>5
<1> QED
  BY <1>1, <1>2

\* Whatever is stored in one go: what was there stays, everything is there, nothing
\* twice.
LEMMA StoringAll ==
  ASSUME NEW R, NEW rows \in Seq(R), Unique(rows),
         NEW k \in Nat, NEW new, DOMAIN new = 1..k, \A n \in 1..k : new[n] \in R
  PROVE  LET out == FoldLeft(Insert, rows, new)
         IN /\ out \in Seq(R) /\ Unique(out) /\ Extends(out, rows)
            /\ \A n \in 1..k : Has(out, new[n].guid)
<1>1. PICK g : Stores(g, rows, new) /\ FoldLeft(Insert, rows, new) = g[1..k]
  BY StoringExists
<1> DEFINE Good(n) == /\ g[1..n] \in Seq(R) /\ Unique(g[1..n]) /\ Extends(g[1..n], rows)
                      /\ \A m \in 1..n : Has(g[1..n], new[m].guid)
           bad == {n \in Nat : n <= k /\ ~Good(n)}
<1>2. Good(0)
  <2>1. 1..0 = {} /\ {} \in SUBSET DOMAIN new
    OBVIOUS
  <2>2. g[{}] = rows
    BY <1>1, <2>1 DEF Stores
  <2>3. Extends(rows, rows)
    BY DEF Extends
  <2> QED
    BY <2>1, <2>2, <2>3
<1>3. ASSUME NEW n \in 0..(k - 1), Good(n)  PROVE Good(n + 1)
  <2>0. n \in Nat /\ n + 1 \in Nat /\ n + 1 <= k
    OBVIOUS
  <2> DEFINE first == 1..(n + 1)
  <2>1. /\ \A x \in first : x \in 1..k
        /\ n + 1 \in first /\ n + 1 \in 1..k
        /\ \A x : x \in first /\ x # n + 1 <=> x \in 1..n
    BY <2>0
  <2>2. first \in SUBSET (1..k) /\ first # {} /\ first \ {n + 1} = 1..n
    <3> HIDE DEF first
    <3> QED
      BY <2>1
  <2>9. Max(first) = n + 1
    <3>1. Max(first) \in first /\ n + 1 <= Max(first)
      <4> HIDE DEF first
      <4> QED
        BY <2>1, <2>2, Extremes
    <3> QED
      BY <2>0, <3>1
  <2>3. g[1..(n + 1)] = Insert(g[1..n], new[n + 1])
    <3> HIDE DEF first
    <3>1. g[first] = Insert(g[1..n], new[n + 1])
      BY <1>1, <2>2, <2>9 DEF Stores
    <3> QED
      BY <3>1 DEF first
  <2> DEFINE before == g[1..n]
             after == g[1..(n + 1)]
  <2>4. /\ after \in Seq(R)
        /\ Extends(after, before)
        /\ Has(after, new[n + 1].guid)
        /\ Unique(after)
    BY <1>3, <2>1, <2>3, Inserting
  <2>5. Extends(after, rows)
    BY <1>3, <2>4 DEF Extends
  <2>6. ASSUME NEW m \in 1..(n + 1)  PROVE Has(after, new[m].guid)
    <3>1. CASE m = n + 1
      BY <2>4, <3>1
    <3>2. CASE m \in 1..n
      BY <1>3, <2>4, <3>2 DEF Has, Extends
    <3>3. m = n + 1 \/ m \in 1..n
      BY <2>0
    <3> QED
      BY <3>1, <3>2, <3>3
  <2> QED
    BY <2>4, <2>5, <2>6
<1>4. bad = {}
  <2> SUFFICES ASSUME bad # {} PROVE FALSE
    OBVIOUS
  <2> HIDE DEF Good
  <2>1. PICK m \in bad : \A n \in bad : m <= n
    BY LeastNumber
  <2>2. m # 0
    BY <1>2, <2>1
  <2>3. m - 1 \in 0..(k - 1) /\ Good(m - 1)
    BY <2>1, <2>2
  <2>4. Good((m - 1) + 1)
    BY <1>3, <2>3
  <2> QED
    BY <2>1, <2>4
<1>5. Good(k)
  <2> HIDE DEF Good
  <2> QED
    BY <1>4
<1> QED
  BY <1>1, <1>5
-----------------------------------------------------------------------------
(* Identity. *)

\* An article with a link has an address.
LEMMA AddressIs ==
  ASSUME NEW entry \in Entries
  PROVE  /\ entry.links = <<>> => UrlOf(entry.links) = None
         /\ entry.links # <<>> => UrlOf(entry.links) # None
<1> DEFINE links == entry.links
           found == {n \in 1..Len(links) : IsHtmlLink(links[n])}
           html == FirstOf(links, IsHtmlLink)
<1>1. /\ links \in Seq(ToSet(links))
      /\ \A n \in DOMAIN links : links[n] # None /\ Resolve[links[n].href] # None
  BY PublicationsAssumption DEF ToSet
<1>2. Len(links) \in Nat /\ DOMAIN links = 1..Len(links)
  BY <1>1
<1>3. html = IF found = {} THEN None ELSE links[Min(found)]
  <2>1. found # {} => Min(found) \in 1..Len(links)
    <3>1. found \in SUBSET (1..Len(links))
      OBVIOUS
    <3> HIDE DEF found
    <3> QED
      BY <1>2, <3>1, Extremes
  <2>2. html = IF (IF found # {} THEN Min(found) ELSE 0) = 0 THEN None
               ELSE links[IF found # {} THEN Min(found) ELSE 0]
    BY DEF FirstOf, SelectInSeq
  <2> HIDE DEF found, html
  <2> QED
    BY <1>2, <2>1, <2>2
<1>9. UrlOf(links) = Absolute(IF html # None \/ links = <<>> THEN html ELSE Head(links))
  BY DEF UrlOf
<1>4. CASE links = <<>>
  <2>1. found = {}
    BY <1>4
  <2>2. html = None
    BY <1>3, <2>1
  <2> QED
    BY <1>4, <2>2 DEF UrlOf, Absolute
<1>5. CASE links # <<>>
  <2>1. CASE found # {}
    <3>1. Min(found) \in DOMAIN links
      <4>1. found \in SUBSET (1..Len(links))
        OBVIOUS
      <4> HIDE DEF found
      <4> QED
        BY <1>2, <2>1, <4>1, Extremes
    <3> HIDE DEF html, found
    <3>2. html # None /\ Resolve[html.href] # None
      BY <1>1, <1>3, <2>1, <3>1
    <3> QED
      BY <1>9, <1>5, <3>2 DEF Absolute
  <2>2. CASE found = {}
    <3>1. html = None
      BY <1>3, <2>2
    <3>2. Head(links) = links[1] /\ 1 \in DOMAIN links
      BY <1>1, <1>2, <1>5
    <3> QED
      BY <1>1, <1>9, <1>5, <3>1, <3>2 DEF Absolute
  <2> QED
    BY <2>1, <2>2
<1> QED
  BY <1>4, <1>5

\* What the four kinds of entries are known by: an id, an address, a link and a title
\* hashed by feed-rs, and a beginning hashed by stable_guid.
Named(entry)   == entry.id \notin {None, Blank} /\ (entry.links # <<>> \/ entry.title # None)
Located(entry) == entry.id = Blank /\ entry.links # <<>>
Titled(entry)  == entry.id = None /\ (entry.links # <<>> \/ entry.title # None)
Bare(entry)    == ~Named(entry) /\ ~Located(entry) /\ ~Titled(entry)

TitleHash(entry) == <<"hash", UrlOf(entry.links), entry.title>>

LEMMA GuidIs ==
  ASSUME NEW entry \in Entries, NEW random
  PROVE  /\ Named(entry) => StableGuid(entry, random) = entry.id
         /\ Located(entry) => StableGuid(entry, random) = UrlOf(entry.links)
         /\ Titled(entry) => StableGuid(entry, random) = TitleHash(entry)
         /\ Bare(entry) => StableGuid(entry, random) = ContentHash(entry)
<1>1. TitleHash(entry) # Blank
  BY PublicationsAssumption DEF TitleHash
<1>2. None # Blank
  BY ParsingAssumption
<1>3. CASE entry.links = <<>> /\ entry.title = None
  BY <1>3, AddressIs DEF StableGuid, Named, Located, Titled
<1>4. CASE entry.links # <<>> \/ entry.title # None
  <2>1. CASE entry.id = Blank
    <3>1. EntryId(entry, random) = Blank
      BY <1>2, <2>1 DEF EntryId
    <3>2. StableGuid(entry, random)
            = IF entry.links # <<>> THEN UrlOf(entry.links) ELSE ContentHash(entry)
      BY <3>1, AddressIs DEF StableGuid
    <3> QED
      BY <1>2, <2>1, <3>2 DEF Named, Located, Titled, Bare
  <2>2. CASE entry.id = None
    <3>1. EntryId(entry, random) = TitleHash(entry)
      BY <1>4, <2>2 DEF EntryId, TitleHash
    <3>2. StableGuid(entry, random) = TitleHash(entry)
      BY <1>1, <1>4, <3>1 DEF StableGuid
    <3> QED
      BY <1>2, <1>4, <2>2, <3>2 DEF Named, Located, Titled, Bare
  <2>3. CASE entry.id \notin {None, Blank}
    <3>1. EntryId(entry, random) = entry.id
      BY <2>3 DEF EntryId
    <3>2. StableGuid(entry, random) = entry.id
      BY <1>4, <2>3, <3>1 DEF StableGuid
    <3> QED
      BY <1>4, <2>3, <3>2 DEF Named, Located, Titled, Bare
  <2> QED
    BY <2>1, <2>2, <2>3
<1> QED
  BY <1>3, <1>4

LEMMA IdentityIs ==
  ASSUME NEW entry \in Entries
  PROVE  /\ Named(entry) => Identity(entry) = entry.id
         /\ Located(entry) => Identity(entry) = UrlOf(entry.links)
         /\ Titled(entry) => Identity(entry) = <<UrlOf(entry.links), entry.title>>
         /\ Bare(entry) => Identity(entry) = <<entry.title, entry.date, StartOf(entry)>>
<1>1. None # Blank
  BY ParsingAssumption
<1> QED
  BY <1>1 DEF Identity, Named, Located, Titled, Bare

\* The guid of the row tells posts apart exactly as their publisher does, whichever
\* poll it is.
LEMMA GuidIsIdentity ==
  ASSUME NEW e \in Entries, NEW f \in Entries, NEW r, NEW s
  PROVE  StableGuid(e, r) = StableGuid(f, s) <=> Identity(e) = Identity(f)
<1> DEFINE Plain(x) == Named(x) \/ Located(x)
           name(x) == IF Named(x) THEN x.id ELSE UrlOf(x.links)
<1>1. \A x \in {e, f} : Plain(x) \/ Titled(x) \/ Bare(x)
  BY DEF Bare
<1>2. \A x \in {e, f} : Plain(x) =>
        /\ Identity(x) = name(x)
        /\ StableGuid(x, r) = name(x) /\ StableGuid(x, s) = name(x)
  BY GuidIs, IdentityIs
<1>3. \A x, y \in {e, f} :
        name(x) \notin {TitleHash(y), ContentHash(y), <<UrlOf(y.links), y.title>>,
                       <<y.title, y.date, StartOf(y)>>}
  <2>1. \A x, y \in {e, f} :
          {x.id, UrlOf(x.links), Blank}
            \cap {TitleHash(y), <<UrlOf(y.links), y.title>>, ContentHash(y),
                  <<y.title, y.date, StartOf(y)>>} = {}
    BY PublicationsAssumption DEF TitleHash
  <2>2. \A x \in {e, f} : name(x) \in {x.id, UrlOf(x.links), Blank}
    OBVIOUS
  <2> HIDE DEF name
  <2> QED
    BY <2>1, <2>2
<1> HIDE DEF name
<1>4. \A x \in {e, f} :
        /\ Titled(x) => /\ Identity(x) = <<UrlOf(x.links), x.title>>
                        /\ StableGuid(x, r) = TitleHash(x) /\ StableGuid(x, s) = TitleHash(x)
        /\ Bare(x) => /\ Identity(x) = <<x.title, x.date, StartOf(x)>>
                      /\ StableGuid(x, r) = ContentHash(x) /\ StableGuid(x, s) = ContentHash(x)
  BY GuidIs, IdentityIs
<1>5. CASE Plain(e) \/ Plain(f)
  BY <1>1, <1>2, <1>3, <1>4, <1>5
<1>6. CASE Titled(e) /\ Titled(f)
  BY <1>4, <1>6 DEF TitleHash
<1>7. CASE Bare(e) /\ Bare(f)
  BY <1>4, <1>7 DEF ContentHash
<1>8. CASE (Titled(e) /\ Bare(f)) \/ (Bare(e) /\ Titled(f))
  BY <1>4, <1>8 DEF TitleHash, ContentHash
<1> QED
  <2>1. (Plain(e) \/ Titled(e) \/ Bare(e)) /\ (Plain(f) \/ Titled(f) \/ Bare(f))
    BY <1>1
  <2>2. CASE Plain(e) \/ Plain(f)
    BY <2>2, <1>5
  <2>3. CASE Titled(e) /\ (Titled(f) \/ Bare(f))
    BY <2>3, <1>6, <1>8
  <2>4. CASE Bare(e) /\ (Titled(f) \/ Bare(f))
    BY <2>4, <1>7, <1>8
  <2> HIDE DEF Plain
  <2> QED
    BY <2>1, <2>2, <2>3, <2>4
-----------------------------------------------------------------------------
(* What is stored. *)

\* A row that was marked read.
Marked(d, n, now) == [RowOf(d, n, now) EXCEPT !.read = TRUE]

\* The rows there can be.
Rows ==
  UNION {UNION {UNION {{RowOf(d, n, now), Marked(d, n, now)} : now \in Nat} :
                  n \in DOMAIN d.entries} : d \in Publications}

\* What the row of an entry tells of it.
Tells(row, d, n, now) ==
  /\ row.entry = d.entries[n] /\ row.among = ToSet(d.entries)
  /\ row.guid = StableGuid(d.entries[n], <<now, n>>)
  /\ row.comments = DiscussionUrl(d.entries[n], row.guid, UrlOf(d.entries[n].links),
                                  DiscussionUrls(d.entries))
  /\ row.published = d.entries[n].date
  /\ row.fetched = now

\* Marking a row read changes nothing else of it, the first time and again.
LEMMA MarkedIs ==
  ASSUME NEW d \in Publications, NEW n \in DOMAIN d.entries, NEW now \in Nat
  PROVE  /\ Tells(RowOf(d, n, now), d, n, now)
         /\ Tells(Marked(d, n, now), d, n, now)
         /\ [Marked(d, n, now) EXCEPT !.read = TRUE] = Marked(d, n, now)
         /\ Marked(d, n, now).read = TRUE
<1> DEFINE x == RowOf(d, n, now)
           y == Marked(d, n, now)
           fields == {"entry", "among", "guid", "url", "comments", "published", "text",
                      "truncated", "fetched", "read"}
<1>1. x = [f \in fields |-> x[f]] /\ Tells(x, d, n, now)
  <2>1. x = [f \in fields |-> x[f]]
    BY DEF RowOf
  <2>2. Tells(x, d, n, now)
    BY DEF RowOf, ParseItem, ParseEntry, Tells
  <2> QED
    BY <2>1, <2>2
<1>2. y = [x EXCEPT !["read"] = TRUE]
  BY DEF Marked
<1>3. "read" \in fields /\ {"entry", "among", "guid", "comments", "published", "fetched"}
                            \subseteq fields \ {"read"}
  OBVIOUS
<1> HIDE DEF x, y, fields
<1>4. DOMAIN x = fields /\ DOMAIN y = fields
  BY <1>1, <1>2
<1>5. y["read"] = TRUE /\ \A f \in fields \ {"read"} : y[f] = x[f]
  BY <1>2, <1>3, <1>4
<1>6. [y EXCEPT !["read"] = TRUE] = y
  BY <1>2, <1>4, <1>5
<1>7. Tells(y, d, n, now)
  <2>1. /\ y.entry = x.entry /\ y.among = x.among /\ y.guid = x.guid
        /\ y.comments = x.comments /\ y.published = x.published /\ y.fetched = x.fetched
    BY <1>3, <1>5
  <2> QED
    BY <1>1, <2>1 DEF Tells
<1> QED
  BY <1>1, <1>5, <1>6, <1>7 DEF x, y

LEMMA RowsAre ==
  /\ \A row \in Rows : \E d \in Publications : \E n \in DOMAIN d.entries : \E now \in Nat :
       row = RowOf(d, n, now) \/ row = Marked(d, n, now)
  /\ \A d \in Publications : \A n \in DOMAIN d.entries : \A now \in Nat :
       /\ RowOf(d, n, now) \in Rows /\ Marked(d, n, now) \in Rows
       /\ Tells(RowOf(d, n, now), d, n, now) /\ d.entries[n] \in Entries
<1>1. \A d \in Publications : \A n \in DOMAIN d.entries : d.entries[n] \in Entries
  BY DEF Entries, ToSet
<1>2. ASSUME NEW row \in Rows
      PROVE  \E d \in Publications : \E n \in DOMAIN d.entries :
               \E now \in Nat : row = RowOf(d, n, now) \/ row = Marked(d, n, now)
  BY DEF Rows
<1>3. ASSUME NEW d \in Publications, NEW n \in DOMAIN d.entries, NEW now \in Nat
      PROVE  RowOf(d, n, now) \in Rows /\ Marked(d, n, now) \in Rows
  BY DEF Rows
<1>4. ASSUME NEW d \in Publications, NEW n \in DOMAIN d.entries, NEW now \in Nat
      PROVE  Tells(RowOf(d, n, now), d, n, now)
  BY MarkedIs
<1> QED
  BY <1>1, <1>2, <1>3, <1>4

LEMMA RowIs ==
  ASSUME NEW row \in Rows
  PROVE  /\ \E d \in Publications : \E n \in DOMAIN d.entries : \E now \in Nat :
              Tells(row, d, n, now)
         /\ row.entry \in Entries
         /\ row.published = row.entry.date /\ row.fetched \in Nat
         /\ LET seen == [row EXCEPT !.read = TRUE]
            IN /\ seen \in Rows /\ seen.guid = row.guid
               /\ seen.published = row.published /\ seen.fetched = row.fetched
               /\ seen.read = TRUE
<1>1. PICK d \in Publications : \E n \in DOMAIN d.entries : \E now \in Nat :
        row = RowOf(d, n, now) \/ row = Marked(d, n, now)
  BY RowsAre
<1>2. PICK n \in DOMAIN d.entries, now \in Nat :
        row = RowOf(d, n, now) \/ row = Marked(d, n, now)
  BY <1>1
<1>3. d.entries[n] \in Entries /\ Tells(row, d, n, now)
  BY <1>2, RowsAre, MarkedIs
<1>4. [row EXCEPT !.read = TRUE] = Marked(d, n, now)
  BY <1>2, MarkedIs DEF Marked
<1>5. /\ Marked(d, n, now) \in Rows /\ Tells(Marked(d, n, now), d, n, now)
      /\ Marked(d, n, now).read = TRUE
  BY RowsAre, MarkedIs
<1> QED
  BY <1>3, <1>4, <1>5 DEF Tells

\* Rows have the same guid when their entries are the same post.
LEMMA SamePost ==
  ASSUME NEW row \in Rows, NEW other \in Rows
  PROVE  row.guid = other.guid <=> Identity(row.entry) = Identity(other.entry)
<1>1. PICK d \in Publications : \E n \in DOMAIN d.entries : \E now \in Nat :
        Tells(row, d, n, now)
  BY RowIs
<1>2. PICK n \in DOMAIN d.entries, now \in Nat : Tells(row, d, n, now)
  BY <1>1
<1>3. PICK e \in Publications : \E m \in DOMAIN e.entries : \E then \in Nat :
        Tells(other, e, m, then)
  BY RowIs
<1>4. PICK m \in DOMAIN e.entries, then \in Nat : Tells(other, e, m, then)
  BY <1>3
<1>5. row.entry \in Entries /\ other.entry \in Entries
  BY RowIs
<1> QED
  BY <1>2, <1>4, <1>5, GuidIsIdentity DEF Tells

StoreOK ==
  /\ published \in Publications
  /\ polls \in Nat
  /\ items \in Seq(Rows)
  /\ Unique(items)

\* What a poll leaves: the rows it found, and every entry of the document.
LEMMA PollStores ==
  ASSUME StoreOK, Poll
  PROVE  /\ StoreOK' /\ Extends(items', items)
         /\ \A n \in DOMAIN published.entries :
              \E i \in DOMAIN items' : Identity(items'[i].entry) = Identity(published.entries[n])
<1> DEFINE k == Len(published.entries)
           new == [n \in DOMAIN published.entries |-> RowOf(published, n, polls')]
<1>1. /\ k \in Nat /\ DOMAIN published.entries = 1..k /\ polls' \in Nat
      /\ items' = FoldLeft(Insert, items, new)
  BY PublicationsAssumption DEF StoreOK, Poll, InsertItems
<1>2. ASSUME NEW n \in 1..k
      PROVE  /\ new[n] \in Rows
             /\ new[n].entry = published.entries[n]
  <2>1. published \in Publications /\ n \in DOMAIN published.entries
    BY <1>1 DEF StoreOK
  <2>2. new[n] = RowOf(published, n, polls')
    BY <2>1
  <2>3. new[n] \in Rows /\ published.entries[n] \in Entries
    BY <1>1, <2>1, <2>2, RowsAre
  <2>4. Tells(RowOf(published, n, polls'), published, n, polls')
    BY <1>1, <2>1, RowsAre
  <2> QED
    BY <2>2, <2>3, <2>4 DEF Tells
<1>3. DOMAIN new = 1..k
  BY <1>1
<1> HIDE DEF new, k
<1>4. /\ items' \in Seq(Rows) /\ Unique(items') /\ Extends(items', items)
      /\ \A n \in 1..k : Has(items', new[n].guid)
  BY <1>1, <1>2, <1>3, StoringAll DEF StoreOK
<1>5. ASSUME NEW n \in DOMAIN published.entries
      PROVE  \E i \in DOMAIN items' : Identity(items'[i].entry) = Identity(published.entries[n])
  <2>1. n \in 1..k
    BY <1>1
  <2>2. PICK i \in DOMAIN items' : items'[i].guid = new[n].guid
    BY <1>4, <2>1 DEF Has
  <2>3. items'[i] \in Rows /\ new[n] \in Rows /\ new[n].entry = published.entries[n]
    BY <1>2, <1>4, <2>1
  <2> QED
    BY <2>2, <2>3, SamePost
<1> QED
  BY <1>1, <1>4, <1>5 DEF StoreOK, Poll

\* What reading leaves.
LEMMA MarkStores ==
  ASSUME StoreOK, NEW i \in Ids, MarkRead(i)
  PROVE  /\ StoreOK'
         /\ items' = [items EXCEPT ![i] = [items[i] EXCEPT !.read = TRUE]]
<1>1. /\ items' = [items EXCEPT ![i] = [items[i] EXCEPT !.read = TRUE]]
      /\ DOMAIN items' = DOMAIN items
      /\ i \in DOMAIN items
  BY DEF MarkRead, StoreOK, Ids
<1>2. items \in Seq(Rows) /\ \A j \in DOMAIN items : items[j] \in Rows
  BY DEF StoreOK
<1>3. \A j \in DOMAIN items : items'[j] \in Rows /\ items'[j].guid = items[j].guid
  BY <1>1, <1>2, RowIs
<1>4. items' \in Seq(Rows)
  <2>1. DOMAIN items = 1..Len(items) /\ Len(items) \in Nat
    BY <1>2
  <2>2. items' \in [1..Len(items) -> Rows]
    BY <1>1, <1>3, <2>1
  <2> QED
    BY <2>1, <2>2, SeqDef
<1>5. Unique(items')
  BY <1>1, <1>3 DEF StoreOK, Unique
<1> QED
  BY <1>1, <1>4, <1>5 DEF StoreOK, MarkRead

LEMMA StoreStep ==
  ASSUME StoreOK, [Next]_docVars
  PROVE  StoreOK'
<1>1. CASE Publish
  BY <1>1 DEF Publish, StoreOK, Unique
<1>2. CASE Poll
  BY <1>2, PollStores
<1>3. CASE \E i \in Ids : MarkRead(i)
  BY <1>3, MarkStores
<1>4. CASE \/ IconStart \/ IconStored \/ IconFailed
           \/ StartReading \/ NextPage \/ StopReading \/ UNCHANGED docVars
  BY <1>4 DEF IconStart, IconStored, IconFailed, StartReading, NextPage, StopReading,
              docVars, StoreOK, Unique
<1> QED
  BY <1>1, <1>2, <1>3, <1>4 DEF Next

LEMMA StoreInvariant == Spec => []StoreOK
<1>1. Init => StoreOK
  BY DEF Init, StoreOK, Unique
<1> QED
  BY <1>1, StoreStep, PTL DEF Spec

\* A post that keeps its identity is stored once, however often the publisher edits
\* it and moves it and the document is polled (stable_guid, the UNIQUE of items).
THEOREM PostsStoredOnce == Spec => []OneItemPerPost
<1>1. StoreOK => OneItemPerPost
  <2> SUFFICES ASSUME StoreOK, NEW i \in Ids, NEW j \in Ids,
                      Identity(items[i].entry) = Identity(items[j].entry)
               PROVE  i = j
    BY DEF OneItemPerPost
  <2>1. items[i] \in Rows /\ items[j] \in Rows
    BY DEF StoreOK, Ids
  <2>2. items[i].guid = items[j].guid
    BY <2>1, SamePost
  <2> QED
    BY <2>2 DEF StoreOK, Unique, Ids
<1> QED
  BY <1>1, StoreInvariant, PTL

\* No post of a document that is stored is taken for another one (insert_items_tx,
\* OR IGNORE).
THEOREM PostsAreKept == Spec => NoPostIsLost
<1>1. ASSUME StoreOK, [Next]_docVars
      PROVE  [ polls' # polls =>
                 \A n \in DOMAIN published.entries :
                   \E i \in DOMAIN items' :
                     Identity(items'[i].entry) = Identity(published.entries[n]) ]_docVars
  <2>1. CASE Poll
    BY <1>1, <2>1, PollStores
  <2>2. CASE ~Poll
    <3>1. polls' = polls
      BY <1>1, <2>2 DEF Next, Publish, IconStart, IconStored, IconFailed, StartReading,
                        NextPage, StopReading, MarkRead, docVars
    <3> QED
      BY <3>1
  <2> QED
    BY <2>1, <2>2
<1> QED
  BY <1>1, StoreInvariant, PTL DEF Spec, NoPostIsLost

\* A post whose identity is an id of its own leads to its own discussion, whoever
\* else links to the article (discussion_urls, discussion_url).
THEOREM DiscussionsAreKept == Spec => []DiscussionIsItsOwn
<1>1. StoreOK => DiscussionIsItsOwn
  <2> SUFFICES ASSUME StoreOK, NEW i \in Ids,
                      items[i].entry.comments # None,
                      items[i].entry.id \notin {None, Blank},
                      Identity(items[i].entry) = items[i].entry.id,
                      \A other \in items[i].among \ {items[i].entry} :
                        items[i].entry.id \notin KeysOf(other)
               PROVE  items[i].comments = items[i].entry.comments
    BY DEF DiscussionIsItsOwn
  <2> DEFINE entry == items[i].entry
  <2>1. items[i] \in Rows /\ entry \in Entries
    <3>1. items[i] \in Rows
      BY DEF StoreOK, Ids
    <3> QED
      BY <3>1, RowIs
  <2>0. PICK d \in Publications : \E n \in DOMAIN d.entries : \E now \in Nat :
          Tells(items[i], d, n, now)
    BY <2>1, RowIs
  <2>2. PICK n \in DOMAIN d.entries, now \in Nat : Tells(items[i], d, n, now)
    BY <2>0
  <2>3. items[i].guid = entry.id
    <3>1. Named(entry)
      <4>1. ~Located(entry) /\ ~Titled(entry)
        BY DEF Located, Titled
      <4>2. entry.id # <<entry.title, entry.date, StartOf(entry)>>
        BY <2>1, PublicationsAssumption
      <4> QED
        BY <2>1, <4>1, <4>2, IdentityIs DEF Bare
    <3> QED
      BY <2>1, <2>2, <3>1, GuidIs DEF Tells
  <2> DEFINE entries == d.entries
             Filed(m) == IF entries[m].comments = None THEN {} ELSE KeysOf(entries[m])
             filed == {m \in DOMAIN entries : entry.id \in Filed(m)}
  <2>4. n \in filed
    BY <2>2 DEF KeysOf, Tells
  <2>5. \A m \in filed : entries[m] = entry
    BY <2>2 DEF ToSet, Tells
  <2>6. Max(filed) \in filed
    <3>1. Len(entries) \in Nat /\ filed \in SUBSET (1..Len(entries))
      BY PublicationsAssumption
    <3> HIDE DEF filed
    <3> QED
      BY <2>4, <3>1, Extremes
  <2>7. entry.id \in DOMAIN DiscussionUrls(entries)
    BY <2>4 DEF DiscussionUrls
  <2>8. DiscussionUrls(entries)[entry.id] = entries[Max(filed)].comments
    BY <2>7 DEF DiscussionUrls
  <2>9. DiscussionUrls(entries)[entry.id] = entry.comments
    <3> HIDE DEF filed
    <3> QED
      BY <2>5, <2>6, <2>8
  <2> QED
    BY <2>2, <2>3, <2>7, <2>9 DEF DiscussionUrl, Tells
<1> QED
  BY <1>1, StoreInvariant, PTL
-----------------------------------------------------------------------------
(* Pages. *)

\* The dates by which rows are listed, as far as paging looks at rows.
Dated(rows) == \A i \in DOMAIN rows : List!TimeOf(rows[i]) \in Nat

\* The list has a first row, whatever part of it is left.
LEMMA FirstOfList ==
  ASSUME NEW rows, Dated(rows), DOMAIN rows \subseteq Nat,
         NEW left \in SUBSET DOMAIN rows, IsFiniteSet(left), left # {}
  PROVE  \E i \in left : \A j \in left \ {i} : List!Precedes(rows, i, j)
<1> DEFINE before(i, j) == List!Precedes(rows, i, j)
           IsFirst(i, s) == \A j \in s \ {i} : before(i, j)
           T == {s \in SUBSET left : s # {} /\ ~ \E i \in s : IsFirst(i, s)}
           sizes == {Cardinality(s) : s \in T}
<1>1. \A i, j \in left : i # j => before(i, j) \/ before(j, i)
  <2> SUFFICES ASSUME NEW i \in left, NEW j \in left, i # j
               PROVE  before(i, j) \/ before(j, i)
    OBVIOUS
  <2>1. /\ i \in Nat /\ j \in Nat
        /\ List!TimeOf(rows[i]) \in Nat /\ List!TimeOf(rows[j]) \in Nat
    BY DEF Dated
  <2> QED
    BY <2>1 DEF List!Precedes
<1>2. \A i, j, k \in left : before(i, j) /\ before(j, k) => before(i, k)
  <2> SUFFICES ASSUME NEW i \in left, NEW j \in left, NEW k \in left, before(i, j), before(j, k)
               PROVE  before(i, k)
    OBVIOUS
  <2>1. /\ i \in Nat /\ j \in Nat /\ k \in Nat
        /\ \A m \in {i, j, k} : List!TimeOf(rows[m]) \in Nat
    BY DEF Dated
  <2> QED
    BY <2>1 DEF List!Precedes
<1>3. SUFFICES ASSUME T # {} PROVE FALSE
  OBVIOUS
<1> HIDE DEF before
<1>4. \A s \in T : IsFiniteSet(s) /\ Cardinality(s) \in Nat
  BY FS_Subset, FS_CardinalityType
<1>5. PICK n \in sizes : \A k \in sizes : n <= k
  <2>1. sizes \in SUBSET Nat /\ sizes # {}
    BY <1>3, <1>4
  <2> HIDE DEF sizes
  <2> QED
    BY <2>1, LeastNumber
<1>6. PICK s \in T : n = Cardinality(s)
  BY <1>5
<1>7. PICK y \in s : TRUE
  OBVIOUS
<1> DEFINE rest == s \ {y}
<1>8. rest \in SUBSET left /\ rest \notin T
  <2>1. rest \in SUBSET left
    OBVIOUS
  <2>2. Cardinality(rest) = Cardinality(s) - 1 /\ Cardinality(s) \in Nat
    BY <1>4, FS_RemoveElement
  <2>3. ASSUME rest \in T PROVE FALSE
    <3>1. Cardinality(rest) \in sizes
      BY <2>3
    <3> HIDE DEF sizes, rest
    <3>2. Cardinality(s) <= Cardinality(rest)
      BY <1>5, <1>6, <3>1
    <3> QED
      BY <2>2, <3>2
  <2> QED
    BY <2>1, <2>3
<1>9. CASE rest = {}
  <2>1. IsFirst(y, s)
    BY <1>9
  <2> QED
    BY <2>1
<1>10. CASE rest # {}
  <2>1. PICK m \in rest : IsFirst(m, rest)
    BY <1>8, <1>10
  <2>2. m # y /\ m \in s /\ m \in left /\ y \in left
    OBVIOUS
  <2>3. CASE before(m, y)
    <3>1. IsFirst(m, s)
      BY <2>1, <2>3
    <3> QED
      BY <2>2, <3>1
  <2>4. CASE before(y, m)
    <3>1. \A j \in rest : j \in left
      OBVIOUS
    <3>2. IsFirst(y, s)
      BY <1>2, <2>1, <2>2, <2>4, <3>1
    <3> QED
      BY <3>2
  <2> QED
    BY <1>1, <2>2, <2>3, <2>4
<1> QED
  BY <1>9, <1>10

\* Each row on a page takes one from what is left.
LEMMA LeftOfPage ==
  ASSUME NEW rows, NEW rest, IsFiniteSet(rest), NEW k \in Nat,
         NEW page \in [1..k -> rest], List!InOrder(rows, rest, page)
  PROVE  Cardinality(rest \ {page[m] : m \in 1..k}) = Cardinality(rest) - k
<1> DEFINE left(n) == rest \ {page[m] : m \in 1..n}
           Good(n) == Cardinality(left(n)) = Cardinality(rest) - n
           bad == {n \in Nat : n <= k /\ ~Good(n)}
<1>0. Cardinality(rest) \in Nat
  BY FS_CardinalityType
<1>1. Good(0)
  <2>1. left(0) = rest
    OBVIOUS
  <2> QED
    <3>1. Cardinality(left(0)) = Cardinality(rest)
      BY <2>1
    <3>2. Cardinality(rest) - 0 = Cardinality(rest)
      BY <1>0
    <3> QED
      BY <3>1, <3>2
<1>2. ASSUME NEW n \in Nat, n + 1 <= k, Good(n)  PROVE Good(n + 1)
  <2>1. n + 1 \in 1..k /\ (n + 1) - 1 = n
    BY <1>2
  <2>2. page[n + 1] \in left(n)
    BY <2>1 DEF List!InOrder
  <2>3. left(n + 1) = left(n) \ {page[n + 1]}
    <3>1. \A x : (\E m \in 1..(n + 1) : page[m] = x) <=> (\E m \in 1..n : page[m] = x) \/ page[n + 1] = x
      <4>1. \A m : m \in 1..(n + 1) <=> m \in 1..n \/ m = n + 1
        BY <2>1
      <4> QED
        BY <4>1
    <3> QED
      BY <3>1
  <2>4. IsFiniteSet(left(n)) /\ Cardinality(rest) \in Nat
    BY FS_Subset, FS_CardinalityType
  <2> HIDE DEF left
  <2>5. Cardinality(left(n) \ {page[n + 1]}) = Cardinality(left(n)) - 1
    BY <2>2, <2>4, FS_RemoveElement
  <2> QED
    <3>1. Cardinality(left(n)) = Cardinality(rest) - n
      BY <1>2
    <3>2. Cardinality(left(n + 1)) = Cardinality(rest) - n - 1
      BY <2>3, <2>5, <3>1
    <3>3. Cardinality(rest) - n - 1 = Cardinality(rest) - (n + 1)
      BY <2>4
    <3> QED
      BY <3>2, <3>3
<1>3. bad = {}
  <2> SUFFICES ASSUME bad # {} PROVE FALSE
    OBVIOUS
  <2> HIDE DEF Good
  <2>1. PICK m \in bad : \A n \in bad : m <= n
    BY LeastNumber
  <2>2. m # 0
    BY <1>1, <2>1
  <2>3. m - 1 \in Nat /\ (m - 1) + 1 = m /\ m <= k /\ Good(m - 1)
    BY <2>1, <2>2
  <2> QED
    BY <1>2, <2>1, <2>3
<1>4. Good(k)
  <2> HIDE DEF Good
  <2> QED
    BY <1>3
<1> QED
  BY <1>4

\* There are pages of any length up to what is left.
LEMMA PagesExist ==
  ASSUME NEW rows, Dated(rows), DOMAIN rows \subseteq Nat,
         NEW rest \in SUBSET DOMAIN rows, IsFiniteSet(rest),
         NEW k \in Nat, k <= Cardinality(rest)
  PROVE  \E page \in [1..k -> rest] : List!InOrder(rows, rest, page)
<1> DEFINE Good(n) == \E page \in [1..n -> rest] : List!InOrder(rows, rest, page)
           bad == {n \in Nat : n <= k /\ ~Good(n)}
<1>1. Good(0)
  <2> DEFINE page == [m \in 1..0 |-> m]
  <2>1. DOMAIN page = {} /\ page \in [1..0 -> rest]
    OBVIOUS
  <2>2. List!InOrder(rows, rest, page)
    BY <2>1 DEF List!InOrder
  <2> QED
    BY <2>1, <2>2
<1>2. ASSUME NEW n \in Nat, n + 1 <= k, Good(n)  PROVE Good(n + 1)
  <2>1. PICK page \in [1..n -> rest] : List!InOrder(rows, rest, page)
    BY <1>2
  <2> DEFINE left == rest \ {page[m] : m \in 1..n}
  <2>2. left \in SUBSET rest /\ IsFiniteSet(left)
    BY FS_Subset
  <2>3. left # {}
    <3>1. Cardinality(left) = Cardinality(rest) - n
      BY <2>1, LeftOfPage
    <3>2. Cardinality(rest) \in Nat
      BY FS_CardinalityType
    <3>3. Cardinality({}) = 0
      BY FS_EmptySet
    <3> HIDE DEF left
    <3>4. Cardinality(left) # 0
      BY <1>2, <3>1, <3>2
    <3> QED
      BY <3>3, <3>4
  <2>4. PICK first \in left : \A i \in left \ {first} : List!Precedes(rows, first, i)
    <3> HIDE DEF left
    <3> QED
      BY <2>2, <2>3, FirstOfList
  <2> DEFINE more == [m \in 1..(n + 1) |-> IF m = n + 1 THEN first ELSE page[m]]
  <2>5. more \in [1..(n + 1) -> rest]
    OBVIOUS
  <2>6. ASSUME NEW m \in 1..(n + 1)
        PROVE  /\ rest \ {more[j] : j \in 1..(m - 1)} = rest \ {page[j] : j \in 1..(m - 1)}
    <3>1. \A j \in 1..(m - 1) : more[j] = page[j]
      OBVIOUS
    <3> HIDE DEF more
    <3> QED
      BY <3>1
  <2>7. List!InOrder(rows, rest, more)
    <3> SUFFICES ASSUME NEW m \in 1..(n + 1)
                 PROVE  LET ahead == rest \ {page[j] : j \in 1..(m - 1)}
                        IN /\ more[m] \in ahead
                           /\ \A i \in ahead \ {more[m]} : List!Precedes(rows, more[m], i)
      BY <2>5, <2>6 DEF List!InOrder
    <3>1. CASE m = n + 1
      <4>1. more[m] = first /\ m - 1 = n
        BY <3>1
      <4> QED
        BY <2>4, <4>1
    <3>2. CASE m # n + 1
      <4>1. m \in 1..n /\ more[m] = page[m]
        BY <3>2
      <4> QED
        BY <2>1, <4>1 DEF List!InOrder
    <3> QED
      BY <3>1, <3>2
  <2> QED
    BY <2>5, <2>7
<1>3. bad = {}
  <2> SUFFICES ASSUME bad # {} PROVE FALSE
    OBVIOUS
  <2> HIDE DEF Good
  <2>1. PICK m \in bad : \A n \in bad : m <= n
    BY LeastNumber
  <2>2. m # 0
    BY <1>1, <2>1
  <2>3. m - 1 \in Nat /\ (m - 1) + 1 = m /\ m <= k /\ Good(m - 1)
    BY <2>1, <2>2
  <2> QED
    BY <1>2, <2>1, <2>3
<1>4. Good(k)
  <2> HIDE DEF Good
  <2> QED
    BY <1>3
<1> QED
  BY <1>4

\* What is left of a list behind a cursor.
RestOf(rows, view, cursor) == {i \in view : List!AfterCursor(rows, i, cursor)}

\* A page is the beginning of what is left, in the order of the list, and all of it
\* where it is short.
LEMMA PageIs ==
  ASSUME NEW rows, Dated(rows), DOMAIN rows \subseteq Nat,
         NEW view \in SUBSET DOMAIN rows, IsFiniteSet(view), NEW cursor
  PROVE  LET rest == RestOf(rows, view, cursor)
             page == List!PageAfter(rows, view, cursor)
         IN \E k \in 0..Limit :
              /\ page \in [1..k -> rest]
              /\ List!InOrder(rows, rest, page)
              /\ k < Limit => \A i \in rest : \E m \in 1..k : page[m] = i
<1> DEFINE rest == RestOf(rows, view, cursor)
           page == List!PageAfter(rows, view, cursor)
           k == IF Cardinality(rest) < Limit THEN Cardinality(rest) ELSE Limit
<1>1. /\ rest \in SUBSET DOMAIN rows /\ IsFiniteSet(rest)
      /\ Cardinality(rest) \in Nat /\ Limit \in Nat
  BY FS_Subset, FS_CardinalityType, DocumentsAssumption DEF RestOf
<1>2. k \in 0..Limit /\ k \in Nat /\ k <= Cardinality(rest)
  BY <1>1
<1>3. page = CHOOSE p \in [1..k -> rest] : List!InOrder(rows, rest, p)
  BY DEF RestOf, List!PageAfter, List!Cardinality, Cardinality, List!IsFiniteSet
<1> HIDE DEF rest, page, k
<1>4. page \in [1..k -> rest] /\ List!InOrder(rows, rest, page)
  BY <1>1, <1>2, <1>3, PagesExist
<1>5. k < Limit => \A i \in rest : \E m \in 1..k : page[m] = i
  <2> SUFFICES ASSUME k < Limit
               PROVE  rest \ {page[m] : m \in 1..k} = {}
    OBVIOUS
  <2>1. k = Cardinality(rest)
    BY <1>1 DEF k
  <2>2. Cardinality(rest \ {page[m] : m \in 1..k}) = 0
    BY <1>1, <1>2, <1>4, <2>1, LeftOfPage
  <2>3. IsFiniteSet(rest \ {page[m] : m \in 1..k})
    BY <1>1, FS_Subset
  <2> QED
    BY <2>2, <2>3, FS_EmptySet
<1> QED
  BY <1>2, <1>4, <1>5 DEF rest, page

\* Where every row has a date of its own.
AllDated(rows) == \A i \in DOMAIN rows : rows[i].published # None

Cursors == [ts : Nat, id : Nat]

\* A row comes after the cursor of another when it is behind it in the list.
LEMMA CursorIs ==
  ASSUME NEW rows, AllDated(rows), NEW i \in DOMAIN rows, NEW j \in DOMAIN rows
  PROVE  /\ List!CursorFor(rows, i) = [ts |-> List!TimeOf(rows[i]), id |-> i]
         /\ List!CursorFor(rows, i) # None =>
              (List!AfterCursor(rows, j, List!CursorFor(rows, i)) <=> List!Precedes(rows, i, j))
<1>1. List!CursorFor(rows, i) = [ts |-> List!TimeOf(rows[i]), id |-> i]
  BY DEF List!CursorFor, List!TimeOf, AllDated
<1> QED
  BY <1>1 DEF List!AfterCursor, List!Precedes

\* A page is in order, and what is behind its last row comes after the cursor it
\* came by as well.
LEMMA PageOrder ==
  ASSUME NEW rows, Dated(rows), AllDated(rows), DOMAIN rows \subseteq Nat,
         NEW cursor, cursor = None \/ cursor \in Cursors,
         NEW view \in SUBSET DOMAIN rows
  PROVE  \A k \in Nat : \A page \in [1..k -> RestOf(rows, view, cursor)] :
           List!InOrder(rows, RestOf(rows, view, cursor), page) =>
             /\ \A m, n \in 1..k : m < n => List!Precedes(rows, page[m], page[n])
             /\ \A m, n \in 1..k : page[m] = page[n] => m = n
             /\ \A n \in 1..k : \A i \in DOMAIN rows :
                  List!Precedes(rows, page[n], i) => List!AfterCursor(rows, i, cursor)
<1> SUFFICES ASSUME NEW k \in Nat, NEW page \in [1..k -> RestOf(rows, view, cursor)],
                    List!InOrder(rows, RestOf(rows, view, cursor), page)
             PROVE  /\ \A m, n \in 1..k : m < n => List!Precedes(rows, page[m], page[n])
                    /\ \A m, n \in 1..k : page[m] = page[n] => m = n
                    /\ \A n \in 1..k : \A i \in DOMAIN rows :
                         List!Precedes(rows, page[n], i) => List!AfterCursor(rows, i, cursor)
  OBVIOUS
<1> DEFINE rest == RestOf(rows, view, cursor)
           left(n) == rest \ {page[m] : m \in 1..(n - 1)}
<1>1. \A n \in 1..k : page[n] \in left(n) /\ \A i \in left(n) \ {page[n]} : List!Precedes(rows, page[n], i)
  BY DEF List!InOrder
<1>2. ASSUME NEW m \in 1..k, NEW n \in 1..k, m < n
      PROVE  page[m] # page[n] /\ List!Precedes(rows, page[m], page[n])
  <2>1. m \in 1..(n - 1) /\ \A j \in 1..(m - 1) : j \in 1..(n - 1)
    BY <1>2
  <2>2. page[n] \in left(n)
    BY <1>1
  <2>3. page[n] # page[m] /\ page[n] \in left(m)
    BY <2>1, <2>2
  <2> HIDE DEF left
  <2> QED
    BY <1>1, <2>3
<1>3. ASSUME NEW m \in 1..k, NEW n \in 1..k, page[m] = page[n]
      PROVE  m = n
  <2>1. m < n \/ n < m \/ m = n
    OBVIOUS
  <2> QED
    BY <1>2, <1>3, <2>1
<1>4. ASSUME NEW n \in 1..k, NEW i \in DOMAIN rows, List!Precedes(rows, page[n], i)
      PROVE  List!AfterCursor(rows, i, cursor)
  <2> DEFINE p == page[n]
  <2>1. p \in DOMAIN rows /\ List!AfterCursor(rows, p, cursor)
    BY DEF RestOf
  <2>2. /\ p \in Nat /\ i \in Nat
        /\ List!TimeOf(rows[p]) \in Nat /\ List!TimeOf(rows[i]) \in Nat
    BY <2>1 DEF Dated
  <2>3. CASE cursor = None
    BY <2>3 DEF List!AfterCursor
  <2>4. CASE cursor # None
    <3>1. cursor.ts \in Nat /\ cursor.id \in Nat
      BY <2>4 DEF Cursors
    <3> HIDE DEF p
    <3>2. List!Precedes(rows, p, i)
      BY <1>4 DEF p
    <3> QED
      BY <2>1, <2>2, <2>4, <3>1, <3>2 DEF List!AfterCursor, List!Precedes
  <2> QED
    BY <2>3, <2>4
<1> QED
  BY <1>2, <1>3, <1>4

\* What a page and its cursor leave out: the rows behind the cursor.
LEMMA PageGives ==
  ASSUME NEW rows, Dated(rows), AllDated(rows), DOMAIN rows \subseteq Nat,
         NEW cursor, cursor = None \/ cursor \in Cursors,
         NEW view \in SUBSET DOMAIN rows, IsFiniteSet(view)
  PROVE  LET page == List!PageAfter(rows, view, cursor)
             next == List!NextCursor(rows, page)
         IN /\ \A m, n \in DOMAIN page : page[m] = page[n] => m = n
            /\ \A n \in DOMAIN page : List!AfterCursor(rows, page[n], cursor)
            /\ next # None =>
                 /\ \A n \in DOMAIN page : ~List!AfterCursor(rows, page[n], next)
                 /\ \A i \in DOMAIN rows :
                      List!AfterCursor(rows, i, next) => List!AfterCursor(rows, i, cursor)
            /\ \A i \in view : List!AfterCursor(rows, i, cursor) =>
                 \/ i \in ToSet(page)
                 \/ next # None /\ List!AfterCursor(rows, i, next)
<1> DEFINE rest == RestOf(rows, view, cursor)
           page == List!PageAfter(rows, view, cursor)
           next == List!NextCursor(rows, page)
<1>1. PICK k \in 0..Limit :
        /\ page \in [1..k -> rest]
        /\ List!InOrder(rows, rest, page)
        /\ k < Limit => \A i \in rest : \E m \in 1..k : page[m] = i
  BY PageIs
<1>2. k \in Nat /\ Limit \in Nat /\ Limit # 0 /\ Len(page) = k /\ DOMAIN page = 1..k
  <2>1. k \in Nat /\ Limit \in Nat /\ Limit # 0
    BY DocumentsAssumption
  <2>2. page \in Seq(rest)
    BY <1>1, <2>1, SeqDef
  <2> HIDE DEF page
  <2> QED
    BY <1>1, <2>1, <2>2
<1>3. /\ \A m, n \in 1..k : m < n => List!Precedes(rows, page[m], page[n])
      /\ \A m, n \in 1..k : page[m] = page[n] => m = n
      /\ \A n \in 1..k : \A i \in DOMAIN rows :
           List!Precedes(rows, page[n], i) => List!AfterCursor(rows, i, cursor)
  <2> DEFINE ordered(n, p) ==
               /\ \A x, y \in 1..n : x < y => List!Precedes(rows, p[x], p[y])
               /\ \A x, y \in 1..n : p[x] = p[y] => x = y
               /\ \A x \in 1..n : \A i \in DOMAIN rows :
                    List!Precedes(rows, p[x], i) => List!AfterCursor(rows, i, cursor)
  <2>1. \A n \in Nat : \A p \in [1..n -> rest] : List!InOrder(rows, rest, p) => ordered(n, p)
    BY PageOrder
  <2> HIDE DEF page, rest, ordered
  <2>2. ordered(k, page)
    BY <1>1, <1>2, <2>1
  <2> QED
    BY <2>2 DEF ordered
<1>4. /\ \A n \in 1..k : page[n] \in DOMAIN rows /\ List!AfterCursor(rows, page[n], cursor)
      /\ \A i \in view : List!AfterCursor(rows, i, cursor) => i \in rest
  <2> HIDE DEF page
  <2> QED
    BY <1>1 DEF RestOf
<1>5. CASE k < Limit
  <2>1. next = None
    BY <1>2, <1>5 DEF List!NextCursor
  <2>2. \A i \in rest : i \in ToSet(page)
    BY <1>1, <1>2, <1>5 DEF ToSet
  <2> QED
    BY <1>2, <1>3, <1>4, <2>1, <2>2
<1>6. CASE k = Limit
  <2>1. next = List!CursorFor(rows, page[k])
    BY <1>2, <1>6 DEF List!NextCursor, List!Last
  <2>2. k \in 1..k /\ page[k] \in DOMAIN rows
    BY <1>2, <1>4, <1>6
  <2>3. /\ next \in Cursors /\ next # None
        /\ \A j \in DOMAIN rows :
             List!AfterCursor(rows, j, next) <=> List!Precedes(rows, page[k], j)
    <3> HIDE DEF page, next
    <3>1. next = [ts |-> List!TimeOf(rows[page[k]]), id |-> page[k]]
      BY <2>1, <2>2, CursorIs
    <3>2. next \in Cursors
      BY <2>2, <3>1 DEF Dated, Cursors
    <3>3. next # None
      BY <3>2, DocumentsAssumption DEF Cursors
    <3> QED
      BY <2>1, <2>2, <3>2, <3>3, CursorIs
  <2>4. ASSUME NEW n \in 1..k  PROVE ~List!AfterCursor(rows, page[n], next)
    <3>1. page[n] \in DOMAIN rows
      BY <1>4
    <3>2. ~List!Precedes(rows, page[k], page[n])
      <4> DEFINE p == page[n]
                 q == page[k]
      <4>1. n = k \/ n < k
        BY <1>2
      <4>2. p = q \/ List!Precedes(rows, p, q)
        BY <1>3, <2>2, <4>1
      <4>3. /\ p \in Nat /\ q \in Nat
            /\ List!TimeOf(rows[p]) \in Nat /\ List!TimeOf(rows[q]) \in Nat
        BY <2>2, <3>1 DEF Dated
      <4> HIDE DEF p, q
      <4>4. ~List!Precedes(rows, q, p)
        BY <4>2, <4>3 DEF List!Precedes
      <4> QED
        BY <4>4 DEF p, q
    <3> QED
      BY <2>3, <3>1, <3>2
  <2>5. \A i \in DOMAIN rows :
          List!AfterCursor(rows, i, next) => List!AfterCursor(rows, i, cursor)
    BY <1>3, <2>2, <2>3
  <2>6. ASSUME NEW i \in rest, i \notin ToSet(page)
        PROVE  List!AfterCursor(rows, i, next)
    <3>1. \A m \in 1..k : page[m] # i
      BY <1>2, <2>6 DEF ToSet
    <3>2. i \in (rest \ {page[m] : m \in 1..(k - 1)}) \ {page[k]}
      BY <2>2, <3>1
    <3>3. List!Precedes(rows, page[k], i)
      <4> HIDE DEF page, rest
      <4> QED
        BY <1>1, <1>2, <2>2, <3>2 DEF List!InOrder
    <3>4. i \in DOMAIN rows
      BY DEF RestOf
    <3> HIDE DEF page, next, rest
    <3> QED
      BY <2>3, <3>3, <3>4
  <2> QED
    BY <1>2, <1>3, <1>4, <2>3, <2>4, <2>5, <2>6
<1> QED
  BY <1>2, <1>5, <1>6

\* How far a reader has come: nothing twice, nothing on the way that is still to come,
\* and every row that stood in the list all the time seen or still to come.
Covers(rows, seen, cursor, stood) ==
  /\ \A m, n \in DOMAIN seen : seen[m] = seen[n] => m = n
  /\ cursor # None => \A n \in DOMAIN seen : ~List!AfterCursor(rows, seen[n], cursor)
  /\ \A i \in stood : \/ i \in ToSet(seen)
                      \/ cursor # None /\ List!AfterCursor(rows, i, cursor)

ReadOK ==
  reading # None =>
    /\ reading \in [seen : Seq(Ids), cursor : Cursors \cup {None}, stood : SUBSET Unread]
    /\ AllDated(items) => Covers(items, reading.seen, reading.cursor, reading.stood)

\* What rows keep, whatever is polled and read.
Keeps(more, rows) ==
  \A i \in DOMAIN rows : /\ i \in DOMAIN more
                         /\ more[i].published = rows[i].published
                         /\ more[i].fetched = rows[i].fetched

LEMMA CoversStays ==
  ASSUME NEW rows, NEW more, Keeps(more, rows),
         NEW seen \in Seq(DOMAIN rows), NEW cursor,
         NEW stood \in SUBSET DOMAIN rows, NEW now \in SUBSET stood,
         AllDated(rows) => Covers(rows, seen, cursor, stood)
  PROVE  AllDated(more) => Covers(more, seen, cursor, now)
<1>1. AllDated(more) => AllDated(rows)
  BY DEF AllDated, Keeps
<1>2. \A i \in DOMAIN rows :
        List!AfterCursor(more, i, cursor) <=> List!AfterCursor(rows, i, cursor)
  BY DEF List!AfterCursor, List!TimeOf, Keeps
<1>3. \A n \in DOMAIN seen : seen[n] \in DOMAIN rows
  OBVIOUS
<1> QED
  BY <1>1, <1>2, <1>3 DEF Covers

LEMMA RowsAreDated ==
  ASSUME StoreOK
  PROVE  Dated(items) /\ Ids \subseteq Nat /\ Unread \in SUBSET Ids /\ IsFiniteSet(Unread)
<1>1. ASSUME NEW i \in DOMAIN items  PROVE List!TimeOf(items[i]) \in Nat
  <2>1. items[i] \in Rows
    BY DEF StoreOK
  <2>2. /\ items[i].entry \in Entries
        /\ items[i].published = items[i].entry.date /\ items[i].fetched \in Nat
    BY <2>1, RowIs
  <2>3. items[i].entry.date \in Nat \cup {None}
    BY <2>2, PublicationsAssumption
  <2> QED
    BY <2>2, <2>3 DEF List!TimeOf
<1>2. Len(items) \in Nat /\ Ids = 1..Len(items)
  BY DEF StoreOK, Ids
<1>3. IsFiniteSet(Ids)
  BY <1>2, FS_Interval
<1>4. Unread \in SUBSET Ids
  BY DEF Unread
<1> QED
  BY <1>1, <1>2, <1>3, <1>4, FS_Subset DEF Dated, Ids

\* A page of what is unread, and its cursor.
LEMMA PageTypes ==
  ASSUME StoreOK, NEW cursor \in Cursors \cup {None}
  PROVE  /\ List!PageAfter(items, Unread, cursor) \in Seq(Ids)
         /\ List!NextCursor(items, List!PageAfter(items, Unread, cursor)) \in Cursors \cup {None}
<1> DEFINE page == List!PageAfter(items, Unread, cursor)
           rest == RestOf(items, Unread, cursor)
<1>1. Dated(items) /\ Ids \subseteq Nat /\ Unread \in SUBSET Ids /\ IsFiniteSet(Unread)
  BY RowsAreDated
<1>2. PICK k \in 0..Limit : page \in [1..k -> rest]
  BY <1>1, PageIs DEF Ids
<1>3. rest \in SUBSET Ids
  BY <1>1 DEF RestOf
<1>4. Limit \in Nat \ {0} /\ k \in Nat
  BY DocumentsAssumption
<1> HIDE DEF page, rest
<1>5. page \in Seq(rest)
  BY <1>2, <1>4, SeqDef
<1>6. page \in Seq(Ids) /\ Len(page) = k /\ DOMAIN page = 1..k
  BY <1>2, <1>3, <1>4, <1>5
<1>7. List!NextCursor(items, page) \in Cursors \cup {None}
  <2>1. CASE k = Limit
    <3>1. page[k] \in Ids
      BY <1>4, <1>6, <2>1
    <3>2. items[page[k]].published # None => items[page[k]].published \in Nat
      <4>1. List!TimeOf(items[page[k]]) \in Nat
        BY <1>1, <3>1 DEF Dated, Ids
      <4> QED
        BY <4>1 DEF List!TimeOf
    <3>3. List!CursorFor(items, page[k]) \in Cursors
      BY <1>1, <3>1, <3>2 DEF List!CursorFor, Cursors
    <3> QED
      BY <1>6, <2>1, <3>3 DEF List!NextCursor, List!Last
  <2>2. CASE k # Limit
    BY <1>6, <2>2 DEF List!NextCursor
  <2> QED
    BY <2>1, <2>2
<1> QED
  BY <1>6, <1>7 DEF page

LEMMA ReadFirst ==
  ASSUME StoreOK, StartReading
  PROVE  ReadOK'
<1> DEFINE page == List!PageAfter(items, Unread, None)
           next == List!NextCursor(items, page)
<1>1. /\ reading' = [seen |-> page, cursor |-> next, stood |-> Unread]
      /\ items' = items
  BY DEF StartReading
<1>2. page \in Seq(Ids) /\ next \in Cursors \cup {None}
  BY PageTypes
<1>3. ASSUME AllDated(items)
      PROVE  Covers(items, page, next, Unread)
  <2>1. Dated(items) /\ Ids \subseteq Nat /\ Unread \in SUBSET Ids /\ IsFiniteSet(Unread)
    BY RowsAreDated
  <2>2. /\ \A m, n \in DOMAIN page : page[m] = page[n] => m = n
        /\ next # None => \A n \in DOMAIN page : ~List!AfterCursor(items, page[n], next)
        /\ \A i \in Unread : List!AfterCursor(items, i, None) =>
             \/ i \in ToSet(page)
             \/ next # None /\ List!AfterCursor(items, i, next)
    BY <1>3, <2>1, PageGives DEF Ids
  <2>3. \A i : List!AfterCursor(items, i, None)
    BY DEF List!AfterCursor
  <2> HIDE DEF page, next
  <2> QED
    BY <2>2, <2>3 DEF Covers
<1> HIDE DEF page, next
<1>4. Ids' = Ids /\ Unread' = Unread
  BY <1>1 DEF Ids, Unread
<1> QED
  BY <1>1, <1>2, <1>3, <1>4 DEF ReadOK

LEMMA ReadOn ==
  ASSUME StoreOK, ReadOK, NextPage
  PROVE  ReadOK'
<1> DEFINE seen == reading.seen
           cursor == reading.cursor
           stood == reading.stood
           page == List!PageAfter(items, Unread, cursor)
           next == List!NextCursor(items, page)
<1>1. /\ reading \in [seen : Seq(Ids), cursor : Cursors \cup {None}, stood : SUBSET Unread]
      /\ AllDated(items) => Covers(items, seen, cursor, stood)
      /\ cursor # None
      /\ items' = items
  BY DEF ReadOK, NextPage
<1>2. /\ seen \in Seq(Ids) /\ stood \in SUBSET Unread /\ cursor \in Cursors
      /\ page \in Seq(Ids) /\ next \in Cursors \cup {None}
  BY <1>1, PageTypes
<1>3. reading' = [seen |-> seen \o page, cursor |-> next, stood |-> stood]
  BY <1>1 DEF NextPage
<1> DEFINE both == seen \o page
<1> HIDE DEF seen, cursor, stood, page, next
<1>4. /\ both \in Seq(Ids)
      /\ Len(seen) \in Nat /\ Len(page) \in Nat
      /\ DOMAIN seen = 1..Len(seen) /\ DOMAIN page = 1..Len(page)
      /\ DOMAIN both = 1..(Len(seen) + Len(page))
      /\ \A n \in DOMAIN both :
           both[n] = IF n <= Len(seen) THEN seen[n] ELSE page[n - Len(seen)]
  BY <1>2, ConcatProperties
<1>5. ASSUME AllDated(items)
      PROVE  Covers(items, both, next, stood)
  <2>1. Dated(items) /\ Ids \subseteq Nat /\ Unread \in SUBSET Ids /\ IsFiniteSet(Unread)
    BY RowsAreDated
  <2>2. /\ \A m, n \in DOMAIN page : page[m] = page[n] => m = n
        /\ \A n \in DOMAIN page : List!AfterCursor(items, page[n], cursor)
        /\ next # None =>
             /\ \A n \in DOMAIN page : ~List!AfterCursor(items, page[n], next)
             /\ \A i \in Ids :
                  List!AfterCursor(items, i, next) => List!AfterCursor(items, i, cursor)
        /\ \A i \in Unread : List!AfterCursor(items, i, cursor) =>
             \/ i \in ToSet(page)
             \/ next # None /\ List!AfterCursor(items, i, next)
    BY <1>2, <1>5, <2>1, PageGives DEF Ids, page, next
  <2>3. /\ \A m, n \in DOMAIN seen : seen[m] = seen[n] => m = n
        /\ \A n \in DOMAIN seen : seen[n] \in Ids /\ ~List!AfterCursor(items, seen[n], cursor)
        /\ \A i \in stood : i \in ToSet(seen) \/ List!AfterCursor(items, i, cursor)
    BY <1>1, <1>2, <1>5 DEF Covers
  <2>4. ASSUME NEW n \in DOMAIN both
        PROVE  \/ n \in DOMAIN seen /\ both[n] = seen[n]
               \/ /\ n - Len(seen) \in DOMAIN page
                  /\ both[n] = page[n - Len(seen)]
    BY <1>4
  <2>5. ASSUME NEW m \in DOMAIN both, NEW n \in DOMAIN both, both[m] = both[n]
        PROVE  m = n
    <3>1. CASE m \in DOMAIN seen /\ both[m] = seen[m]
      <4>1. n \in DOMAIN seen /\ both[n] = seen[n]
        BY <2>2, <2>3, <2>4, <2>5, <3>1
      <4> QED
        BY <2>3, <2>5, <3>1, <4>1
    <3>2. CASE m - Len(seen) \in DOMAIN page /\ both[m] = page[m - Len(seen)]
      <4>1. n - Len(seen) \in DOMAIN page /\ both[n] = page[n - Len(seen)]
        BY <2>2, <2>3, <2>4, <2>5, <3>2
      <4>2. m - Len(seen) = n - Len(seen)
        BY <2>2, <2>5, <3>2, <4>1
      <4>3. m \in Int /\ n \in Int
        BY <1>4
      <4> QED
        BY <1>4, <4>2, <4>3
    <3> QED
      BY <2>4, <3>1, <3>2
  <2>6. next # None => \A n \in DOMAIN both : ~List!AfterCursor(items, both[n], next)
    BY <2>2, <2>3, <2>4
  <2>7. ASSUME NEW i \in stood
        PROVE  i \in ToSet(both) \/ (next # None /\ List!AfterCursor(items, i, next))
    <3>1. CASE i \in ToSet(seen)
      <4>1. PICK n \in DOMAIN seen : seen[n] = i
        BY <3>1 DEF ToSet
      <4>2. n \in DOMAIN both /\ both[n] = i
        BY <1>4, <4>1
      <4> QED
        BY <4>2 DEF ToSet
    <3>2. CASE i \in ToSet(page)
      <4>1. PICK n \in DOMAIN page : page[n] = i
        BY <3>2 DEF ToSet
      <4>2. n \in Nat /\ n >= 1 /\ n <= Len(page)
        BY <1>4, <4>1
      <4>3. /\ n + Len(seen) \in DOMAIN both /\ ~(n + Len(seen) <= Len(seen))
            /\ (n + Len(seen)) - Len(seen) = n
        BY <1>4, <4>2
      <4>4. both[n + Len(seen)] = i
        BY <1>4, <4>1, <4>3
      <4> QED
        BY <4>3, <4>4 DEF ToSet
    <3>3. CASE i \notin ToSet(seen) /\ i \notin ToSet(page)
      BY <1>2, <2>2, <2>3, <3>3
    <3> QED
      BY <3>1, <3>2, <3>3
  <2> HIDE DEF both
  <2> QED
    BY <2>5, <2>6, <2>7 DEF Covers
<1> HIDE DEF both
<1>6. Ids' = Ids /\ Unread' = Unread
  BY <1>1 DEF Ids, Unread
<1> QED
  BY <1>1, <1>2, <1>3, <1>4, <1>5, <1>6 DEF ReadOK, both

\* The rows a poll adds and the rows that are read elsewhere take nothing from a
\* reader on the way.
LEMMA ReadMeanwhile ==
  ASSUME StoreOK, StoreOK', ReadOK, Poll \/ (\E i \in Ids : MarkRead(i))
  PROVE  ReadOK'
<1>1. Keeps(items', items) /\ (reading' # None => reading # None)
      /\ (reading' # None =>
            \E now \in SUBSET reading.stood :
              reading' = [reading EXCEPT !.stood = now] /\ now \subseteq Unread')
  <2>1. CASE Poll
    <3>1. Extends(items', items) /\ reading' = reading
      BY <2>1, PollStores DEF Poll
    <3>2. \A i \in Unread : i \in Unread'
      BY <3>1 DEF Extends, Unread, Ids
    <3>3. Keeps(items', items)
      BY <3>1 DEF Extends, Keeps
    <3>4. reading # None =>
            reading.stood \subseteq Unread' /\ reading' = [reading EXCEPT !.stood = reading.stood]
      BY <3>1, <3>2 DEF ReadOK
    <3> QED
      BY <3>1, <3>3, <3>4
  <2>2. ASSUME NEW i \in Ids, MarkRead(i)
        PROVE  /\ Keeps(items', items) /\ (reading' # None => reading # None)
               /\ (reading' # None =>
                     \E now \in SUBSET reading.stood :
                       reading' = [reading EXCEPT !.stood = now] /\ now \subseteq Unread')
    <3>1. items' = [items EXCEPT ![i] = [items[i] EXCEPT !.read = TRUE]]
      BY <2>2, MarkStores
    <3>2. items[i] \in Rows /\ i \in DOMAIN items
      BY DEF StoreOK, Ids
    <3>3. Keeps(items', items)
      BY <3>1, <3>2, RowIs DEF Keeps
    <3>4. ASSUME NEW j \in Unread, j # i  PROVE j \in Unread'
      BY <3>1, <3>4 DEF Unread, Ids
    <3>5. reading' = IF reading = None THEN None
                     ELSE [reading EXCEPT !.stood = reading.stood \ {i}]
      BY <2>2 DEF MarkRead
    <3>6. reading # None => reading.stood \ {i} \subseteq Unread'
      BY <3>4 DEF ReadOK
    <3> QED
      BY <3>3, <3>5, <3>6
  <2> QED
    BY <2>1, <2>2
<1> SUFFICES ASSUME reading' # None
             PROVE  ReadOK'
  BY DEF ReadOK
<1>2. PICK now \in SUBSET reading.stood :
        reading' = [reading EXCEPT !.stood = now] /\ now \subseteq Unread'
  BY <1>1
<1>3. /\ reading \in [seen : Seq(Ids), cursor : Cursors \cup {None}, stood : SUBSET Unread]
      /\ AllDated(items) => Covers(items, reading.seen, reading.cursor, reading.stood)
  BY <1>1 DEF ReadOK
<1>4. /\ reading'.seen = reading.seen /\ reading'.cursor = reading.cursor
      /\ reading'.stood = now
      /\ reading' = [seen |-> reading.seen, cursor |-> reading.cursor, stood |-> now]
  BY <1>2, <1>3
<1>5. /\ reading.seen \in Seq(Ids) /\ reading.cursor \in Cursors \cup {None}
      /\ reading.stood \in SUBSET Ids
  BY <1>3 DEF Unread
<1>6. AllDated(items') => Covers(items', reading.seen, reading.cursor, now)
  BY <1>1, <1>3, <1>5, CoversStays DEF Ids
<1>7. reading.seen \in Seq(Ids')
  <2>1. Ids \subseteq Ids'
    BY <1>1 DEF Keeps, Ids
  <2> QED
    BY <1>5, <2>1
<1> QED
  BY <1>2, <1>4, <1>5, <1>6, <1>7 DEF ReadOK

LEMMA ReadStep ==
  ASSUME StoreOK, ReadOK, [Next]_docVars
  PROVE  ReadOK'
<1>1. CASE Poll \/ (\E i \in Ids : MarkRead(i))
  <2>1. StoreOK'
    BY StoreStep
  <2> QED
    BY <1>1, <2>1, ReadMeanwhile
<1>2. CASE StartReading
  BY <1>2, ReadFirst
<1>3. CASE NextPage
  BY <1>3, ReadOn
<1>4. CASE StopReading
  BY <1>4 DEF StopReading, ReadOK
<1>5. CASE \/ Publish \/ IconStart \/ IconStored \/ IconFailed \/ UNCHANGED docVars
  <2>1. items' = items /\ reading' = reading
    BY <1>5 DEF Publish, IconStart, IconStored, IconFailed, docVars
  <2>2. Ids' = Ids /\ Unread' = Unread
    BY <2>1 DEF Ids, Unread
  <2> QED
    BY <2>1, <2>2 DEF ReadOK
<1> QED
  BY <1>1, <1>2, <1>3, <1>4, <1>5 DEF Next

\* A reader who gets to the last page has seen every row that stood in the list all
\* the way, and none twice, for any size of a page, whatever is polled and read
\* meanwhile, where every row is dated (list_items, cursor_for).
THEOREM PagesCovered == Spec => []PagesAreComplete
<1>1. Init => ReadOK
  BY DEF Init, ReadOK
<1>2. ReadOK => PagesAreComplete
  BY DEF ReadOK, PagesAreComplete, AllDated, Covers, Ids
<1>3. Spec => []ReadOK
  BY <1>1, ReadStep, StoreInvariant, PTL DEF Spec
<1> QED
  BY <1>2, <1>3, PTL
=============================================================================
