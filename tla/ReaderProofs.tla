---------------------------- MODULE ReaderProofs ----------------------------
(***************************************************************************)
(* One tab, for any number of items, feeds, clicks and messages under way. *)
(*                                                                         *)
(* The queues come first: what is in them after a message is sent, handled *)
(* out of turn or received.                                                *)
(***************************************************************************)
EXTENDS ReaderStore, TLAPS, FiniteSetTheorems, SequenceTheorems

Elements(s) == {s[j] : j \in 1..Len(s)}

\* Taking the k-th out leaves the others in their order.
LEMMA Removed ==
  ASSUME NEW S, NEW s \in Seq(S), NEW k \in 1..Len(s)
  PROVE  /\ RemoveAt(s, k) \in Seq(S)
         /\ Len(RemoveAt(s, k)) = Len(s) - 1
         /\ \A j \in 1..(Len(s) - 1) : RemoveAt(s, k)[j] = s[IF j < k THEN j ELSE j + 1]
         /\ Elements(RemoveAt(s, k)) \subseteq Elements(s)
<1> DEFINE before == SubSeq(s, 1, k - 1)
           after  == SubSeq(s, k + 1, Len(s))
<1>1. Len(s) \in Nat /\ k \in 1..Len(s)
  BY LenProperties
<1>2. /\ before \in Seq(S)
      /\ Len(before) = k - 1
      /\ \A j \in 1..(k - 1) : before[j] = s[j]
  BY <1>1, SubSeqProperties
<1>3. /\ after \in Seq(S)
      /\ Len(after) = Len(s) - k
      /\ \A j \in 1..(Len(s) - k) : after[j] = s[j + k]
  BY <1>1, SubSeqProperties
<1> HIDE DEF before, after
<1>4. RemoveAt(s, k) = before \o after
  BY DEF RemoveAt, before, after
<1>5. /\ before \o after \in Seq(S)
      /\ Len(before \o after) = Len(before) + Len(after)
      /\ \A j \in 1..(Len(before) + Len(after)) :
           (before \o after)[j] = IF j <= Len(before) THEN before[j] ELSE after[j - Len(before)]
  BY <1>2, <1>3, ConcatProperties
<1>6. /\ Len(before \o after) = Len(s) - 1
      /\ \A j \in 1..(Len(s) - 1) : (before \o after)[j] = s[IF j < k THEN j ELSE j + 1]
  <2>1. Len(before) + Len(after) = Len(s) - 1
    BY <1>1, <1>2, <1>3
  <2>2. ASSUME NEW j \in 1..(Len(s) - 1)
        PROVE  (before \o after)[j] = s[IF j < k THEN j ELSE j + 1]
    <3>1. CASE j < k
      BY <1>1, <1>2, <1>5, <2>1, <3>1
    <3>2. CASE ~(j < k)
      <4>1. j - (k - 1) \in 1..(Len(s) - k) /\ (j - (k - 1)) + k = j + 1
        BY <1>1, <3>2
      <4>2. (before \o after)[j] = after[j - (k - 1)]
        BY <1>1, <1>2, <1>5, <2>1, <3>2
      <4>3. after[j - (k - 1)] = s[(j - (k - 1)) + k]
        BY <1>3, <4>1
      <4>4. (before \o after)[j] = s[j + 1]
        BY <4>1, <4>2, <4>3
      <4>5. (IF j < k THEN j ELSE j + 1) = j + 1
        BY <1>1, <3>2
      <4> QED
        BY <4>4, <4>5
    <3> QED
      BY <3>1, <3>2
  <2> QED
    BY <1>5, <2>1, <2>2
<1>7. Elements(before \o after) \subseteq Elements(s)
  <2> SUFFICES ASSUME NEW j \in 1..(Len(s) - 1) PROVE (before \o after)[j] \in Elements(s)
    BY <1>6 DEF Elements
  <2>1. (IF j < k THEN j ELSE j + 1) \in 1..Len(s)
    BY <1>1
  <2> QED
    BY <1>6, <2>1 DEF Elements
<1> QED
  BY <1>4, <1>5, <1>6, <1>7

LEMMA Appended ==
  ASSUME NEW S, NEW s \in Seq(S), NEW m \in S
  PROVE  /\ Append(s, m) \in Seq(S)
         /\ Len(Append(s, m)) = Len(s) + 1
         /\ \A j \in 1..Len(s) : Append(s, m)[j] = s[j]
         /\ Append(s, m)[Len(s) + 1] = m
         /\ Elements(Append(s, m)) = Elements(s) \cup {m}
<1>1. /\ Append(s, m) \in Seq(S)
      /\ Len(s) \in Nat
      /\ Len(Append(s, m)) = Len(s) + 1
      /\ \A j \in 1..Len(s) : Append(s, m)[j] = s[j]
      /\ Append(s, m)[Len(s) + 1] = m
  BY AppendProperties, LenProperties
<1>2. Elements(Append(s, m)) = Elements(s) \cup {m}
  BY <1>1 DEF Elements
<1> QED
  BY <1>1, <1>2

LEMMA Joined ==
  ASSUME NEW S, NEW s \in Seq(S), NEW t \in Seq(S)
  PROVE  /\ s \o t \in Seq(S)
         /\ Elements(s \o t) = Elements(s) \cup Elements(t)
<1>1. /\ s \o t \in Seq(S)
      /\ Len(s) \in Nat /\ Len(t) \in Nat
      /\ Len(s \o t) = Len(s) + Len(t)
      /\ \A j \in 1..(Len(s) + Len(t)) :
           (s \o t)[j] = IF j <= Len(s) THEN s[j] ELSE t[j - Len(s)]
  BY ConcatProperties, LenProperties
<1>2. Elements(s \o t) \subseteq Elements(s) \cup Elements(t)
  BY <1>1 DEF Elements
<1>3. Elements(s) \subseteq Elements(s \o t)
  BY <1>1 DEF Elements
<1>4. Elements(t) \subseteq Elements(s \o t)
  <2> SUFFICES ASSUME NEW j \in 1..Len(t) PROVE t[j] \in Elements(s \o t)
    BY DEF Elements
  <2>1. j + Len(s) \in 1..(Len(s) + Len(t)) /\ (s \o t)[j + Len(s)] = t[j]
    BY <1>1
  <2> QED
    BY <1>1, <2>1 DEF Elements
<1> QED
  BY <1>1, <1>2, <1>3, <1>4

LEMMA FewElements ==
  ASSUME NEW S, NEW a \in S
  PROVE  /\ <<>> \in Seq(S) /\ Elements(<<>>) = {}
         /\ <<a>> \in Seq(S) /\ Elements(<<a>>) = {a}
BY DEF Elements

\* All others stay.
LEMMA Stays ==
  ASSUME NEW S, NEW s \in Seq(S), NEW k \in 1..Len(s)
  PROVE  Elements(s) \subseteq Elements(RemoveAt(s, k)) \cup {s[k]}
<1>1. /\ Len(s) \in Nat /\ Len(RemoveAt(s, k)) = Len(s) - 1
      /\ \A j \in 1..(Len(s) - 1) : RemoveAt(s, k)[j] = s[IF j < k THEN j ELSE j + 1]
  BY Removed, LenProperties
<1>2. SUFFICES ASSUME NEW j \in 1..Len(s), j # k PROVE s[j] \in Elements(RemoveAt(s, k))
  BY DEF Elements
<1>3. CASE j < k
  <2>1. j \in 1..(Len(s) - 1) /\ RemoveAt(s, k)[j] = s[j]
    BY <1>1, <1>3
  <2> QED
    BY <1>1, <2>1 DEF Elements
<1>4. CASE j > k
  <2>1. j - 1 \in 1..(Len(s) - 1) /\ ~(j - 1 < k) /\ (j - 1) + 1 = j
    BY <1>1, <1>4
  <2>2. RemoveAt(s, k)[j - 1] = s[j]
    BY <1>1, <2>1
  <2> QED
    BY <1>1, <2>1, <2>2 DEF Elements
<1> QED
  BY <1>2, <1>3, <1>4

\* The j-th is the last message that is in K; the last one in K is one of V, if
\* there is one; there is none.
LastOf(s, K, j) ==
  /\ j \in 1..Len(s)
  /\ s[j] \in K
  /\ \A n \in 1..Len(s) : s[n] \in K => n <= j

EndsIn(s, K, V) == \A j \in 1..Len(s) : LastOf(s, K, j) => s[j] \in V

Without(s, K) == \A j \in 1..Len(s) : s[j] \notin K

LEMMA LastAppended ==
  ASSUME NEW S, NEW s \in Seq(S), NEW m \in S, NEW K, NEW V
  PROVE  /\ m \in K /\ m \in V => EndsIn(Append(s, m), K, V)
         /\ m \in K => ~Without(Append(s, m), K)
         /\ m \notin K /\ EndsIn(s, K, V) => EndsIn(Append(s, m), K, V)
         /\ Without(Append(s, m), K) => Without(s, K)
<1> DEFINE t == Append(s, m)
<1>1. /\ Len(s) \in Nat /\ Len(t) = Len(s) + 1
      /\ \A j \in 1..Len(s) : t[j] = s[j]
      /\ t[Len(s) + 1] = m
  BY Appended, LenProperties
<1> HIDE DEF t
<1>2. /\ Len(t) \in 1..Len(t) /\ t[Len(t)] = m
      /\ \A j \in 1..Len(t) : j = Len(t) \/ j \in 1..Len(s)
      /\ \A j \in 1..Len(s) : j \in 1..Len(t) /\ t[j] = s[j]
  BY <1>1
<1>3. ASSUME m \in K, m \in V PROVE EndsIn(t, K, V)
  <2>1. \A j \in 1..Len(t) : LastOf(t, K, j) => j = Len(t)
    BY <1>1, <1>2, <1>3 DEF LastOf
  <2> QED
    BY <1>2, <1>3, <2>1 DEF EndsIn
<1>4. ASSUME m \notin K, EndsIn(s, K, V) PROVE EndsIn(t, K, V)
  <2>1. \A j \in 1..Len(t) : LastOf(t, K, j) => j \in 1..Len(s) /\ LastOf(s, K, j)
    BY <1>2, <1>4 DEF LastOf
  <2> QED
    BY <1>2, <1>4, <2>1 DEF EndsIn
<1>5. m \in K => ~Without(t, K)
  BY <1>2 DEF Without
<1>6. Without(t, K) => Without(s, K)
  BY <1>2 DEF Without
<1> QED
  BY <1>3, <1>4, <1>5, <1>6 DEF t

LEMMA LastRemoved ==
  ASSUME NEW S, NEW s \in Seq(S), NEW k \in 1..Len(s), NEW K, NEW V, EndsIn(s, K, V),
         s[k] \in K => \A j \in 1..(k - 1) : s[j] \notin K
  PROVE  /\ EndsIn(RemoveAt(s, k), K, V)
         /\ Without(RemoveAt(s, k), K) =>
              Without(s, K) \/ (s[k] \in K /\ s[k] \in V)
<1> DEFINE t == RemoveAt(s, k)
           at(j) == IF j < k THEN j ELSE j + 1
<1>1. /\ Len(s) \in Nat /\ Len(t) = Len(s) - 1
      /\ \A j \in 1..Len(t) : t[j] = s[at(j)] /\ at(j) \in 1..Len(s) /\ at(j) # k
  <2>1. /\ Len(s) \in Nat /\ Len(t) = Len(s) - 1
        /\ \A j \in 1..(Len(s) - 1) : t[j] = s[at(j)]
    BY Removed, LenProperties
  <2> QED
    BY <2>1
<1>2. ASSUME NEW i \in 1..Len(s), i # k PROVE \E j \in 1..Len(t) : at(j) = i
  <2>1. CASE i < k
    <3>1. i \in 1..Len(t) /\ at(i) = i
      BY <1>1, <2>1
    <3> QED
      BY <3>1
  <2>2. CASE i > k
    <3>1. i - 1 \in 1..Len(t) /\ at(i - 1) = i
      BY <1>1, <2>2
    <3> QED
      BY <3>1
  <2> QED
    BY <1>2, <2>1, <2>2
<1> HIDE DEF t, at
<1>3. ASSUME NEW j \in 1..Len(t), LastOf(t, K, j) PROVE t[j] \in V
  <2>1. s[at(j)] \in K /\ at(j) \in 1..Len(s) /\ at(j) # k
    BY <1>1, <1>3 DEF LastOf
  <2>2. ASSUME NEW i \in 1..Len(s), s[i] \in K PROVE i <= at(j)
    <3>1. CASE i = k
      <4>1. at(j) \notin 1..(k - 1)
        BY <2>1, <2>2, <3>1
      <4> QED
        BY <1>1, <2>1, <3>1, <4>1
    <3>2. CASE i # k
      <4>1. PICK l \in 1..Len(t) : at(l) = i
        BY <1>2, <3>2
      <4>2. l <= j
        BY <1>1, <1>3, <2>2, <4>1 DEF LastOf
      <4> QED
        BY <1>1, <4>1, <4>2 DEF at
    <3> QED
      BY <3>1, <3>2
  <2>3. LastOf(s, K, at(j))
    BY <2>1, <2>2 DEF LastOf
  <2> QED
    BY <1>1, <2>1, <2>3 DEF EndsIn
<1>4. ASSUME Without(t, K) PROVE Without(s, K) \/ (s[k] \in K /\ s[k] \in V)
  <2>1. ASSUME NEW i \in 1..Len(s), i # k PROVE s[i] \notin K
    <3>1. PICK j \in 1..Len(t) : at(j) = i
      BY <1>2, <2>1
    <3> QED
      BY <1>1, <1>4, <3>1 DEF Without
  <2>2. CASE s[k] \notin K
    BY <2>1, <2>2 DEF Without
  <2>3. CASE s[k] \in K
    <3>1. LastOf(s, K, k)
      BY <2>1, <2>3 DEF LastOf
    <3> QED
      BY <2>3, <3>1 DEF EndsIn
  <2> QED
    BY <2>2, <2>3
<1> QED
  BY <1>3, <1>4 DEF EndsIn, t
-----------------------------------------------------------------------------
(* What is under way, and what the tab keeps. *)

Kinds == {"items", "counts", "detail", "patch", "mark", "remove"}
Patch == [item : Items, read : BOOLEAN, opens : BOOLEAN]
Args  == Selection \cup Items \cup Feeds \cup {None} \cup Patch

Numbers == [feeds : Sidebar, topic : 0..Cardinality(Items)]
Bodies  == Lists \cup Numbers \cup Row \cup BOOLEAN \cup {None}

Request == [kind : Kinds, arg : Args]
Message == [kind : Kinds \cup Events, arg : Args, ok : BOOLEAN, body : Bodies]

\* What a request names; its answer names it too.
Named(r) ==
  /\ r.kind \in {"items", "mark"} => r.arg \in Selection
  /\ r.kind = "counts" => r.arg \in Items \cup {None}
  /\ r.kind = "detail" => r.arg \in Items
  /\ r.kind = "patch" => r.arg \in Patch
  /\ r.kind = "remove" => r.arg \in Feeds

\* What an answer or an event brings.
Brings(m) ==
  /\ m.kind = "items" /\ m.ok => m.body \in Lists
  /\ m.kind = "counts" /\ m.ok => m.body \in Numbers
  /\ m.kind \in {"detail", "patch"} /\ m.ok => m.body \in Row
  /\ m.kind = "item-enriched" => m.arg \in Items /\ m.body \in BOOLEAN

QueuesOK ==
  /\ up \in Seq(Request)
  /\ down \in Seq(Message)
  /\ \A r \in Elements(up) : Named(r)
  /\ \A m \in Elements(down) : Named(m) /\ Brings(m)

\* The item that is awaited was clicked last, what was shown was opened, and
\* only what was opened is being marked read on its own.
PaneOK ==
  /\ page.opening \in {None, wanted}
  /\ page.open # None => page.open.item \in opened
  /\ \A r \in Elements(up) : r.kind = "patch" /\ r.arg.read => r.arg.item \in opened

TabInv == ReaderTypeOK /\ QueuesOK /\ PaneOK

\* A part of the page's record that changes leaves the rest.
LEMMA PageParts ==
  ASSUME NEW p \in Pages
  PROVE  /\ p.sel \in Selection /\ p.list \in Lists
         /\ p.open \in Opened \cup {None}
         /\ p.opening \in Items \cup {None}
         /\ p.feeds \in Sidebar /\ p.topic \in 0..Cardinality(Items)
         /\ p.timer \in BOOLEAN /\ p.atTop \in BOOLEAN
BY DEF Pages

\* The page's numbers, and all of it but the pane.
SameNumbers(p) == p.feeds = page.feeds /\ p.topic = page.topic

LEMMA PageSel ==
  ASSUME NEW p \in Pages, NEW v \in Selection
  PROVE  /\ [p EXCEPT !.sel = v] \in Pages
         /\ [p EXCEPT !.sel = v].sel = v
         /\ [p EXCEPT !.sel = v].open = p.open /\ [p EXCEPT !.sel = v].opening = p.opening
         /\ [p EXCEPT !.sel = v].feeds = p.feeds /\ [p EXCEPT !.sel = v].topic = p.topic
         /\ [p EXCEPT !.sel = v].timer = p.timer /\ [p EXCEPT !.sel = v].list = p.list
BY DEF Pages

LEMMA PageOpen ==
  ASSUME NEW p \in Pages, NEW v \in Opened \cup {None}
  PROVE  /\ [p EXCEPT !.open = v] \in Pages
         /\ [p EXCEPT !.open = v].sel = p.sel
         /\ [p EXCEPT !.open = v].open = v /\ [p EXCEPT !.open = v].opening = p.opening
         /\ [p EXCEPT !.open = v].feeds = p.feeds /\ [p EXCEPT !.open = v].topic = p.topic
         /\ [p EXCEPT !.open = v].timer = p.timer /\ [p EXCEPT !.open = v].list = p.list
BY DEF Pages

LEMMA PageOpening ==
  ASSUME NEW p \in Pages, NEW v \in Items \cup {None}
  PROVE  /\ [p EXCEPT !.opening = v] \in Pages
         /\ [p EXCEPT !.opening = v].sel = p.sel
         /\ [p EXCEPT !.opening = v].open = p.open /\ [p EXCEPT !.opening = v].opening = v
         /\ [p EXCEPT !.opening = v].feeds = p.feeds /\ [p EXCEPT !.opening = v].topic = p.topic
         /\ [p EXCEPT !.opening = v].timer = p.timer /\ [p EXCEPT !.opening = v].list = p.list
BY DEF Pages

LEMMA PageList ==
  ASSUME NEW p \in Pages, NEW v \in Lists
  PROVE  /\ [p EXCEPT !.list = v] \in Pages
         /\ [p EXCEPT !.list = v].sel = p.sel
         /\ [p EXCEPT !.list = v].open = p.open /\ [p EXCEPT !.list = v].opening = p.opening
         /\ [p EXCEPT !.list = v].feeds = p.feeds /\ [p EXCEPT !.list = v].topic = p.topic
         /\ [p EXCEPT !.list = v].timer = p.timer /\ [p EXCEPT !.list = v].list = v
BY DEF Pages

LEMMA PageNumbers ==
  ASSUME NEW p \in Pages, NEW n \in Numbers
  PROVE  LET q == [p EXCEPT !.feeds = n.feeds, !.topic = n.topic]
         IN  /\ q \in Pages /\ q.sel = p.sel
             /\ q.open = p.open /\ q.opening = p.opening
             /\ q.feeds = n.feeds /\ q.topic = n.topic
             /\ q.timer = p.timer /\ q.list = p.list
BY DEF Pages, Numbers

LEMMA PageTimer ==
  ASSUME NEW p \in Pages, NEW v \in BOOLEAN
  PROVE  /\ [p EXCEPT !.timer = v] \in Pages
         /\ [p EXCEPT !.timer = v].sel = p.sel
         /\ [p EXCEPT !.timer = v].open = p.open /\ [p EXCEPT !.timer = v].opening = p.opening
         /\ [p EXCEPT !.timer = v].feeds = p.feeds /\ [p EXCEPT !.timer = v].topic = p.topic
         /\ [p EXCEPT !.timer = v].timer = v /\ [p EXCEPT !.timer = v].list = p.list
BY DEF Pages

LEMMA SettledPage ==
  ASSUME NEW p \in Pages, NEW i
  PROVE  /\ Settled(p, i) \in Pages /\ Settled(p, i).sel = p.sel
         /\ Settled(p, i).open = p.open /\ Settled(p, i).opening \in {None, p.opening}
         /\ Settled(p, i).feeds = p.feeds /\ Settled(p, i).topic = p.topic
         /\ Settled(p, i).timer = p.timer /\ Settled(p, i).list = p.list
BY PageOpening DEF Settled

LEMMA PatchedPage ==
  ASSUME NEW p \in Pages, NEW i \in Items, NEW row \in Row
  PROVE  /\ Patched(p, i, row) \in Pages /\ Patched(p, i, row).sel = p.sel
         /\ Patched(p, i, row).opening = p.opening
         /\ Patched(p, i, row).open = None <=> p.open = None
         /\ p.open # None => Patched(p, i, row).open.item = p.open.item
         /\ Patched(p, i, row).feeds = p.feeds /\ Patched(p, i, row).topic = p.topic
         /\ Patched(p, i, row).timer = p.timer
         /\ Patched(p, i, row).list = [j \in DOMAIN p.list |-> IF j = i THEN row ELSE p.list[j]]
<1> DEFINE list == [j \in DOMAIN p.list |-> IF j = i THEN row ELSE p.list[j]]
           open == IF p.open # None /\ p.open.item = i THEN [item |-> i, row |-> row] ELSE p.open
<1>1. list \in Lists
  <2>1. PICK S \in SUBSET Items : p.list \in [S -> Row]
    BY PageParts DEF Lists
  <2>2. list \in [S -> Row]
    BY <2>1
  <2> QED
    BY <2>2 DEF Lists
<1>2. /\ open \in Opened \cup {None}
      /\ open = None <=> p.open = None
      /\ p.open # None => open.item = p.open.item
  <2>1. [item |-> i, row |-> row] \in Opened
    BY DEF Opened
  <2> QED
    BY <2>1, ReaderNone, PageParts DEF Opened
<1> HIDE DEF list, open
<1>3. Patched(p, i, row) = [p EXCEPT !.list = list, !.open = open]
  BY DEF Patched, list, open
<1>4. /\ Patched(p, i, row) \in Pages /\ Patched(p, i, row).sel = p.sel
      /\ Patched(p, i, row).opening = p.opening /\ Patched(p, i, row).open = open
      /\ Patched(p, i, row).feeds = p.feeds /\ Patched(p, i, row).topic = p.topic
      /\ Patched(p, i, row).timer = p.timer /\ Patched(p, i, row).list = list
  BY <1>1, <1>2, <1>3 DEF Pages
<1> QED
  BY <1>2, <1>4 DEF list

\* A row whose tags are said anew.
Retagged(row, tagged) == [row EXCEPT !.tagged = tagged]

LEMMA RetaggedRow ==
  ASSUME NEW row \in Row, NEW tagged \in BOOLEAN
  PROVE  /\ Retagged(row, tagged) \in Row
         /\ Retagged(row, tagged).read = row.read /\ Retagged(row, tagged).tagged = tagged
BY DEF Retagged, Row

LEMMA EnrichedPage ==
  ASSUME NEW p \in Pages, NEW i \in Items, NEW tagged \in BOOLEAN
  PROVE  /\ Enriched(p, i, tagged) \in Pages /\ Enriched(p, i, tagged).sel = p.sel
         /\ Enriched(p, i, tagged).opening = p.opening
         /\ Enriched(p, i, tagged).open = None <=> p.open = None
         /\ p.open # None => Enriched(p, i, tagged).open.item = p.open.item
         /\ Enriched(p, i, tagged).feeds = p.feeds /\ Enriched(p, i, tagged).topic = p.topic
         /\ Enriched(p, i, tagged).timer = p.timer
         /\ Enriched(p, i, tagged).list =
              [j \in DOMAIN p.list |-> IF j = i THEN Retagged(p.list[j], tagged) ELSE p.list[j]]
<1> DEFINE list == [j \in DOMAIN p.list |->
                      IF j = i THEN Retagged(p.list[j], tagged) ELSE p.list[j]]
           open == IF p.open # None /\ p.open.item = i
                   THEN [item |-> i, row |-> Retagged(p.open.row, tagged)] ELSE p.open
<1>1. list \in Lists
  <2>1. PICK S \in SUBSET Items : p.list \in [S -> Row]
    BY PageParts DEF Lists
  <2>2. \A j \in S : Retagged(p.list[j], tagged) \in Row
    BY <2>1, RetaggedRow
  <2>3. list \in [S -> Row]
    BY <2>1, <2>2
  <2> QED
    BY <2>3 DEF Lists
<1>2. /\ open \in Opened \cup {None}
      /\ open = None <=> p.open = None
      /\ p.open # None => open.item = p.open.item
  <2>1. CASE p.open # None /\ p.open.item = i
    <3>1. p.open.row \in Row
      BY <2>1, PageParts DEF Opened
    <3>2. Retagged(p.open.row, tagged) \in Row
      BY <3>1, RetaggedRow
    <3>3. open \in Opened /\ open.item = i
      BY <2>1, <3>2 DEF Opened
    <3> QED
      BY <2>1, <3>3, ReaderNone
  <2>2. CASE ~(p.open # None /\ p.open.item = i)
    BY <2>2, PageParts
  <2> QED
    BY <2>1, <2>2
<1>3. Enriched(p, i, tagged) = [p EXCEPT !.list = list, !.open = open]
  BY DEF Enriched, Retagged
<1> HIDE DEF list, open
<1>4. /\ Enriched(p, i, tagged) \in Pages /\ Enriched(p, i, tagged).sel = p.sel
      /\ Enriched(p, i, tagged).opening = p.opening /\ Enriched(p, i, tagged).open = open
      /\ Enriched(p, i, tagged).feeds = p.feeds /\ Enriched(p, i, tagged).topic = p.topic
      /\ Enriched(p, i, tagged).timer = p.timer /\ Enriched(p, i, tagged).list = list
  BY <1>1, <1>2, <1>3 DEF Pages
<1> QED
  BY <1>2, <1>4 DEF list
-----------------------------------------------------------------------------
(* What the server answers and does. *)

LEMMA TablesParts ==
  ASSUME NEW d \in Database
  PROVE  /\ d.feeds \in SUBSET Feeds /\ d.stored \in SUBSET Items
         /\ d.read \in SUBSET Items /\ d.tagged \in SUBSET Items
         /\ d.head \in [Items -> Items]
BY DEF Database

LEMMA TablesRead ==
  ASSUME NEW d \in Database, NEW S \in SUBSET Items
  PROVE  [d EXCEPT !.read = S] \in Database /\ [d EXCEPT !.read = S].read = S
BY DEF Database

LEMMA RowTyped == \A d, i : RowOf(d, i) \in Row
BY DEF RowOf, Row

\* Rows of any items make a list.
LEMMA ListTyped ==
  ASSUME NEW d, NEW S \in SUBSET Items
  PROVE  [i \in S |-> RowOf(d, i)] \in Lists
<1>1. [i \in S |-> RowOf(d, i)] \in [S -> Row]
  BY RowTyped
<1> QED
  BY <1>1 DEF Lists

\* Whichever way a list is found, its items are stored, and belong to what was
\* asked for.
LEMMA FoundFits ==
  ASSUME NEW d, NEW sel, NEW S \in Found(d, sel)
  PROVE  \A i \in S : i \in d.stored /\ (InScope(d, sel, i) \/ ByMeaning(sel, i))
<1>1. CASE S = Listed(d, sel)
  BY <1>1 DEF Listed
<1>2. CASE S \in SUBSET {i \in d.stored : ByMeaning(sel, i)}
  BY <1>2
<1> QED
  BY <1>1, <1>2 DEF Found

\* A set of items has a number of elements the sidebar can show.
LEMMA CountTyped ==
  ASSUME NEW S \in SUBSET Items PROVE Cardinality(S) \in 0..Cardinality(Items)
<1>1. IsFiniteSet(Items)
  BY ReaderAssumption
<1>2. /\ IsFiniteSet(S)
      /\ Cardinality(S) \in Nat /\ Cardinality(Items) \in Nat
      /\ Cardinality(S) <= Cardinality(Items)
  BY <1>1, FS_Subset, FS_CardinalityType
<1> QED
  BY <1>2

NumbersOf(d) == [feeds |-> FeedCounts(d), topic |-> TopicCount(d)]

LEMMA NumbersTyped ==
  ASSUME NEW d \in Database PROVE NumbersOf(d) \in Numbers
<1>1. Unread(d) \in SUBSET Items
  BY TablesParts DEF Unread
<1>2. FeedCounts(d) \in Sidebar
  <2>1. \A f \in d.feeds :
          Cardinality({i \in Unread(d) : FeedOf[i] = f}) \in 0..Cardinality(Items)
    <3> TAKE f \in d.feeds
    <3>1. {i \in Unread(d) : FeedOf[i] = f} \in SUBSET Items
      BY <1>1
    <3> QED
      BY <3>1, CountTyped
  <2>2. FeedCounts(d) \in [d.feeds -> 0..Cardinality(Items)]
    BY <2>1 DEF FeedCounts
  <2> QED
    BY <2>2, TablesParts DEF Sidebar
<1>3. TopicCount(d) \in 0..Cardinality(Items)
  <2> DEFINE n == Cardinality(Unread(d) \cap d.tagged)
  <2>1. n \in 0..Cardinality(Items)
    <3>1. Unread(d) \cap d.tagged \in SUBSET Items
      BY <1>1
    <3> QED
      BY <3>1, CountTyped
  <2>2. TopicCount(d) = IF n >= MinTopic THEN n ELSE 0
    BY DEF TopicCount
  <2> HIDE DEF n
  <2>3. Cardinality(Items) \in Nat
    BY FS_CardinalityType, ReaderAssumption
  <2> QED
    BY <2>1, <2>2, <2>3
<1> QED
  BY <1>2, <1>3 DEF NumbersOf, Numbers

Writes == {"patch", "mark", "remove"}

LEMMA EffectTyped ==
  ASSUME db \in Database, NEW r \in Request, Named(r)
  PROVE  /\ Effect(r) \in Database
         /\ r.kind \notin Writes => Effect(r) = db
         /\ \A i \in Effect(r).read \ db.read :
              \/ r.kind = "patch" /\ r.arg.read /\ i = r.arg.item
              \/ r.kind = "mark" /\ i \in Marked(db, r.arg)
<1>1. r.kind \in Kinds
  BY DEF Request
<1>2. CASE r.kind = "patch"
  <2> DEFINE S == IF r.arg.read THEN db.read \cup {r.arg.item} ELSE db.read \ {r.arg.item}
  <2>1. S \in SUBSET Items
    BY <1>2, TablesParts DEF Named, Patch
  <2>2. Effect(r) = [db EXCEPT !.read = S]
    BY <1>2 DEF Effect
  <2>3. Effect(r) \in Database /\ Effect(r).read = S
    BY <2>1, <2>2, TablesRead
  <2> QED
    BY <1>2, <2>3 DEF Writes
<1>3. CASE r.kind = "mark"
  <2> DEFINE S == db.read \cup Marked(db, r.arg)
  <2>1. S \in SUBSET Items
    BY TablesParts DEF Marked
  <2>2. Effect(r) = [db EXCEPT !.read = S]
    BY <1>3 DEF Effect
  <2>3. Effect(r) \in Database /\ Effect(r).read = S
    BY <2>1, <2>2, TablesRead
  <2> QED
    BY <1>3, <2>3 DEF Writes
<1>4. CASE r.kind = "remove"
  <2> DEFINE gone == {i \in Items : FeedOf[i] = r.arg}
  <2>1. Effect(r) = [db EXCEPT !.feeds = @ \ {r.arg}, !.stored = @ \ gone,
                               !.read = @ \ gone, !.tagged = @ \ gone]
    BY <1>4 DEF Effect
  <2> HIDE DEF gone
  <2>3. Effect(r) \in Database /\ Effect(r).read = db.read \ gone
    BY <2>1 DEF Database
  <2> QED
    BY <1>4, <2>3 DEF Writes
<1>5. CASE r.kind \notin Writes
  BY <1>5 DEF Effect, Writes
<1> QED
  BY <1>2, <1>3, <1>4, <1>5 DEF Writes

\* An answer names what its request named, and brings what the page expects.
LEMMA AnswerTyped ==
  ASSUME NEW r \in Request, Named(r), NEW d \in Database, NEW ok \in BOOLEAN,
         NEW body, body \in (IF ok THEN BodiesOf(r, d) ELSE {None})
  PROVE  /\ Answer(r, ok, body) \in Message
         /\ Named(Answer(r, ok, body)) /\ Brings(Answer(r, ok, body))
         /\ Answer(r, ok, body).kind = r.kind /\ Answer(r, ok, body).ok = ok
         /\ Answer(r, ok, body).body = body
         /\ ok /\ r.kind = "counts" => body = NumbersOf(d)
<1>1. r.kind \in Kinds /\ r.arg \in Args
  BY DEF Request
<1>2. /\ ok /\ r.kind = "items" => body \in Lists
      /\ ok /\ r.kind = "counts" => body = NumbersOf(d) /\ body \in Numbers
      /\ ok /\ r.kind \in {"detail", "patch"} => body \in Row
      /\ body \in Bodies
  <2>1. CASE ~ok
    BY <2>1 DEF Bodies
  <2>2. CASE ok /\ r.kind = "items"
    <3>1. PICK S \in Found(d, r.arg) : body = [i \in S |-> RowOf(d, i)]
      BY <2>2 DEF BodiesOf
    <3>2. S \in SUBSET Items
      BY FoundFits, TablesParts
    <3> QED
      BY <2>2, <3>1, <3>2, ListTyped DEF Bodies
  <2>3. CASE ok /\ r.kind = "counts"
    <3>1. body = NumbersOf(d)
      BY <2>3 DEF BodiesOf, NumbersOf
    <3> QED
      BY <2>3, <3>1, NumbersTyped DEF Bodies
  <2>4. CASE ok /\ r.kind \in {"detail", "patch"}
    <3>1. body \in Row
      BY <2>4, RowTyped DEF BodiesOf
    <3> QED
      BY <2>4, <3>1 DEF Bodies
  <2>5. CASE ok /\ r.kind \notin {"items", "counts", "detail", "patch"}
    BY <2>5 DEF BodiesOf, Bodies
  <2> QED
    BY <2>1, <2>2, <2>3, <2>4, <2>5
<1>3. /\ Answer(r, ok, body) \in Message
      /\ Answer(r, ok, body).kind = r.kind /\ Answer(r, ok, body).arg = r.arg
      /\ Answer(r, ok, body).ok = ok /\ Answer(r, ok, body).body = body
  BY <1>1, <1>2 DEF Answer, Message
<1>4. r.kind # "item-enriched"
  BY <1>1 DEF Kinds
<1> QED
  BY <1>2, <1>3, <1>4 DEF Named, Brings
-----------------------------------------------------------------------------
(* What the page sends. *)

LEMMA AskTyped ==
  /\ \A sel \in Selection : /\ Ask("items", sel) \in Request /\ Named(Ask("items", sel))
                            /\ Ask("mark", sel) \in Request /\ Named(Ask("mark", sel))
  /\ \A i \in Items \cup {None} : Ask("counts", i) \in Request /\ Named(Ask("counts", i))
  /\ \A i \in Items : Ask("detail", i) \in Request /\ Named(Ask("detail", i))
  /\ \A arg \in Patch : Ask("patch", arg) \in Request /\ Named(Ask("patch", arg))
  /\ \A f \in Feeds : Ask("remove", f) \in Request /\ Named(Ask("remove", f))
BY DEF Ask, Request, Kinds, Args, Named

LEMMA AskParts == \A kind, arg : Ask(kind, arg).kind = kind /\ Ask(kind, arg).arg = arg
BY DEF Ask

\* One message, or the pair of them that follows a change, is added.
LEMMA Sending ==
  ASSUME QueuesOK, NEW p, NEW a \in Request, NEW b \in Request, Named(a), Named(b),
         NEW requests, requests \in {<<>>, <<a>>, <<a>> \o <<b>>},
         Remember(p, requests)
  PROVE  /\ page' = p
         /\ up' \in Seq(Request)
         /\ \A r \in Elements(up') : Named(r)
         /\ Elements(up) \subseteq Elements(up')
         /\ Elements(up') \subseteq Elements(up) \cup {a, b}
         /\ requests \in {<<a>>, <<a>> \o <<b>>} => a \in Elements(up')
         /\ requests = <<>> => Elements(up') = Elements(up)
         /\ requests = <<a>> => Elements(up') = Elements(up) \cup {a}
<1> DEFINE Facts ==
      /\ requests \in Seq(Request)
      /\ Elements(requests) \subseteq {a, b}
      /\ requests \in {<<a>>, <<a>> \o <<b>>} => a \in Elements(requests)
      /\ requests = <<>> => Elements(requests) = {}
      /\ requests = <<a>> => Elements(requests) = {a}
<1>0. /\ <<>> \in Seq(Request) /\ <<a>> \in Seq(Request) /\ <<a>> \o <<b>> \in Seq(Request)
      /\ Elements(<<>>) = {} /\ Elements(<<a>>) = {a} /\ Elements(<<a>> \o <<b>>) = {a, b}
  <2> DEFINE x == <<a>>
             y == <<b>>
  <2>1. /\ <<>> \in Seq(Request) /\ x \in Seq(Request) /\ y \in Seq(Request)
        /\ Elements(<<>>) = {} /\ Elements(x) = {a} /\ Elements(y) = {b}
    BY FewElements
  <2> HIDE DEF x, y
  <2>2. x \o y \in Seq(Request) /\ Elements(x \o y) = {a, b}
    <3>1. x \o y \in Seq(Request) /\ Elements(x \o y) = Elements(x) \cup Elements(y)
      BY <2>1, Joined
    <3> QED
      BY <2>1, <3>1
  <2> QED
    BY <2>1, <2>2 DEF x, y
<1>1. requests = <<>> => Facts
  BY <1>0, Zenon
<1>2. requests = <<a>> => Facts
  BY <1>0, Zenon
<1>3. requests = <<a>> \o <<b>> => Facts
  BY <1>0, Zenon
<1>4. Facts
  BY <1>1, <1>2, <1>3
<1> HIDE DEF Facts
<1>5. /\ requests \in Seq(Request)
      /\ up \in Seq(Request)
      /\ up' = up \o requests /\ page' = p
  BY <1>4 DEF Facts, Remember, QueuesOK
<1>6. /\ up' \in Seq(Request)
      /\ Elements(up') = Elements(up) \cup Elements(requests)
  BY <1>5, Joined
<1> QED
  BY <1>4, <1>5, <1>6 DEF QueuesOK, Facts

LEMMA ReloadIs ==
  \A sel : Reload(sel) = <<Ask("counts", None)>> \o <<Ask("items", sel)>>
BY DEF Reload, Counts, Load
-----------------------------------------------------------------------------
(* What receiving a message does to the tab. *)

Trigger(m) == m.kind \in Events \/ (m.ok /\ m.kind \in Writes)

Received(m) ==
  /\ page' \in Pages
  /\ up' \in Seq(Request)
  /\ \A r \in Elements(up') : Named(r)
  /\ Elements(up) \subseteq Elements(up')
  /\ opened \subseteq opened'
  /\ page'.opening \in {None, page.opening}
  /\ page'.open # None => page'.open.item \in opened'
  /\ \A r \in Elements(up') : r.kind = "patch" /\ r.arg.read => r.arg.item \in opened'
  /\ page'.open # None => \/ page.open # None /\ page'.open.item = page.open.item
                          \/ page.opening # None /\ page'.open.item = page.opening
  /\ page.timer => page'.timer
  /\ m.kind # "counts" => page'.feeds = page.feeds /\ page'.topic = page.topic
  /\ m.kind = "counts" /\ m.ok => page'.feeds = m.body.feeds /\ page'.topic = m.body.topic
  /\ Trigger(m) => page'.timer \/ \E r \in Elements(up') : r.kind = "counts"

\* A message that asks for nothing and changes nothing of the pane.
LEMMA ReceivedQuietly ==
  ASSUME TabInv, NEW m, NEW p \in Pages, Remember(p, <<>>), UNCHANGED opened,
         p.opening \in {None, page.opening},
         p.open = None <=> page.open = None,
         p.open # None => p.open.item = page.open.item,
         page.timer => p.timer,
         m.kind # "counts" => p.feeds = page.feeds /\ p.topic = page.topic,
         m.kind = "counts" /\ m.ok => p.feeds = m.body.feeds /\ p.topic = m.body.topic,
         Trigger(m) => p.timer
  PROVE  Received(m)
<1> DEFINE a == Ask("counts", None)
<1>1. a \in Request /\ Named(a)
  BY AskTyped
<1> HIDE DEF a
<1>2. /\ page' = p /\ up' \in Seq(Request) /\ Elements(up') = Elements(up)
      /\ \A r \in Elements(up') : Named(r)
  BY <1>1, Sending DEF TabInv
<1> QED
  BY <1>2 DEF Received, TabInv, PaneOK

LEMMA PageTyped == ASSUME TabInv PROVE page \in Pages /\ db \in Database
BY DEF TabInv, ReaderTypeOK

LEMMA ItemsReceived ==
  ASSUME TabInv, NEW m \in Elements(down), m.kind = "items", ReceiveItems(m)
  PROVE  Received(m)
<1>1. page \in Pages /\ Brings(m)
  BY PageTyped DEF TabInv, QueuesOK
<1> DEFINE p == IF m.ok THEN [page EXCEPT !.list = m.body] ELSE page
<1>2. /\ p \in Pages /\ p.open = page.open /\ p.opening = page.opening
      /\ p.feeds = page.feeds /\ p.topic = page.topic /\ p.timer = page.timer
  BY <1>1, PageList DEF Brings
<1>3. Remember(p, <<>>) /\ UNCHANGED opened /\ ~Trigger(m)
  BY DEF ReceiveItems, Trigger, Events, Writes
<1> HIDE DEF p
<1> QED
  BY <1>2, <1>3, ReceivedQuietly

LEMMA CountsReceived ==
  ASSUME TabInv, NEW m \in Elements(down), m.kind = "counts", ReceiveCounts(m)
  PROVE  Received(m)
<1> DEFINE q == IF m.ok THEN [page EXCEPT !.feeds = m.body.feeds, !.topic = m.body.topic]
                ELSE page
           p == IF m.arg # None THEN Settled(q, m.arg) ELSE q
<1>1. page \in Pages /\ Brings(m)
  BY PageTyped DEF TabInv, QueuesOK
<1>2. /\ q \in Pages /\ q.open = page.open /\ q.opening = page.opening /\ q.timer = page.timer
      /\ m.ok => q.feeds = m.body.feeds /\ q.topic = m.body.topic
  BY <1>1, PageNumbers DEF Brings
<1>3. Remember(p, <<>>) /\ UNCHANGED opened /\ ~Trigger(m)
  BY DEF ReceiveCounts, Trigger, Events, Writes
<1> HIDE DEF q
<1>4. /\ p \in Pages /\ p.open = q.open /\ p.opening \in {None, q.opening}
      /\ p.timer = q.timer /\ p.feeds = q.feeds /\ p.topic = q.topic
  BY <1>2, SettledPage
<1> HIDE DEF p
<1> QED
  BY <1>2, <1>3, <1>4, ReceivedQuietly

LEMMA DetailReceived ==
  ASSUME TabInv, NEW m \in Elements(down), m.kind = "detail", ReceiveDetail(m)
  PROVE  Received(m)
<1>1. page \in Pages /\ Brings(m) /\ m.arg \in Items /\ m.arg # None
  BY PageTyped, ReaderAssumption DEF TabInv, QueuesOK, Named
<1>2. ~Trigger(m)
  BY DEF Trigger, Events, Writes
<1>3. CASE Remember(page, <<>>) /\ UNCHANGED opened
  BY <1>1, <1>2, <1>3, ReceivedQuietly
<1>4. CASE Remember(Settled(page, m.arg), <<>>) /\ UNCHANGED opened
  <2> DEFINE p == Settled(page, m.arg)
  <2>1. /\ p \in Pages /\ p.open = page.open /\ p.opening \in {None, page.opening}
        /\ p.timer = page.timer /\ p.feeds = page.feeds /\ p.topic = page.topic
    BY <1>1, SettledPage
  <2>2. Remember(p, <<>>)
    BY <1>4
  <2> HIDE DEF p
  <2> QED
    BY <1>2, <1>4, <2>1, <2>2, ReceivedQuietly
<1>5. CASE /\ page.opening = m.arg /\ m.ok /\ opened' = opened \cup {m.arg}
           /\ LET p == [page EXCEPT !.open = [item |-> m.arg, row |-> m.body]]
              IN IF m.body.read THEN Remember(Settled(p, m.arg), <<>>)
                 ELSE Remember(p, <<Ask("patch", [item |-> m.arg, read |-> TRUE,
                                                  opens |-> TRUE])>>)
  <2> DEFINE shown == [item |-> m.arg, row |-> m.body]
             p   == [page EXCEPT !.open = shown]
             arg == [item |-> m.arg, read |-> TRUE, opens |-> TRUE]
             a   == Ask("patch", arg)
  <2>1. shown \in Opened /\ shown.item = m.arg
    BY <1>1, <1>5 DEF Brings, Opened
  <2>2. /\ p \in Pages /\ p.open = shown /\ p.opening = page.opening
        /\ p.timer = page.timer /\ p.feeds = page.feeds /\ p.topic = page.topic
    BY <1>1, <2>1, PageOpen
  <2>3. a \in Request /\ Named(a) /\ a.arg.item = m.arg
    <3>1. arg \in Patch /\ arg.item = m.arg
      BY <1>1 DEF Patch
    <3> HIDE DEF arg
    <3> QED
      BY <3>1, AskTyped, AskParts
  <2>4. Remember(Settled(p, m.arg), <<>>) \/ Remember(p, <<a>>)
    BY <1>5
  <2> HIDE DEF shown, p, arg, a
  <2>5. ASSUME NEW q \in Pages, q.open = shown, q.opening \in {None, page.opening},
               q.timer = page.timer, q.feeds = page.feeds, q.topic = page.topic,
               Remember(q, <<>>) \/ Remember(q, <<a>>)
        PROVE  Received(m)
    <3>1. /\ page' = q /\ up' \in Seq(Request)
          /\ \A r \in Elements(up') : Named(r)
          /\ Elements(up) \subseteq Elements(up')
          /\ Elements(up') \subseteq Elements(up) \cup {a}
      <4>1. CASE Remember(q, <<>>)
        BY <2>3, <4>1, Sending DEF TabInv
      <4>2. CASE Remember(q, <<a>>)
        BY <2>3, <4>2, Sending DEF TabInv
      <4> QED
        BY <2>5, <4>1, <4>2
    <3> QED
      BY <1>1, <1>2, <1>5, <2>1, <2>3, <2>5, <3>1, ReaderNone DEF Received, TabInv, PaneOK
  <2>6. CASE Remember(p, <<a>>)
    BY <2>2, <2>5, <2>6
  <2>7. CASE Remember(Settled(p, m.arg), <<>>)
    <3> DEFINE q == Settled(p, m.arg)
    <3>1. /\ q \in Pages /\ q.open = shown /\ q.opening \in {None, page.opening}
          /\ q.timer = page.timer /\ q.feeds = page.feeds /\ q.topic = page.topic
      BY <2>2, SettledPage
    <3>2. Remember(q, <<>>)
      BY <2>7
    <3> HIDE DEF q
    <3> QED
      BY <2>5, <3>1, <3>2
  <2> QED
    BY <2>4, <2>6, <2>7
<1> QED
  BY <1>3, <1>4, <1>5 DEF ReceiveDetail

\* A message after which the page asks for counts, and perhaps for the list.
LEMMA ReceivedAsking ==
  ASSUME TabInv, NEW m, m.kind # "counts", UNCHANGED opened,
         NEW p \in Pages, NEW i \in Items \cup {None}, NEW b \in Request, Named(b),
         b.kind # "patch",
         \/ Remember(p, <<Ask("counts", i)>>)
         \/ Remember(p, <<Ask("counts", i)>> \o <<b>>),
         p.opening \in {None, page.opening},
         p.open = None <=> page.open = None,
         p.open # None => p.open.item = page.open.item,
         page.timer => p.timer,
         p.feeds = page.feeds, p.topic = page.topic
  PROVE  Received(m)
<1> DEFINE a == Ask("counts", i)
<1>1. a \in Request /\ Named(a) /\ a.kind = "counts"
  BY AskTyped, AskParts
<1>2. Remember(p, <<a>>) \/ Remember(p, <<a>> \o <<b>>)
  OBVIOUS
<1> HIDE DEF a
<1>3. /\ page' = p /\ up' \in Seq(Request)
      /\ \A r \in Elements(up') : Named(r)
      /\ Elements(up) \subseteq Elements(up')
      /\ Elements(up') \subseteq Elements(up) \cup {a, b}
      /\ a \in Elements(up')
  <2>1. CASE Remember(p, <<a>>)
    BY <1>1, <2>1, Sending DEF TabInv
  <2>2. CASE Remember(p, <<a>> \o <<b>>)
    BY <1>1, <2>2, Sending DEF TabInv
  <2> QED
    BY <1>2, <2>1, <2>2
<1> QED
  BY <1>1, <1>3 DEF Received, TabInv, PaneOK

LEMMA PatchReceived ==
  ASSUME TabInv, NEW m \in Elements(down), m.kind = "patch", ReceivePatch(m)
  PROVE  Received(m)
<1>1. page \in Pages /\ Brings(m) /\ m.arg \in Patch
  BY PageTyped DEF TabInv, QueuesOK, Named
<1>2. m.arg.item \in Items
  BY <1>1 DEF Patch
<1>3. CASE m.ok
  <2> DEFINE p == Patched(page, m.arg.item, m.body)
             i == IF m.arg.opens THEN m.arg.item ELSE None
  <2>1. /\ p \in Pages /\ p.opening = page.opening
        /\ p.open = None <=> page.open = None
        /\ page.open # None => p.open.item = page.open.item
        /\ p.feeds = page.feeds /\ p.topic = page.topic /\ p.timer = page.timer
    BY <1>1, <1>2, <1>3, PatchedPage DEF Brings
  <2>2. Remember(p, <<Ask("counts", i)>>) /\ UNCHANGED opened
    BY <1>3 DEF ReceivePatch, Counts
  <2>3. i \in Items \cup {None}
    BY <1>2
  <2>4. Ask("counts", None) \in Request /\ Named(Ask("counts", None))
        /\ Ask("counts", None).kind # "patch"
    BY AskTyped, AskParts
  <2> HIDE DEF p, i
  <2> QED
    BY <2>1, <2>2, <2>3, <2>4, ReceivedAsking
<1>4. CASE ~m.ok
  <2> DEFINE p == IF m.arg.opens THEN Settled(page, m.arg.item) ELSE page
  <2>1. /\ p \in Pages /\ p.open = page.open /\ p.opening \in {None, page.opening}
        /\ p.timer = page.timer /\ p.feeds = page.feeds /\ p.topic = page.topic
    BY <1>1, SettledPage
  <2>2. Remember(p, <<>>) /\ UNCHANGED opened /\ ~Trigger(m)
    BY <1>4 DEF ReceivePatch, Trigger, Events
  <2> HIDE DEF p
  <2> QED
    BY <2>1, <2>2, ReceivedQuietly
<1> QED
  BY <1>3, <1>4

LEMMA MarkReceived ==
  ASSUME TabInv, NEW m \in Elements(down), m.kind = "mark", ReceiveMark(m)
  PROVE  Received(m)
<1>1. page \in Pages /\ page.sel \in Selection
  BY PageTyped, PageParts
<1>2. CASE m.ok
  <2> DEFINE b == Ask("items", page.sel)
  <2>1. b \in Request /\ Named(b) /\ b.kind # "patch"
    BY <1>1, AskTyped, AskParts
  <2>2. Remember(page, <<Ask("counts", None)>> \o <<b>>) /\ UNCHANGED opened
    BY <1>2, ReloadIs DEF ReceiveMark
  <2> HIDE DEF b
  <2> QED
    BY <1>1, <2>1, <2>2, ReceivedAsking
<1>3. CASE ~m.ok
  <2>1. Remember(page, <<>>) /\ UNCHANGED opened /\ ~Trigger(m)
    BY <1>3 DEF ReceiveMark, Trigger, Events
  <2> QED
    BY <1>1, <2>1, ReceivedQuietly
<1> QED
  BY <1>2, <1>3

LEMMA RemoveReceived ==
  ASSUME TabInv, NEW m \in Elements(down), m.kind = "remove", ReceiveRemove(m)
  PROVE  Received(m)
<1> DEFINE sel == [page.sel EXCEPT !.feed = None]
           p   == IF page.sel.feed = m.arg THEN [page EXCEPT !.sel.feed = None] ELSE page
<1>1. page \in Pages /\ page.sel \in Selection
  BY PageTyped, PageParts
<1>2. /\ p \in Pages /\ p.open = page.open /\ p.opening = page.opening
      /\ p.timer = page.timer /\ p.feeds = page.feeds /\ p.topic = page.topic
  <2>1. sel \in Selection
    BY <1>1 DEF Selection
  <2>2. [page EXCEPT !.sel.feed = None] = [page EXCEPT !.sel = sel]
    OBVIOUS
  <2> HIDE DEF sel
  <2> QED
    BY <1>1, <2>1, <2>2, PageSel
<1>3. p.sel \in Selection
  BY <1>2, PageParts
<1>4. CASE m.ok
  <2> DEFINE b == Ask("items", p.sel)
  <2>1. b \in Request /\ Named(b) /\ b.kind # "patch"
    BY <1>3, AskTyped, AskParts
  <2>2. Remember(p, <<Ask("counts", None)>> \o <<b>>) /\ UNCHANGED opened
    BY <1>4, ReloadIs DEF ReceiveRemove
  <2> HIDE DEF b, p
  <2> QED
    BY <1>2, <2>1, <2>2, ReceivedAsking
<1>5. CASE ~m.ok
  <2>1. Remember(page, <<>>) /\ UNCHANGED opened /\ ~Trigger(m)
    BY <1>5 DEF ReceiveRemove, Trigger, Events
  <2> QED
    BY <1>1, <2>1, ReceivedQuietly
<1> QED
  BY <1>4, <1>5

LEMMA EventReceived ==
  ASSUME TabInv, NEW m \in Elements(down), m.kind \in Events, ReceiveEvent(m)
  PROVE  Received(m)
<1>1. page \in Pages /\ Brings(m) /\ page.sel \in Selection /\ m.kind # "counts"
  BY PageTyped, PageParts DEF TabInv, QueuesOK, Events
<1>2. CASE m.kind = "item-enriched"
  <2> DEFINE q == Enriched(page, m.arg, m.body)
             p == CountsSoon(q)
  <2>1. /\ q \in Pages /\ q.opening = page.opening
        /\ q.open = None <=> page.open = None
        /\ page.open # None => q.open.item = page.open.item
        /\ q.feeds = page.feeds /\ q.topic = page.topic
    BY <1>1, <1>2, EnrichedPage DEF Brings
  <2>2. Remember(p, <<>>) /\ UNCHANGED opened
    BY <1>2 DEF ReceiveEvent
  <2>3. p = [q EXCEPT !.timer = TRUE]
    BY DEF CountsSoon
  <2> HIDE DEF p, q
  <2>4. /\ p \in Pages /\ p.open = q.open /\ p.opening = q.opening
        /\ p.feeds = q.feeds /\ p.topic = q.topic /\ p.timer = TRUE
    BY <2>1, <2>3, PageTimer
  <2> QED
    BY <1>1, <2>1, <2>2, <2>4, ReceivedQuietly
<1>3. CASE m.kind # "item-enriched"
  <2> DEFINE p == CountsSoon(page)
             a == Ask("items", page.sel)
  <2>1. /\ p \in Pages /\ p.open = page.open /\ p.opening = page.opening
        /\ p.feeds = page.feeds /\ p.topic = page.topic /\ p.timer = TRUE
        /\ p.sel = page.sel
    BY <1>1, PageTimer DEF CountsSoon
  <2>2. Remember(p, <<>>) \/ Remember(p, <<a>>)
    BY <1>3, <2>1 DEF ReceiveEvent, Load
  <2>3. UNCHANGED opened
    BY DEF ReceiveEvent
  <2>4. a \in Request /\ Named(a) /\ a.kind = "items"
    BY <1>1, AskTyped, AskParts
  <2> HIDE DEF p, a
  <2>5. CASE Remember(p, <<>>)
    BY <1>1, <2>1, <2>3, <2>5, ReceivedQuietly
  <2>6. CASE Remember(p, <<a>>)
    <3>1. /\ page' = p /\ up' \in Seq(Request)
          /\ \A r \in Elements(up') : Named(r)
          /\ Elements(up) \subseteq Elements(up')
          /\ Elements(up') \subseteq Elements(up) \cup {a}
      BY <2>4, <2>6, Sending DEF TabInv
    <3> QED
      BY <1>1, <2>1, <2>3, <2>4, <3>1 DEF Received, TabInv, PaneOK
  <2> QED
    BY <2>2, <2>5, <2>6
<1> QED
  BY <1>2, <1>3
-----------------------------------------------------------------------------
(* The invariant of the tab. *)

LEMMA OvertakingParts == \A queue, k : Overtaking(queue, k) \subseteq Parts
BY DEF Overtaking

LEMMA TabInit == Init => TabInv
<1> SUFFICES ASSUME Init PROVE TabInv
  OBVIOUS
<1> DEFINE sel == [view |-> "unread", feed |-> None, tag |-> FALSE, q |-> "none"]
<1>1. db \in Database
  BY DEF Init, Database
<1>2. [i \in Listed(db, sel) |-> RowOf(db, i)] \in Lists
  <2>1. Listed(db, sel) \in SUBSET Items
    BY <1>1, TablesParts DEF Listed
  <2> HIDE DEF sel
  <2> QED
    BY <2>1, ListTyped
<1>3. FeedCounts(db) \in Sidebar /\ TopicCount(db) \in 0..Cardinality(Items)
  BY <1>1, NumbersTyped DEF NumbersOf, Numbers
<1>4. sel \in Selection
  BY DEF Selection, Views, Searches
<1>5. page = [sel |-> sel, list |-> [i \in Listed(db, sel) |-> RowOf(db, i)],
              open |-> None, opening |-> None, feeds |-> FeedCounts(db),
              topic |-> TopicCount(db), timer |-> FALSE, atTop |-> TRUE]
  BY DEF Init
<1> HIDE DEF sel
<1>6. page \in Pages /\ page.open = None /\ page.opening = None
  BY <1>2, <1>3, <1>4, <1>5 DEF Pages
<1>7. ReaderTypeOK
  BY <1>1, <1>6 DEF Init, ReaderTypeOK
<1>8. QueuesOK
  BY DEF Init, QueuesOK, Elements
<1>9. PaneOK
  BY <1>6 DEF Init, PaneOK, Elements
<1> QED
  BY <1>7, <1>8, <1>9 DEF TabInv

\* The server takes a request, or the network does, and an answer is sent.
LEMMA TabAnswered ==
  ASSUME TabInv, NEW k \in 1..Len(up), NEW m \in Message, Named(m), Brings(m),
         up' = RemoveAt(up, k), down' = Append(down, m),
         UNCHANGED <<page, wanted, opened>>, db' \in Database, upset' \subseteq Parts
  PROVE  TabInv'
<1>1. /\ up' \in Seq(Request) /\ Elements(up') \subseteq Elements(up)
      /\ down' \in Seq(Message) /\ Elements(down') = Elements(down) \cup {m}
  BY Removed, Appended DEF TabInv, QueuesOK
<1>2. QueuesOK'
  BY <1>1 DEF TabInv, QueuesOK
<1>3. PaneOK'
  BY <1>1 DEF TabInv, PaneOK
<1>4. ReaderTypeOK'
  BY DEF TabInv, ReaderTypeOK
<1> QED
  BY <1>2, <1>3, <1>4 DEF TabInv

\* A worker changes the tables, and says so or not.
LEMMA TabTold ==
  ASSUME TabInv, NEW m \in Message, Named(m), Brings(m),
         down' \in {down, Append(down, m)},
         UNCHANGED <<page, up, wanted, opened>>, db' \in Database, upset' \subseteq Parts
  PROVE  TabInv'
<1>1. down' \in Seq(Message) /\ Elements(down') \subseteq Elements(down) \cup {m}
  <2>1. CASE down' = down
    BY <2>1 DEF TabInv, QueuesOK
  <2>2. CASE down' = Append(down, m)
    BY <2>2, Appended DEF TabInv, QueuesOK
  <2> QED
    BY <2>1, <2>2
<1>2. QueuesOK'
  BY <1>1 DEF TabInv, QueuesOK
<1>3. PaneOK' /\ ReaderTypeOK'
  BY DEF TabInv, PaneOK, ReaderTypeOK
<1> QED
  BY <1>2, <1>3 DEF TabInv

LEMMA RequestAt ==
  ASSUME TabInv, NEW k \in 1..Len(up)
  PROVE  up[k] \in Request /\ up[k] \in Elements(up) /\ Named(up[k])
<1>1. up[k] \in Elements(up)
  BY DEF Elements
<1>2. up[k] \in Request
  BY ElementOfSeq DEF TabInv, QueuesOK
<1> QED
  BY <1>1, <1>2 DEF TabInv, QueuesOK

LEMMA MessageAt ==
  ASSUME TabInv, NEW k \in 1..Len(down)
  PROVE  down[k] \in Message /\ down[k] \in Elements(down)
<1>1. down[k] \in Elements(down)
  BY DEF Elements
<1> QED
  BY <1>1, ElementOfSeq DEF TabInv, QueuesOK

\* What a handled request leaves behind.
LEMMA HandleDoes ==
  ASSUME TabInv, NEW k \in 1..Len(up), Handle(k)
  PROVE  \E m \in Message :
           /\ Named(m) /\ Brings(m)
           /\ m.kind = up[k].kind /\ m.arg = up[k].arg /\ m.ok = Possible(up[k])
           /\ m.ok => m.body \in BodiesOf(up[k], db')
           /\ up' = RemoveAt(up, k) /\ down' = Append(down, m)
           /\ db' \in Database
           /\ m.ok => db' = Effect(up[k])
           /\ db' = db \/ (m.ok /\ m.kind \in Writes)
           /\ m.kind = "counts" => m.ok /\ m.body = NumbersOf(db')
<1> DEFINE r     == up[k]
           ok    == Possible(r)
           after == IF ok THEN Effect(r) ELSE db
<1>1. r \in Request /\ Named(r) /\ db \in Database
  BY RequestAt, PageTyped
<1>2. ok \in BOOLEAN /\ (r.kind = "counts" => ok)
  BY DEF Possible
<1>3. PICK body \in (IF ok THEN BodiesOf(r, after) ELSE {None}) :
        /\ db' = after /\ up' = RemoveAt(up, k)
        /\ down' = Append(down, Answer(r, ok, body))
  BY DEF Handle
<1>5. /\ after \in Database /\ (after = db \/ (ok /\ r.kind \in Writes))
      /\ ok => after = Effect(r)
  BY <1>1, EffectTyped
<1>6. body \in (IF ok THEN BodiesOf(r, after) ELSE {None})
  BY <1>3
<1> DEFINE m == Answer(r, ok, body)
<1>4. down' = Append(down, m) /\ m.arg = r.arg
  BY <1>3 DEF Answer
<1>8. m.ok = Possible(up[k])
  BY DEF Answer
<1> HIDE DEF r, ok, after
<1>7. /\ m \in Message /\ Named(m) /\ Brings(m)
      /\ m.kind = r.kind /\ m.ok = ok /\ m.body = body
      /\ ok /\ r.kind = "counts" => body = NumbersOf(after)
  BY <1>1, <1>2, <1>5, <1>6, AnswerTyped
<1> HIDE DEF m
<1> QED
  BY <1>2, <1>3, <1>4, <1>5, <1>6, <1>7, <1>8 DEF r

LEMMA HandleTab == ASSUME TabInv, NEW k \in 1..Len(up), Handle(k) PROVE TabInv'
<1>1. PICK m \in Message :
        /\ Named(m) /\ Brings(m)
        /\ up' = RemoveAt(up, k) /\ down' = Append(down, m)
        /\ db' \in Database
  BY HandleDoes
<1>2. UNCHANGED <<page, wanted, opened>> /\ upset' \subseteq Parts
  BY OvertakingParts DEF Handle, TabInv, ReaderTypeOK
<1> QED
  BY <1>1, <1>2, TabAnswered

LEMMA FailDoes ==
  ASSUME TabInv, NEW k \in 1..Len(up), Fail(k)
  PROVE  \E m \in Message :
           /\ Named(m) /\ Brings(m) /\ m.kind = up[k].kind
           /\ up' = RemoveAt(up, k) /\ down' = Append(down, m)
           /\ db' \in Database
           /\ db' = db \/ (up[k].kind \in Writes /\ db' = Effect(up[k]))
           /\ upset' = upset \cup (IF up[k].kind \in Writes THEN Parts ELSE PartOf(up[k].kind))
<1>1. up[k] \in Request /\ Named(up[k]) /\ db \in Database
  BY RequestAt, PageTyped
<1>2. db' \in {db, Effect(up[k])}
  BY DEF Fail
<1>3. db' \in Database /\ (db' = db \/ (up[k].kind \in Writes /\ db' = Effect(up[k])))
  BY <1>1, <1>2, EffectTyped
<1>4. /\ up' = RemoveAt(up, k) /\ down' = Append(down, Answer(up[k], FALSE, None))
      /\ upset' = upset \cup (IF up[k].kind \in Writes THEN Parts ELSE PartOf(up[k].kind))
  BY DEF Fail, Writes
<1>5. /\ Answer(up[k], FALSE, None) \in Message
      /\ Named(Answer(up[k], FALSE, None)) /\ Brings(Answer(up[k], FALSE, None))
      /\ Answer(up[k], FALSE, None).kind = up[k].kind
  BY <1>1, AnswerTyped
<1> QED
  BY <1>3, <1>4, <1>5

LEMMA FailTab == ASSUME TabInv, NEW k \in 1..Len(up), Fail(k) PROVE TabInv'
<1>1. PICK m \in Message :
        /\ Named(m) /\ Brings(m)
        /\ up' = RemoveAt(up, k) /\ down' = Append(down, m)
        /\ db' \in Database
        /\ upset' = upset \cup (IF up[k].kind \in Writes THEN Parts ELSE PartOf(up[k].kind))
  BY FailDoes
<1>2. upset' \subseteq Parts
  BY <1>1 DEF PartOf, Parts, TabInv, ReaderTypeOK
<1> QED
  BY <1>1, <1>2, TabAnswered DEF Fail

LEMMA EventTyped ==
  /\ \A kind \in {"items-new", "feed-updated"} :
       LET m == Event(kind, None, None)
       IN  m \in Message /\ Named(m) /\ Brings(m) /\ m.kind = kind
  /\ \A i \in Items :
       LET m == Event("item-enriched", i, TRUE)
       IN  m \in Message /\ Named(m) /\ Brings(m) /\ m.kind = "item-enriched"
BY DEF Event, Events, Message, Args, Bodies, Named, Brings

LEMMA ArriveTyped == ASSUME TabInv, NEW i \in Items, Arrive(i) PROVE db' \in Database
BY PageTyped DEF Arrive, Database

LEMMA EnrichTyped == ASSUME TabInv, NEW i \in Items, Enrich(i) PROVE db' \in Database
BY PageTyped DEF Enrich, Database

LEMMA RetentionTyped == ASSUME TabInv, NEW i \in Items, Retention(i) PROVE db' \in Database
BY PageTyped DEF Retention, Database

LEMMA CollapseTyped ==
  ASSUME TabInv, NEW i \in Items, NEW h \in Items, Collapse(i, h) PROVE db' \in Database
BY PageTyped DEF Collapse, Database

LEMMA WorkersTab ==
  ASSUME TabInv, NEW i \in Items, NEW h \in Items,
         Arrive(i) \/ Enrich(i) \/ Retention(i) \/ Collapse(i, h)
  PROVE  TabInv'
<1>1. upset \subseteq Parts /\ db \in Database
  BY DEF TabInv, ReaderTypeOK
<1>2. CASE Arrive(i)
  <2> DEFINE m == Event("items-new", None, None)
  <2>1. m \in Message /\ Named(m) /\ Brings(m)
    BY EventTyped
  <2>2. down' = Append(down, m) /\ UNCHANGED <<page, up, wanted, opened, upset>>
    BY <1>2 DEF Arrive
  <2> HIDE DEF m
  <2> QED
    BY <1>1, <1>2, <2>1, <2>2, ArriveTyped, TabTold
<1>3. CASE Enrich(i)
  <2> DEFINE m == Event("item-enriched", i, TRUE)
  <2>2. m \in Message /\ Named(m) /\ Brings(m)
    BY EventTyped
  <2>3. down' = Append(down, m) /\ UNCHANGED <<page, up, wanted, opened, upset>>
    BY <1>3 DEF Enrich
  <2> HIDE DEF m
  <2> QED
    BY <1>1, <1>3, <2>2, <2>3, EnrichTyped, TabTold
<1>4. CASE Collapse(i, h)
  <2> DEFINE m == Event("items-new", None, None)
  <2>1. m \in Message /\ Named(m) /\ Brings(m)
    BY EventTyped
  <2>2. down' = down /\ UNCHANGED <<page, up, wanted, opened>> /\ upset' \subseteq Parts
    BY <1>1, <1>4 DEF Collapse, Parts
  <2> HIDE DEF m
  <2> QED
    BY <1>4, <2>1, <2>2, CollapseTyped, TabTold
<1>5. CASE Retention(i)
  <2> DEFINE m == Event("items-new", None, None)
  <2>1. m \in Message /\ Named(m) /\ Brings(m)
    BY EventTyped
  <2>2. down' = down /\ UNCHANGED <<page, up, wanted, opened, upset>>
    BY <1>5 DEF Retention
  <2> HIDE DEF m
  <2> QED
    BY <1>1, <1>5, <2>1, <2>2, RetentionTyped, TabTold
<1> QED
  BY <1>2, <1>3, <1>4, <1>5

LEMMA ReceiveDoes ==
  ASSUME TabInv, NEW k \in 1..Len(down), Receive(k)
  PROVE  /\ Received(down[k])
         /\ down' = RemoveAt(down, k)
         /\ upset' = upset \cup Overtaking(down, k)
         /\ UNCHANGED <<db, acts, wanted>>
<1> DEFINE m == down[k]
<1>1. m \in Elements(down)
  BY MessageAt
<1>2. \/ m.kind = "items" /\ ReceiveItems(m)
      \/ m.kind = "counts" /\ ReceiveCounts(m)
      \/ m.kind = "detail" /\ ReceiveDetail(m)
      \/ m.kind = "patch" /\ ReceivePatch(m)
      \/ m.kind = "mark" /\ ReceiveMark(m)
      \/ m.kind = "remove" /\ ReceiveRemove(m)
      \/ m.kind \in Events /\ ReceiveEvent(m)
  BY DEF Receive
<1>3. /\ down' = RemoveAt(down, k)
      /\ upset' = upset \cup Overtaking(down, k)
      /\ UNCHANGED <<db, acts, wanted>>
  BY DEF Receive
<1> HIDE DEF m
<1>4. Received(m)
  BY <1>1, <1>2, ItemsReceived, CountsReceived, DetailReceived, PatchReceived,
     MarkReceived, RemoveReceived, EventReceived
<1> QED
  BY <1>3, <1>4 DEF m

LEMMA ReceiveTab == ASSUME TabInv, NEW k \in 1..Len(down), Receive(k) PROVE TabInv'
<1>1. /\ Received(down[k])
      /\ down' = RemoveAt(down, k)
      /\ upset' = upset \cup Overtaking(down, k)
      /\ UNCHANGED <<db, wanted>>
  BY ReceiveDoes
<1>2. down' \in Seq(Message) /\ Elements(down') \subseteq Elements(down)
  BY <1>1, Removed DEF TabInv, QueuesOK
<1>3. QueuesOK'
  BY <1>1, <1>2 DEF TabInv, QueuesOK, Received
<1>4. PaneOK'
  BY <1>1 DEF TabInv, PaneOK, Received
<1>5. ReaderTypeOK'
  BY <1>1, OvertakingParts DEF TabInv, ReaderTypeOK, Received
<1> QED
  BY <1>3, <1>4, <1>5 DEF TabInv

LEMMA LoseTab == ASSUME TabInv, NEW k \in 1..Len(down), Lose(k) PROVE TabInv'
<1>1. down' \in Seq(Message) /\ Elements(down') \subseteq Elements(down)
  BY Removed DEF Lose, TabInv, QueuesOK
<1> QED
  BY <1>1 DEF Lose, TabInv, QueuesOK, PaneOK, ReaderTypeOK
-----------------------------------------------------------------------------
\* What a click does, and the timer: something is asked, what is shown changes,
\* nothing is opened.
Clicked ==
  /\ page' \in Pages
  /\ up' \in Seq(Request)
  /\ \A r \in Elements(up') : Named(r)
  /\ Elements(up) \subseteq Elements(up')
  /\ \A r \in Elements(up') : r.kind = "patch" /\ r.arg.read => r.arg.item \in opened
  /\ page'.opening \in {None, wanted'}
  /\ page'.open \in {None, page.open}
  /\ page'.feeds = page.feeds /\ page'.topic = page.topic
  /\ page.timer => page'.timer \/ \E r \in Elements(up') : r.kind = "counts"
  /\ wanted' \in Items \cup {None}
  /\ UNCHANGED <<db, down, opened, upset>>

LEMMA ClickedBy ==
  ASSUME TabInv, NEW p \in Pages, NEW a \in Request, Named(a),
         Remember(p, <<>>) \/ Remember(p, <<a>>),
         a.kind = "patch" /\ a.arg.read => a.arg.item \in opened,
         p.opening \in {None, wanted'}, p.open \in {None, page.open},
         p.feeds = page.feeds, p.topic = page.topic,
         p.timer = page.timer \/ (Remember(p, <<a>>) /\ a.kind = "counts"),
         wanted' \in Items \cup {None}, UNCHANGED <<db, down, opened, upset>>
  PROVE  Clicked
<1>1. /\ page' = p /\ up' \in Seq(Request)
      /\ \A r \in Elements(up') : Named(r)
      /\ Elements(up) \subseteq Elements(up')
      /\ Elements(up') \subseteq Elements(up) \cup {a}
      /\ Remember(p, <<a>>) => a \in Elements(up')
  <2>1. CASE Remember(p, <<>>) /\ ~Remember(p, <<a>>)
    BY <2>1, Sending DEF TabInv
  <2>2. CASE Remember(p, <<a>>)
    BY <2>2, Sending DEF TabInv
  <2> QED
    BY <2>1, <2>2
<1> QED
  BY <1>1 DEF Clicked, TabInv, PaneOK

LEMMA ClickedTab == ASSUME TabInv, Clicked PROVE TabInv'
BY DEF Clicked, TabInv, QueuesOK, PaneOK, ReaderTypeOK

LEMMA SelectClicked ==
  ASSUME TabInv, NEW sel \in Selection, Select(sel) PROVE Clicked
<1> DEFINE q == [page EXCEPT !.sel = sel]
           p == [q EXCEPT !.open = None]
           a == Ask("items", sel)
<1>1. page \in Pages
  BY PageTyped
<1>2. q \in Pages /\ q.opening = page.opening
      /\ q.feeds = page.feeds /\ q.topic = page.topic /\ q.timer = page.timer
  BY <1>1, PageSel
<1>3. p = [page EXCEPT !.sel = sel, !.open = None]
  OBVIOUS
<1> HIDE DEF q
<1>4. p \in Pages /\ p.opening = page.opening /\ p.open = None
      /\ p.feeds = page.feeds /\ p.topic = page.topic /\ p.timer = page.timer
  BY <1>2, PageOpen
<1>5. a \in Request /\ Named(a) /\ a.kind = "items"
  BY AskTyped, AskParts
<1>6. Remember(p, <<a>>) /\ wanted' = wanted /\ UNCHANGED <<db, down, opened, upset>>
  BY <1>3 DEF Select, Click, Load
<1>7. page.opening \in {None, wanted} /\ wanted \in Items \cup {None}
  BY DEF TabInv, PaneOK, ReaderTypeOK
<1> HIDE DEF p, a
<1> QED
  BY <1>4, <1>5, <1>6, <1>7, ClickedBy

LEMMA SelectionsClicked ==
  ASSUME TabInv,
         \/ \E view \in Views : SelectView(view)
         \/ \E f \in Feeds : SelectFeed(f)
         \/ SelectTopic
         \/ \E q \in Searches : Search(q)
  PROVE  Clicked
<1>1. page \in Pages /\ page.sel \in Selection
  BY PageTyped, PageParts
<1>2. CASE \E view \in Views : SelectView(view)
  BY <1>2, SelectClicked DEF SelectView, Selection, Searches
<1>3. CASE \E f \in Feeds : SelectFeed(f)
  <2>1. \A f \in Feeds : [page.sel EXCEPT !.feed = f, !.tag = FALSE] \in Selection
    BY <1>1 DEF Selection
  <2> QED
    BY <1>3, <2>1, SelectClicked DEF SelectFeed
<1>4. CASE SelectTopic
  <2>1. /\ [page.sel EXCEPT !.tag = FALSE] \in Selection
        /\ [page.sel EXCEPT !.tag = TRUE, !.feed = None] \in Selection
    BY <1>1 DEF Selection
  <2> QED
    BY <1>4, <2>1, SelectClicked DEF SelectTopic
<1>5. CASE \E q \in Searches : Search(q)
  <2>1. \A q \in Searches : [page.sel EXCEPT !.q = q] \in Selection
    BY <1>1 DEF Selection
  <2> QED
    BY <1>5, <2>1, SelectClicked DEF Search
<1> QED
  BY <1>2, <1>3, <1>4, <1>5

LEMMA OthersClicked ==
  ASSUME TabInv,
         \/ \E i \in Items : OpenItem(i)
         \/ \E f \in Feeds : RemoveFeed(f)
         \/ Close \/ ToggleRead \/ MarkAllRead \/ Scroll \/ TimerFires
  PROVE  Clicked
<1>1. /\ page \in Pages /\ page.sel \in Selection
      /\ page.open \in Opened \cup {None} /\ page.opening \in Items \cup {None}
  BY PageTyped, PageParts
<1>2. page.opening \in {None, wanted} /\ wanted \in Items \cup {None}
  BY DEF TabInv, PaneOK, ReaderTypeOK
<1> DEFINE any == Ask("counts", None)
<1>3. any \in Request /\ Named(any) /\ any.kind = "counts"
  BY AskTyped, AskParts
<1>4. ASSUME NEW i \in Items, OpenItem(i) PROVE Clicked
  <2> DEFINE p == [page EXCEPT !.opening = i]
             a == Ask("detail", i)
  <2>1. p \in Pages /\ p.opening = i /\ p.open = page.open
        /\ p.feeds = page.feeds /\ p.topic = page.topic /\ p.timer = page.timer
    BY <1>1, PageOpening
  <2>2. a \in Request /\ Named(a) /\ a.kind = "detail"
    BY AskTyped, AskParts
  <2>3. Remember(p, <<a>>) /\ wanted' = i /\ UNCHANGED <<db, down, opened, upset>>
    BY <1>4 DEF OpenItem, Click
  <2> HIDE DEF p, a
  <2> QED
    BY <2>1, <2>2, <2>3, ClickedBy
<1>5. ASSUME NEW f \in Feeds, RemoveFeed(f) PROVE Clicked
  <2> DEFINE a == Ask("remove", f)
  <2>1. a \in Request /\ Named(a) /\ a.kind = "remove"
    BY AskTyped, AskParts
  <2>2. Remember(page, <<a>>) /\ wanted' = wanted /\ UNCHANGED <<db, down, opened, upset>>
    BY <1>5 DEF RemoveFeed, Click
  <2> HIDE DEF a
  <2> QED
    BY <1>1, <1>2, <2>1, <2>2, ClickedBy
<1>6. CASE Close
  <2> DEFINE q == [page EXCEPT !.open = None]
             p == [q EXCEPT !.opening = None]
  <2>1. q \in Pages /\ q.open = None
        /\ q.feeds = page.feeds /\ q.topic = page.topic /\ q.timer = page.timer
    BY <1>1, PageOpen
  <2>2. p = [page EXCEPT !.open = None, !.opening = None]
    OBVIOUS
  <2> HIDE DEF q
  <2>3. p \in Pages /\ p.opening = None /\ p.open = None
        /\ p.feeds = page.feeds /\ p.topic = page.topic /\ p.timer = page.timer
    BY <2>1, PageOpening
  <2>4. Remember(p, <<>>) /\ wanted' = None /\ UNCHANGED <<db, down, opened, upset>>
    BY <1>6, <2>2 DEF Close, Click
  <2> HIDE DEF p, any
  <2> QED
    BY <1>3, <2>3, <2>4, ClickedBy
<1>7. CASE ToggleRead
  <2> DEFINE arg == [item |-> page.open.item, read |-> ~page.open.row.read, opens |-> FALSE]
             a   == Ask("patch", arg)
  <2>1. page.open \in Opened /\ page.open.item \in opened
    BY <1>1, <1>7 DEF ToggleRead, TabInv, PaneOK
  <2>2. arg \in Patch /\ arg.item = page.open.item
    BY <2>1 DEF Opened, Patch
  <2>3. Remember(page, <<a>>) /\ wanted' = wanted /\ UNCHANGED <<db, down, opened, upset>>
    BY <1>7 DEF ToggleRead, Click
  <2> HIDE DEF arg
  <2>4. a \in Request /\ Named(a) /\ a.arg = arg
    BY <2>2, AskTyped, AskParts
  <2> HIDE DEF a
  <2> QED
    BY <1>1, <1>2, <2>1, <2>2, <2>3, <2>4, ClickedBy
<1>8. CASE MarkAllRead
  <2> DEFINE a == Ask("mark", page.sel)
  <2>1. a \in Request /\ Named(a) /\ a.kind = "mark"
    BY <1>1, AskTyped, AskParts
  <2>2. Remember(page, <<a>>) /\ wanted' = wanted /\ UNCHANGED <<db, down, opened, upset>>
    BY <1>8 DEF MarkAllRead, Click
  <2> HIDE DEF a
  <2> QED
    BY <1>1, <1>2, <2>1, <2>2, ClickedBy
<1>9. CASE Scroll
  <2> DEFINE p == [page EXCEPT !.atTop = ~@]
  <2>1. p \in Pages /\ p.opening = page.opening /\ p.open = page.open
        /\ p.feeds = page.feeds /\ p.topic = page.topic /\ p.timer = page.timer
    BY <1>1 DEF Pages
  <2>2. Remember(p, <<>>) /\ wanted' = wanted /\ UNCHANGED <<db, down, opened, upset>>
    BY <1>9 DEF Scroll, Click
  <2> HIDE DEF p, any
  <2> QED
    BY <1>2, <1>3, <2>1, <2>2, ClickedBy
<1>10. CASE TimerFires
  <2> DEFINE p == [page EXCEPT !.timer = FALSE]
  <2>1. p \in Pages /\ p.opening = page.opening /\ p.open = page.open
        /\ p.feeds = page.feeds /\ p.topic = page.topic
    BY <1>1, PageTimer
  <2>2. Remember(p, <<any>>) /\ wanted' = wanted /\ UNCHANGED <<db, down, opened, upset>>
    BY <1>10 DEF TimerFires, Counts
  <2> HIDE DEF p, any
  <2> QED
    BY <1>2, <1>3, <2>1, <2>2, ClickedBy
<1> QED
  BY <1>4, <1>5, <1>6, <1>7, <1>8, <1>9, <1>10

\* Every step is one of these.
LEMMA Steps ==
  ASSUME TabInv, Next
  PROVE  \/ \E k \in 1..Len(up) : Handle(k) \/ Fail(k)
         \/ \E k \in 1..Len(down) : Receive(k) \/ Lose(k)
         \/ \E i, h \in Items : Arrive(i) \/ Enrich(i) \/ Retention(i) \/ Collapse(i, h)
         \/ PollFails
         \/ Clicked
BY SelectionsClicked, OthersClicked DEF Next

LEMMA PollFailsTab == ASSUME TabInv, PollFails PROVE TabInv'
<1> DEFINE m == Event("feed-updated", None, None)
<1>1. m \in Message /\ Named(m) /\ Brings(m)
  BY EventTyped
<1>2. down' = Append(down, m) /\ UNCHANGED <<db, page, up, wanted, opened, upset>>
  BY DEF PollFails
<1>3. upset \subseteq Parts /\ db \in Database
  BY DEF TabInv, ReaderTypeOK
<1> HIDE DEF m
<1> QED
  BY <1>1, <1>2, <1>3, TabTold

LEMMA TabStep == TabInv /\ [Next]_vars => TabInv'
<1> SUFFICES ASSUME TabInv, [Next]_vars PROVE TabInv'
  OBVIOUS
<1>1. CASE Next
  BY <1>1, Steps, HandleTab, FailTab, ReceiveTab, LoseTab, WorkersTab, PollFailsTab, ClickedTab
<1>2. CASE UNCHANGED vars
  BY <1>2 DEF vars, TabInv, ReaderTypeOK, QueuesOK, PaneOK
<1> QED
  BY <1>1, <1>2

\* Tables, page and messages keep their shape, whatever overtakes what.
THEOREM ReaderTypes == Spec => []ReaderTypeOK
<1>1. TabInv => ReaderTypeOK
  BY DEF TabInv
<1> QED
  BY TabInit, TabStep, <1>1, PTL DEF Spec

\* However many clicks and answers are under way, what appears in the pane was
\* clicked last and not closed since.
THEOREM LastClickIsShown == Spec => LastClickShown
<1> DEFINE Shows == page'.open # None /\ (page.open = None \/ page'.open.item # page.open.item)
                      => page'.open.item = wanted
<1>1. ASSUME TabInv, Next PROVE Shows
  <2>1. CASE \E k \in 1..Len(down) : Receive(k)
    <3>1. PICK k \in 1..Len(down) : Received(down[k])
      BY <1>1, <2>1, ReceiveDoes
    <3> QED
      BY <1>1, <3>1 DEF Received, TabInv, PaneOK
  <2>2. CASE Clicked
    BY <2>2 DEF Clicked
  <2>3. CASE UNCHANGED page
    BY <2>3
  <2>4. \/ \E k \in 1..Len(down) : Receive(k)
        \/ Clicked \/ UNCHANGED page
    BY <1>1, Steps DEF Handle, Fail, Lose, Arrive, Enrich, Retention, Collapse, PollFails
  <2> QED
    BY <2>1, <2>2, <2>3, <2>4
<1>2. ASSUME UNCHANGED vars PROVE Shows
  BY <1>2 DEF vars
<1>3. TabInv /\ [Next]_vars => [Shows]_vars
  BY <1>1, <1>2
<1> QED
  BY TabInit, TabStep, <1>3, PTL DEF Spec, LastClickShown

\* However its requests are handled, and whether they are answered or fail, only
\* what was in the pane, or a narrowing that was marked, becomes read.
THEOREM OnlyOpenedBecomesRead == Spec => ReadOnlyIfOpened
<1> DEFINE Allowed == \A i \in db'.read \ db.read :
                        \/ i \in opened
                        \/ \E k \in 1..Len(up) : up[k].kind = "mark" /\ i \in Marked(db, up[k].arg)
<1>1. ASSUME TabInv, NEW k \in 1..Len(up), db' = db \/ db' = Effect(up[k]) PROVE Allowed
  <2>1. up[k] \in Request /\ up[k] \in Elements(up) /\ Named(up[k]) /\ db \in Database
    BY <1>1, RequestAt, PageTyped
  <2>2. \A i \in Effect(up[k]).read \ db.read :
           \/ up[k].kind = "patch" /\ up[k].arg.read /\ i = up[k].arg.item
           \/ up[k].kind = "mark" /\ i \in Marked(db, up[k].arg)
    BY <2>1, EffectTyped
  <2> QED
    BY <1>1, <2>1, <2>2 DEF TabInv, PaneOK
<1>2. ASSUME TabInv, Next PROVE Allowed
  <2>1. CASE \E k \in 1..Len(up) : Handle(k) \/ Fail(k)
    BY <1>1, <1>2, <2>1 DEF Handle, Fail
  <2>3. CASE \E i \in Items : Arrive(i) \/ Enrich(i) \/ Retention(i)
    BY <1>2, <2>3, PageTyped DEF Arrive, Enrich, Retention, Database
  <2>4. CASE \E i, h \in Items : Collapse(i, h)
    BY <1>2, <2>4, PageTyped DEF Collapse, Database
  <2>5. CASE UNCHANGED db
    BY <2>5
  <2>6. \/ \E k \in 1..Len(up) : Handle(k) \/ Fail(k)
        \/ \E i \in Items : Arrive(i) \/ Enrich(i) \/ Retention(i)
        \/ \E i, h \in Items : Collapse(i, h)
        \/ UNCHANGED db
    BY <1>2, Steps DEF Clicked, Receive, Lose, PollFails
  <2> QED
    BY <2>1, <2>3, <2>4, <2>5, <2>6
<1>3. ASSUME UNCHANGED vars PROVE Allowed
  BY <1>3 DEF vars
<1>4. TabInv /\ [Next]_vars => [Allowed]_vars
  BY <1>2, <1>3
<1> QED
  BY TabInit, TabStep, <1>4, PTL DEF Spec, ReadOnlyIfOpened
-----------------------------------------------------------------------------
(* The numbers of the sidebar.  Unless the network upset them since the     *)
(* server last counted, either a refresh is still to come, or the last      *)
(* counts under way -- and without any, the page -- are what the server has. *)

Pending ==
  \/ page.timer
  \/ \E r \in Elements(up) : r.kind = "counts"
  \/ \E m \in Elements(down) : Trigger(m)

\* The answers with numbers, and those with the numbers n.
Numbered   == {m \in Message : m.kind = "counts"}
Telling(n) == {m \in Message : m.ok /\ m.body = n}

Shows(p, n) == p.feeds = n.feeds /\ p.topic = n.topic

Ends(s, p, n) ==
  /\ EndsIn(s, Numbered, Telling(n))
  /\ Without(s, Numbered) => Shows(p, n)

CountsInv ==
  "counts" \notin upset => Pending \/ Ends(down, page, NumbersOf(db))

LEMMA EndsAppendOther ==
  ASSUME NEW s \in Seq(Message), NEW m \in Message, m.kind # "counts", NEW p, NEW n, Ends(s, p, n)
  PROVE  Ends(Append(s, m), p, n)
<1>1. m \notin Numbered
  BY DEF Numbered
<1> QED
  BY <1>1, LastAppended DEF Ends

LEMMA EndsAppendCounts ==
  ASSUME NEW s \in Seq(Message), NEW m \in Message, m.kind = "counts", m.ok,
         NEW p, NEW n, m.body = n
  PROVE  Ends(Append(s, m), p, n)
<1>1. m \in Numbered /\ m \in Telling(n)
  BY DEF Numbered, Telling
<1> QED
  BY <1>1, LastAppended DEF Ends

LEMMA EndsRemove ==
  ASSUME NEW s \in Seq(Message), NEW k \in 1..Len(s), NEW p, NEW q, NEW n, Ends(s, p, n),
         \/ s[k].kind # "counts" /\ q.feeds = p.feeds /\ q.topic = p.topic
         \/ /\ s[k].kind = "counts"
            /\ \A j \in 1..(k - 1) : s[j].kind # "counts"
            /\ s[k].ok => Shows(q, s[k].body)
  PROVE  Ends(RemoveAt(s, k), q, n)
<1>1. /\ EndsIn(s, Numbered, Telling(n))
      /\ s[k] \in Numbered => \A j \in 1..(k - 1) : s[j] \notin Numbered
  BY DEF Ends, Numbered
<1>2. /\ EndsIn(RemoveAt(s, k), Numbered, Telling(n))
      /\ Without(RemoveAt(s, k), Numbered) =>
           Without(s, Numbered) \/ (s[k] \in Numbered /\ s[k] \in Telling(n))
  BY <1>1, LastRemoved
<1>3. CASE s[k].kind # "counts"
  <2>1. s[k] \notin Numbered
    BY <1>3 DEF Numbered
  <2> QED
    BY <1>2, <1>3, <2>1 DEF Ends, Shows
<1>4. CASE s[k].kind = "counts"
  <2>1. s[k] \in Message
    BY ElementOfSeq
  <2>2. ~Without(s, Numbered)
    BY <1>4, <2>1 DEF Without, Numbered
  <2> QED
    BY <1>2, <1>4, <2>2 DEF Ends, Shows, Telling
<1> QED
  BY <1>3, <1>4

LEMMA CountsInit == Init => CountsInv
<1> SUFFICES ASSUME Init PROVE CountsInv
  OBVIOUS
<1>1. down = <<>> /\ Elements(down) = {} /\ Len(down) = 0
  BY DEF Init, Elements
<1>2. page.feeds = FeedCounts(db) /\ page.topic = TopicCount(db)
  BY DEF Init
<1>3. Ends(down, page, NumbersOf(db))
  BY <1>1, <1>2 DEF Ends, EndsIn, Without, Shows, NumbersOf
<1> QED
  BY <1>1, <1>3 DEF CountsInv

\* While the tables stay as they are, one more message that is not of counts, or
\* that has the numbers they give.
LEMMA CountsTold ==
  ASSUME TabInv, CountsInv, UNCHANGED page,
         NEW m \in Message, down' = Append(down, m),
         "counts" \notin upset' => "counts" \notin upset \/ m.kind = "counts",
         m.kind = "counts" /\ "counts" \notin upset' => m.ok /\ m.body = NumbersOf(db'),
         db' = db \/ Trigger(m),
         \A r \in Elements(up) : r.kind = "counts" => r \in Elements(up') \/ m.kind = "counts"
  PROVE  CountsInv'
<1> SUFFICES ASSUME "counts" \notin upset'
             PROVE  (Pending \/ Ends(down, page, NumbersOf(db)))'
  BY DEF CountsInv
<1>1. /\ down \in Seq(Message)
      /\ Elements(down') = Elements(down) \cup {m}
  BY Appended DEF TabInv, QueuesOK
<1>3. CASE Trigger(m)
  BY <1>1, <1>3 DEF Pending
<1>4. CASE m.kind = "counts"
  <2>1. Ends(down', page, NumbersOf(db'))
    BY <1>1, <1>4, EndsAppendCounts
  <2> QED
    BY <1>1, <2>1
<1>5. CASE ~Trigger(m) /\ m.kind # "counts"
  <2>1. CASE Pending
    BY <1>1, <1>5, <2>1 DEF Pending
  <2>2. CASE Ends(down, page, NumbersOf(db))
    <3>1. Ends(down', page, NumbersOf(db))
      BY <1>1, <1>5, <2>2, EndsAppendOther
    <3> QED
      BY <1>1, <1>5, <3>1
  <2> QED
    BY <1>5, <2>1, <2>2 DEF CountsInv
<1> QED
  BY <1>3, <1>4, <1>5

LEMMA HandleCounts ==
  ASSUME TabInv, CountsInv, NEW k \in 1..Len(up), Handle(k) PROVE CountsInv'
<1>1. PICK m \in Message :
        /\ m.kind = up[k].kind
        /\ up' = RemoveAt(up, k) /\ down' = Append(down, m)
        /\ db' = db \/ (m.ok /\ m.kind \in Writes)
        /\ m.kind = "counts" => m.ok /\ m.body = NumbersOf(db')
  BY HandleDoes
<1>2. UNCHANGED page /\ upset' = (upset \ Healed(k)) \cup Overtaking(up, k)
  BY DEF Handle
<1>3. "counts" \notin upset' => "counts" \notin upset \/ m.kind = "counts"
  BY <1>1, <1>2 DEF Healed
<1>4. Elements(up) \subseteq Elements(up') \cup {up[k]}
  BY <1>1, Stays DEF TabInv, QueuesOK
<1> QED
  BY <1>1, <1>2, <1>3, <1>4, CountsTold DEF Trigger

LEMMA FailCounts ==
  ASSUME TabInv, CountsInv, NEW k \in 1..Len(up), Fail(k) PROVE CountsInv'
<1>1. PICK m \in Message :
        /\ m.kind = up[k].kind
        /\ up' = RemoveAt(up, k) /\ down' = Append(down, m)
        /\ db' = db \/ (up[k].kind \in Writes /\ db' = Effect(up[k]))
        /\ upset' = upset \cup (IF up[k].kind \in Writes THEN Parts ELSE PartOf(up[k].kind))
  BY FailDoes
<1>2. CASE up[k].kind \in Writes \cup {"counts"}
  <2>1. "counts" \in upset'
    BY <1>1, <1>2 DEF Parts, PartOf, Writes
  <2> QED
    BY <2>1 DEF CountsInv
<1>3. CASE up[k].kind \notin Writes \cup {"counts"}
  <2>1. Elements(up) \subseteq Elements(up') \cup {up[k]}
    BY <1>1, Stays DEF TabInv, QueuesOK
  <2>2. UNCHANGED page
    BY DEF Fail
  <2>3. "counts" \notin upset' => "counts" \notin upset
    BY <1>1
  <2> QED
    BY <1>1, <1>3, <2>1, <2>2, <2>3, CountsTold
<1> QED
  BY <1>2, <1>3

LEMMA ReceiveCountsInv ==
  ASSUME TabInv, CountsInv, NEW k \in 1..Len(down), Receive(k) PROVE CountsInv'
<1> SUFFICES ASSUME "counts" \notin upset'
             PROVE  (Pending \/ Ends(down, page, NumbersOf(db)))'
  BY DEF CountsInv
<1> DEFINE m == down[k]
<1>1. /\ Received(m)
      /\ down' = RemoveAt(down, k)
      /\ upset' = upset \cup Overtaking(down, k)
      /\ db' = db
  BY ReceiveDoes
<1>2. /\ down \in Seq(Message)
      /\ Elements(down') \subseteq Elements(down)
      /\ Elements(down) \subseteq Elements(down') \cup {m}
      /\ m \in Elements(down)
  BY <1>1, Removed, Stays, MessageAt DEF TabInv, QueuesOK
<1>3. Pending \/ Ends(down, page, NumbersOf(db))
  BY <1>1 DEF CountsInv
<1>4. m.kind = "counts" => ~Trigger(m)
  BY DEF Trigger, Events, Writes
<1>5. m.kind = "counts" => \A j \in 1..(k - 1) : down[j].kind # "counts"
  BY <1>1 DEF Overtaking, PartOf, Parts
<1> HIDE DEF m
<1>6. CASE Trigger(m)
  BY <1>1, <1>2, <1>6 DEF Received, Pending
<1>7. CASE ~Trigger(m) /\ Pending
  BY <1>1, <1>2, <1>7 DEF Received, Pending
<1>8. CASE Ends(down, page, NumbersOf(db))
  <2>1. \/ m.kind # "counts" /\ page'.feeds = page.feeds /\ page'.topic = page.topic
        \/ m.kind = "counts" /\ (m.ok => Shows(page', m.body))
    BY <1>1 DEF Received, Shows
  <2>2. Ends(down', page', NumbersOf(db))
    BY <1>1, <1>2, <1>5, <1>8, <2>1, EndsRemove DEF m
  <2> QED
    BY <1>1, <2>2
<1> QED
  BY <1>3, <1>6, <1>7, <1>8

LEMMA ClickedCounts == ASSUME CountsInv, Clicked PROVE CountsInv'
<1> SUFFICES ASSUME "counts" \notin upset
             PROVE  Pending' \/ Ends(down, page', NumbersOf(db))
  BY DEF CountsInv, Clicked
<1>1. CASE Pending
  BY <1>1 DEF Clicked, Pending
<1>2. CASE Ends(down, page, NumbersOf(db))
  BY <1>2 DEF Ends, Shows, Clicked
<1> QED
  BY <1>1, <1>2 DEF CountsInv

\* What retention takes was read, and is not counted.
LEMMA RetentionUncounted ==
  ASSUME db \in Database, NEW i \in Items, Retention(i)
  PROVE  NumbersOf(db') = NumbersOf(db)
<1>1. /\ db'.stored = db.stored \ {i} /\ i \in db.read
      /\ db'.read = db.read /\ db'.head = db.head
      /\ db'.feeds = db.feeds /\ db'.tagged = db.tagged
  BY DEF Retention, Database
<1>2. Unread(db') = Unread(db)
  BY <1>1 DEF Unread, Shown
<1> QED
  BY <1>1, <1>2 DEF NumbersOf, FeedCounts, TopicCount

LEMMA WorkersCounts ==
  ASSUME TabInv, CountsInv,
         \/ \E i, h \in Items : Arrive(i) \/ Enrich(i) \/ Retention(i) \/ Collapse(i, h)
         \/ PollFails
  PROVE  CountsInv'
<1>1. ASSUME NEW m \in Message, m.kind \in Events, down' = Append(down, m),
             UNCHANGED <<page, up, upset>>
      PROVE  CountsInv'
  <2>1. Trigger(m) /\ m.kind # "counts"
    BY <1>1 DEF Trigger, Events
  <2> QED
    BY <1>1, <2>1, CountsTold
<1>2. ASSUME NEW i \in Items, Arrive(i) PROVE CountsInv'
  <2> DEFINE m == Event("items-new", None, None)
  <2>1. m \in Message /\ m.kind \in Events
    BY EventTyped DEF Events
  <2>2. down' = Append(down, m) /\ UNCHANGED <<page, up, upset>>
    BY <1>2 DEF Arrive
  <2> HIDE DEF m
  <2> QED
    BY <1>1, <2>1, <2>2
<1>3. ASSUME NEW i \in Items, Enrich(i) PROVE CountsInv'
  <2> DEFINE m == Event("item-enriched", i, TRUE)
  <2>2. m \in Message /\ m.kind \in Events
    BY EventTyped DEF Events
  <2>3. down' = Append(down, m) /\ UNCHANGED <<page, up, upset>>
    BY <1>3 DEF Enrich
  <2> HIDE DEF m
  <2> QED
    BY <1>1, <2>2, <2>3
<1>4. ASSUME NEW i \in Items, NEW h \in Items, Collapse(i, h) PROVE CountsInv'
  <2>1. "counts" \in upset'
    BY <1>4 DEF Collapse
  <2> QED
    BY <2>1 DEF CountsInv
<1>5. CASE PollFails
  <2> DEFINE m == Event("feed-updated", None, None)
  <2>1. m \in Message /\ m.kind \in Events
    BY EventTyped DEF Events
  <2>2. down' = Append(down, m) /\ UNCHANGED <<page, up, upset>>
    BY <1>5 DEF PollFails
  <2> HIDE DEF m
  <2> QED
    BY <1>1, <2>1, <2>2
<1>6. ASSUME NEW i \in Items, Retention(i) PROVE CountsInv'
  <2>1. NumbersOf(db') = NumbersOf(db)
    BY <1>6, RetentionUncounted, PageTyped
  <2>2. UNCHANGED <<page, up, down, upset>>
    BY <1>6 DEF Retention
  <2> QED
    BY <2>1, <2>2 DEF CountsInv, Pending
<1> QED
  BY <1>2, <1>3, <1>4, <1>5, <1>6

LEMMA CountsStep == TabInv /\ CountsInv /\ [Next]_vars => CountsInv'
<1> SUFFICES ASSUME TabInv, CountsInv, [Next]_vars PROVE CountsInv'
  OBVIOUS
<1>1. ASSUME NEW k \in 1..Len(down), Lose(k) PROVE CountsInv'
  BY <1>1 DEF Lose, Parts, CountsInv
<1>2. CASE Next
  BY <1>1, <1>2, Steps, HandleCounts, FailCounts, ReceiveCountsInv, WorkersCounts, ClickedCounts
<1>3. CASE UNCHANGED vars
  <2>1. UNCHANGED <<db, page, up, down, upset>>
    BY <1>3 DEF vars
  <2> QED
    BY <2>1 DEF CountsInv, Pending, Ends, Shows
<1> QED
  BY <1>2, <1>3

\* When nothing is under way any more, the sidebar shows the server's numbers,
\* however many clicks, answers and events there were and whatever their order,
\* unless the network upset them.
THEOREM CountsDoSettle == Spec => []CountsSettle
<1>1. ASSUME CountsInv PROVE CountsSettle
  <2> SUFFICES ASSUME Quiet, "counts" \notin upset
               PROVE  page.feeds = FeedCounts(db) /\ page.topic = TopicCount(db)
    BY DEF CountsSettle
  <2>1. Elements(up) = {} /\ Elements(down) = {} /\ Len(down) = 0 /\ ~page.timer
    BY DEF Quiet, Elements
  <2>2. Ends(down, page, NumbersOf(db))
    BY <1>1, <2>1 DEF CountsInv, Pending
  <2> QED
    BY <2>1, <2>2 DEF Ends, Without, Shows, NumbersOf
<1> QED
  BY TabInit, TabStep, CountsInit, CountsStep, <1>1, PTL DEF Spec
-----------------------------------------------------------------------------
(* The list.  Unless the network upset it since it was loaded, either it is  *)
(* still to be loaded again, or what is under way makes it right: the last   *)
(* load leaves rows that belong there, and the last word on each field of a  *)
(* row is what the server has.                                               *)

\* The fields of a row, and what a row says of one.
Fields == {"read", "tagged"}

Said(row, f) == IF f = "read" THEN row.read ELSE row.tagged

\* What is under way for the list: requests for it, their answers, and all that
\* tells how a field of a row of it looks.
Asking == {r \in Request : r.kind = "items"}
Loads  == {m \in Message : m.kind = "items" /\ m.ok}

About(i, f) ==
  {m \in Message :
     \/ m.kind = "items" /\ m.ok
     \/ m.kind = "patch" /\ m.ok /\ m.arg.item = i
     \/ m.kind = "item-enriched" /\ m.arg = i /\ f = "tagged"}

\* What such a message says of it.
Word(m, i, f) ==
  IF m.kind = "items" THEN Said(m.body[i], f)
  ELSE IF m.kind = "patch" THEN Said(m.body, f) ELSE m.body

\* An item the server has, or had, and that belongs to what is selected; a list
\* of such items.
Fitting(d, sel, i) ==
  /\ i \in d.stored \cup d.read
  /\ InScope(d, sel, i) \/ ByMeaning(sel, i)

Within(list, d, sel) == \A i \in DOMAIN list : Fitting(d, sel, i)

Fits(d, sel) == {m \in Message : Within(m.body, d, sel)}

\* What is told of a row is what the server has.
TellsRight(d, i, f) ==
  {m \in Message : (m.kind = "items" => i \in DOMAIN m.body)
                     => Word(m, i, f) = Said(RowOf(d, i), f)}

Reloads(m) == m.ok /\ m.kind \in {"mark", "remove"}

ListPending ==
  \/ \E r \in Elements(up) : r \in Asking
  \/ \E m \in Elements(down) : Reloads(m)

Agrees(list, s, d, sel) ==
  /\ EndsIn(s, Loads, Fits(d, sel))
  /\ Without(s, Loads) => Within(list, d, sel)
  /\ \A i \in Items, f \in Fields :
       /\ EndsIn(s, About(i, f), TellsRight(d, i, f))
       /\ Without(s, About(i, f)) /\ i \in DOMAIN list =>
            Said(list[i], f) = Said(RowOf(d, i), f)

ListInv ==
  "list" \notin upset =>
    /\ EndsIn(up, Asking, {r \in Request : r.arg = page.sel})
    /\ ListPending \/ Agrees(page.list, down, db, page.sel)

\* Something is told, and the tables say so.
LEMMA AgreesTold ==
  ASSUME NEW s \in Seq(Message), NEW m \in Message, m \notin Loads,
         NEW list, NEW d, NEW e, NEW sel, Agrees(list, s, d, sel),
         \A i : Fitting(d, sel, i) => Fitting(e, sel, i),
         \A i \in Items, f \in Fields :
           \/ m \notin About(i, f) /\ Said(RowOf(e, i), f) = Said(RowOf(d, i), f)
           \/ m \in About(i, f) /\ m \in TellsRight(e, i, f)
  PROVE  Agrees(list, Append(s, m), e, sel)
<1>1. Within(list, d, sel) => Within(list, e, sel)
  BY DEF Within
<1>2. Fits(d, sel) \subseteq Fits(e, sel)
  BY DEF Fits, Within
<1>3. EndsIn(s, Loads, Fits(e, sel))
  BY <1>2 DEF Agrees, EndsIn
<1>4. EndsIn(Append(s, m), Loads, Fits(e, sel))
  BY <1>3, LastAppended
<1>5. Without(Append(s, m), Loads) => Within(list, e, sel)
  BY <1>1, LastAppended DEF Agrees
<1>6. ASSUME NEW i \in Items, NEW f \in Fields
      PROVE  /\ EndsIn(Append(s, m), About(i, f), TellsRight(e, i, f))
             /\ Without(Append(s, m), About(i, f)) /\ i \in DOMAIN list =>
                  Said(list[i], f) = Said(RowOf(e, i), f)
  <2>1. /\ EndsIn(s, About(i, f), TellsRight(d, i, f))
        /\ Without(s, About(i, f)) /\ i \in DOMAIN list =>
             Said(list[i], f) = Said(RowOf(d, i), f)
    BY DEF Agrees
  <2>2. CASE m \in About(i, f) /\ m \in TellsRight(e, i, f)
    BY <2>2, LastAppended
  <2>3. CASE m \notin About(i, f) /\ Said(RowOf(e, i), f) = Said(RowOf(d, i), f)
    <3>1. TellsRight(e, i, f) = TellsRight(d, i, f)
      BY <2>3 DEF TellsRight
    <3> QED
      BY <2>1, <2>3, <3>1, LastAppended
  <2> QED
    BY <2>2, <2>3
<1> QED
  BY <1>4, <1>5, <1>6 DEF Agrees

\* Nothing is told of what the list does not look at.
LEMMA AgreesUntold ==
  ASSUME NEW s, NEW list, NEW d, NEW e, NEW sel, Agrees(list, s, d, sel),
         \A i : Fitting(d, sel, i) => Fitting(e, sel, i),
         \A i \in Items : RowOf(e, i) = RowOf(d, i)
  PROVE  Agrees(list, s, e, sel)
<1>1. Within(list, d, sel) => Within(list, e, sel)
  BY DEF Within
<1>2. Fits(d, sel) \subseteq Fits(e, sel)
  BY DEF Fits, Within
<1>3. \A i \in Items, f \in Fields : TellsRight(e, i, f) = TellsRight(d, i, f)
  BY DEF TellsRight
<1> QED
  BY <1>1, <1>2, <1>3 DEF Agrees, EndsIn

\* An answer with the list as it is.
LEMMA AgreesLoaded ==
  ASSUME NEW s \in Seq(Message), NEW m \in Loads, NEW list, NEW d, NEW sel,
         Within(m.body, d, sel), \A i \in DOMAIN m.body : m.body[i] = RowOf(d, i)
  PROVE  Agrees(list, Append(s, m), d, sel)
<1>1. m \in Message /\ m.kind = "items" /\ m \in Fits(d, sel)
  BY DEF Loads, Fits
<1>2. \A i \in Items, f \in Fields : m \in About(i, f) /\ m \in TellsRight(d, i, f)
  BY <1>1 DEF Loads, About, TellsRight, Word
<1> QED
  BY <1>1, <1>2, LastAppended DEF Agrees

\* What receiving a message makes of the list.
Applied(m, list, now) ==
  /\ m \in Loads => now = m.body
  /\ m \notin Loads =>
       /\ DOMAIN now = DOMAIN list
       /\ \A i \in DOMAIN list, f \in Fields :
            Said(now[i], f) = IF m \in About(i, f) THEN Word(m, i, f) ELSE Said(list[i], f)

LEMMA AgreesReceived ==
  ASSUME NEW s \in Seq(Message), NEW k \in 1..Len(s), NEW list, NEW now, NEW d, NEW sel,
         Agrees(list, s, d, sel), Applied(s[k], list, now),
         "list" \in PartOf(s[k].kind) => \A j \in 1..(k - 1) : "list" \notin PartOf(s[j].kind)
  PROVE  Agrees(now, RemoveAt(s, k), d, sel)
<1> DEFINE m == s[k]
           t == RemoveAt(s, k)
<1>1. /\ \A x \in Loads : "list" \in PartOf(x.kind)
      /\ \A i, f : \A x \in About(i, f) : "list" \in PartOf(x.kind)
  BY DEF Loads, About, PartOf
<1>2. m \in Loads => \A j \in 1..(k - 1) : s[j] \notin Loads
  BY <1>1
<1>3. /\ EndsIn(t, Loads, Fits(d, sel))
      /\ Without(t, Loads) => Without(s, Loads) \/ (m \in Loads /\ m \in Fits(d, sel))
  BY <1>2, LastRemoved DEF Agrees
<1>4. ASSUME Without(t, Loads) PROVE Within(now, d, sel)
  <2>1. CASE m \in Loads /\ m \in Fits(d, sel)
    BY <2>1 DEF Applied, Fits
  <2>2. CASE Without(s, Loads)
    <3>1. m \notin Loads /\ Within(list, d, sel)
      BY <2>2 DEF Without, Agrees
    <3> QED
      BY <3>1 DEF Applied, Within
  <2> QED
    BY <1>3, <1>4, <2>1, <2>2
<1>5. ASSUME NEW i \in Items, NEW f \in Fields
      PROVE  /\ EndsIn(t, About(i, f), TellsRight(d, i, f))
             /\ Without(t, About(i, f)) /\ i \in DOMAIN now =>
                  Said(now[i], f) = Said(RowOf(d, i), f)
  <2>1. /\ EndsIn(s, About(i, f), TellsRight(d, i, f))
        /\ Without(s, About(i, f)) /\ i \in DOMAIN list =>
             Said(list[i], f) = Said(RowOf(d, i), f)
    BY DEF Agrees
  <2>2. m \in About(i, f) => \A j \in 1..(k - 1) : s[j] \notin About(i, f)
    BY <1>1
  <2>3. /\ EndsIn(t, About(i, f), TellsRight(d, i, f))
        /\ Without(t, About(i, f)) =>
             Without(s, About(i, f)) \/ (m \in About(i, f) /\ m \in TellsRight(d, i, f))
    BY <2>1, <2>2, LastRemoved
  <2>4. ASSUME Without(t, About(i, f)), i \in DOMAIN now
        PROVE  Said(now[i], f) = Said(RowOf(d, i), f)
    <3>1. CASE m \in Loads
      <4>1. m \in About(i, f) /\ m.kind = "items"
        BY <3>1 DEF Loads, About
      <4>2. m \in TellsRight(d, i, f)
        BY <2>3, <2>4, <4>1 DEF Without
      <4> QED
        BY <2>4, <3>1, <4>1, <4>2 DEF Applied, TellsRight, Word
    <3>2. CASE m \notin Loads /\ m \in About(i, f)
      <4>1. m \in TellsRight(d, i, f)
        BY <2>3, <2>4, <3>2 DEF Without
      <4>2. m.kind # "items"
        BY <3>2 DEF Loads, About
      <4>3. Said(now[i], f) = Word(m, i, f)
        BY <2>4, <3>2 DEF Applied
      <4> QED
        BY <4>1, <4>2, <4>3 DEF TellsRight
    <3>3. CASE m \notin About(i, f)
      <4>1. m \notin Loads
        BY <3>3 DEF Loads, About
      <4>2. i \in DOMAIN list /\ Said(now[i], f) = Said(list[i], f)
        BY <2>4, <3>3, <4>1 DEF Applied
      <4> QED
        BY <2>1, <2>3, <2>4, <3>3, <4>2
    <3> QED
      BY <3>1, <3>2, <3>3
  <2> QED
    BY <2>3, <2>4
<1> QED
  BY <1>3, <1>4, <1>5 DEF Agrees

LEMMA ListInit == Init => ListInv
<1> SUFFICES ASSUME Init PROVE ListInv
  OBVIOUS
<1> DEFINE sel == [view |-> "unread", feed |-> None, tag |-> FALSE, q |-> "none"]
           list == [i \in Listed(db, sel) |-> RowOf(db, i)]
<1>1. up = <<>> /\ Len(up) = 0 /\ down = <<>> /\ Len(down) = 0
  BY DEF Init
<1>2. page.sel = sel /\ page.list = list
  BY DEF Init
<1>3. Within(list, db, sel) /\ \A i \in DOMAIN list : list[i] = RowOf(db, i)
  BY DEF Within, Fitting, Listed
<1>4. EndsIn(up, Asking, {r \in Request : r.arg = page.sel})
  BY <1>1 DEF EndsIn
<1> HIDE DEF sel, list
<1>5. Agrees(list, down, db, sel)
  BY <1>1, <1>3 DEF Agrees, EndsIn
<1> QED
  BY <1>2, <1>4, <1>5 DEF ListInv

\* What the page adds to its requests: nothing, something else than a load, or
\* last of all a load of what is now selected.
Loading(now, sel) == \E t \in Seq(Request) : now = Append(t, Ask("items", sel))

Asked(s, now, was, sel) ==
  \/ Loading(now, sel)
  \/ sel = was /\ (now = s \/ \E a \in Request \ Asking : now = Append(s, a))

Selects(sel) == {r \in Request : r.arg = sel}

LEMMA LoadingKeeps ==
  ASSUME NEW now, NEW sel \in Selection, Loading(now, sel)
  PROVE  /\ EndsIn(now, Asking, Selects(sel))
         /\ \E r \in Elements(now) : r \in Asking
<1> DEFINE a == Ask("items", sel)
<1>1. a \in Request /\ a \in Asking /\ a \in Selects(sel)
  BY AskTyped, AskParts DEF Asking, Selects
<1>2. PICK t \in Seq(Request) : now = Append(t, a)
  BY DEF Loading
<1> HIDE DEF a
<1>3. Elements(now) = Elements(t) \cup {a}
  BY <1>1, <1>2, Appended
<1>4. EndsIn(now, Asking, Selects(sel))
  BY <1>1, <1>2, LastAppended
<1> QED
  BY <1>1, <1>3, <1>4

LEMMA AskedKeeps ==
  ASSUME NEW s \in Seq(Request), NEW now, NEW was, NEW sel \in Selection,
         Asked(s, now, was, sel), EndsIn(s, Asking, Selects(was))
  PROVE  /\ EndsIn(now, Asking, Selects(sel))
         /\ \/ sel = was /\ Elements(s) \subseteq Elements(now)
            \/ \E r \in Elements(now) : r \in Asking
<1>1. CASE Loading(now, sel)
  BY <1>1, LoadingKeeps
<1>2. CASE sel = was /\ now = s
  BY <1>2
<1>3. ASSUME NEW a \in Request \ Asking, now = Append(s, a), sel = was
      PROVE  EndsIn(now, Asking, Selects(sel)) /\ Elements(s) \subseteq Elements(now)
  BY <1>3, LastAppended, Appended
<1> QED
  BY <1>1, <1>2, <1>3 DEF Asked

LEMMA AskedNothing ==
  ASSUME up \in Seq(Request), NEW p, Remember(p, <<>>), p.sel = page.sel
  PROVE  page' = p /\ Asked(up, up', page.sel, p.sel)
<1>1. up' = up
  BY ConcatEmptySeq DEF Remember
<1> QED
  BY <1>1 DEF Remember, Asked

LEMMA AskedElse ==
  ASSUME up \in Seq(Request), NEW p, NEW a \in Request, Remember(p, <<a>>), p.sel = page.sel,
         a.kind # "items"
  PROVE  page' = p /\ Asked(up, up', page.sel, p.sel)
<1>1. up' = Append(up, a)
  BY AppendIsConcat DEF Remember
<1>2. a \in Request \ Asking
  BY DEF Asking
<1> QED
  BY <1>1, <1>2 DEF Remember, Asked

LEMMA AskedLoad ==
  ASSUME up \in Seq(Request), NEW p, p.sel \in Selection, NEW a \in Request, NEW b,
         b = Ask("items", p.sel), Remember(p, <<b>>) \/ Remember(p, <<a>> \o <<b>>)
  PROVE  page' = p /\ Loading(up', p.sel)
<1>1. b \in Request
  BY AskTyped
<1>2. CASE Remember(p, <<b>>)
  <2>1. up' = Append(up, b)
    BY <1>1, <1>2, AppendIsConcat DEF Remember
  <2> QED
    BY <1>2, <2>1 DEF Remember, Loading
<1>3. CASE Remember(p, <<a>> \o <<b>>)
  <2> DEFINE x == <<a>>
             y == <<b>>
  <2>1. x \in Seq(Request) /\ y \in Seq(Request)
    BY <1>1
  <2>2. up' = up \o (x \o y) /\ page' = p
    BY <1>3 DEF Remember
  <2> HIDE DEF x
  <2>3. up' = (up \o x) \o y /\ up \o x \in Seq(Request)
    <3> HIDE DEF y
    <3> QED
      BY <2>1, <2>2, ConcatAssociative, ConcatProperties
  <2>4. up' = Append(up \o x, b)
    BY <1>1, <2>3, AppendIsConcat
  <2> QED
    BY <2>2, <2>3, <2>4 DEF Loading
<1> QED
  BY <1>2, <1>3

LEMMA InQueue == ASSUME TabInv, NEW m \in Elements(down) PROVE m \in Message
BY MessageAt DEF Elements

\* What receiving a message does to the list and to what is asked.
ListReceived(m) ==
  /\ Applied(m, page.list, page'.list)
  /\ Asked(up, up', page.sel, page'.sel)
  /\ Reloads(m) => Loading(up', page'.sel)

\* A message that says nothing of any row.
LEMMA AppliedNot ==
  ASSUME NEW m, m.kind # "item-enriched", m.ok => m.kind \notin {"items", "patch"}, NEW list
  PROVE  Applied(m, list, list)
BY DEF Applied, Loads, About

LEMMA ItemsListed ==
  ASSUME TabInv, NEW m \in Elements(down), m.kind = "items", ReceiveItems(m)
  PROVE  ListReceived(m)
<1>1. page \in Pages /\ Brings(m) /\ up \in Seq(Request) /\ m \in Message
  BY PageTyped, InQueue DEF TabInv, QueuesOK
<1> DEFINE p == IF m.ok THEN [page EXCEPT !.list = m.body] ELSE page
<1>2. p.sel = page.sel /\ p.list = IF m.ok THEN m.body ELSE page.list
  BY <1>1, PageList DEF Brings
<1>3. Remember(p, <<>>)
  BY DEF ReceiveItems
<1> HIDE DEF p
<1>4. Asked(up, up', page.sel, page'.sel) /\ page' = p
  BY <1>1, <1>2, <1>3, AskedNothing
<1>5. Applied(m, page.list, p.list)
  <2>1. CASE m.ok
    <3>1. m \in Loads
      BY <1>1, <2>1 DEF Loads
    <3> QED
      BY <1>2, <2>1, <3>1 DEF Applied
  <2>2. CASE ~m.ok
    BY <1>2, <2>2, AppliedNot
  <2> QED
    BY <2>1, <2>2
<1> QED
  BY <1>4, <1>5 DEF ListReceived, Reloads

LEMMA CountsListed ==
  ASSUME TabInv, NEW m \in Elements(down), m.kind = "counts", ReceiveCounts(m)
  PROVE  ListReceived(m)
<1> DEFINE q == IF m.ok THEN [page EXCEPT !.feeds = m.body.feeds, !.topic = m.body.topic]
                ELSE page
           p == IF m.arg # None THEN Settled(q, m.arg) ELSE q
<1>1. page \in Pages /\ Brings(m) /\ up \in Seq(Request)
  BY PageTyped DEF TabInv, QueuesOK
<1>2. q \in Pages /\ q.sel = page.sel /\ q.list = page.list
  BY <1>1, PageNumbers DEF Brings
<1>3. Remember(p, <<>>)
  BY DEF ReceiveCounts
<1> HIDE DEF q
<1>4. p.sel = page.sel /\ p.list = page.list
  BY <1>2, SettledPage
<1> HIDE DEF p
<1>5. Asked(up, up', page.sel, page'.sel) /\ page' = p
  BY <1>1, <1>3, <1>4, AskedNothing
<1> QED
  BY <1>4, <1>5, AppliedNot DEF ListReceived, Reloads

LEMMA DetailListed ==
  ASSUME TabInv, NEW m \in Elements(down), m.kind = "detail", ReceiveDetail(m)
  PROVE  ListReceived(m)
<1>1. page \in Pages /\ Brings(m) /\ m.arg \in Items /\ up \in Seq(Request)
  BY PageTyped DEF TabInv, QueuesOK, Named
<1> DEFINE shown == [item |-> m.arg, row |-> m.body]
           q   == [page EXCEPT !.open = shown]
           arg == [item |-> m.arg, read |-> TRUE, opens |-> TRUE]
           a   == Ask("patch", arg)
<1>2. a \in Request /\ a.kind = "patch"
  BY <1>1, AskTyped, AskParts DEF Patch
<1>3. ASSUME NEW p, p.sel = page.sel, p.list = page.list,
             Remember(p, <<>>) \/ Remember(p, <<a>>)
      PROVE  ListReceived(m)
  <2> HIDE DEF a
  <2>1. page' = p /\ Asked(up, up', page.sel, page'.sel)
    BY <1>1, <1>2, <1>3, AskedNothing, AskedElse
  <2> QED
    BY <1>3, <2>1, AppliedNot DEF ListReceived, Reloads
<1>4. ASSUME NEW p \in Pages, p.sel = page.sel, p.list = page.list,
             Remember(Settled(p, m.arg), <<>>)
      PROVE  ListReceived(m)
  <2>1. Settled(p, m.arg).sel = page.sel /\ Settled(p, m.arg).list = page.list
    BY <1>4, SettledPage
  <2> QED
    BY <1>3, <1>4, <2>1
<1>5. CASE Remember(page, <<>>) \/ Remember(Settled(page, m.arg), <<>>)
  BY <1>1, <1>3, <1>4, <1>5
<1>6. CASE m.ok /\ (Remember(Settled(q, m.arg), <<>>) \/ Remember(q, <<a>>))
  <2>1. shown \in Opened
    BY <1>1, <1>6 DEF Brings, Opened
  <2> HIDE DEF shown, a
  <2>2. q \in Pages /\ q.sel = page.sel /\ q.list = page.list
    BY <1>1, <2>1, PageOpen
  <2> HIDE DEF q
  <2> QED
    BY <1>3, <1>4, <1>6, <2>2
<1> QED
  BY <1>5, <1>6 DEF ReceiveDetail

LEMMA PatchListed ==
  ASSUME TabInv, NEW m \in Elements(down), m.kind = "patch", ReceivePatch(m)
  PROVE  ListReceived(m)
<1>1. /\ page \in Pages /\ Brings(m) /\ m.arg \in Patch /\ m.arg.item \in Items
      /\ up \in Seq(Request) /\ m \in Message
  BY PageTyped, InQueue DEF TabInv, QueuesOK, Named, Patch
<1>2. CASE m.ok
  <2> DEFINE p == Patched(page, m.arg.item, m.body)
             i == IF m.arg.opens THEN m.arg.item ELSE None
             a == Ask("counts", i)
  <2>1. p.sel = page.sel /\ p.list = [j \in DOMAIN page.list |->
                                        IF j = m.arg.item THEN m.body ELSE page.list[j]]
    BY <1>1, <1>2, PatchedPage DEF Brings
  <2>2. Remember(p, <<a>>)
    BY <1>2 DEF ReceivePatch, Counts
  <2>3. a \in Request /\ a.kind = "counts"
    BY <1>1, AskTyped, AskParts
  <2> HIDE DEF p, a
  <2>4. page' = p /\ Asked(up, up', page.sel, page'.sel)
    BY <1>1, <2>1, <2>2, <2>3, AskedElse
  <2>5. /\ m \notin Loads /\ \A j, f : m \in About(j, f) <=> j = m.arg.item
        /\ \A j, f : Word(m, j, f) = Said(m.body, f)
    BY <1>1, <1>2 DEF Loads, About, Word
  <2>6. Applied(m, page.list, p.list)
    BY <2>1, <2>5 DEF Applied
  <2> QED
    BY <2>4, <2>6 DEF ListReceived, Reloads
<1>3. CASE ~m.ok
  <2> DEFINE p == IF m.arg.opens THEN Settled(page, m.arg.item) ELSE page
  <2>1. p.sel = page.sel /\ p.list = page.list
    BY <1>1, SettledPage
  <2>2. Remember(p, <<>>)
    BY <1>3 DEF ReceivePatch
  <2> HIDE DEF p
  <2>3. page' = p /\ Asked(up, up', page.sel, page'.sel)
    BY <1>1, <2>1, <2>2, AskedNothing
  <2> QED
    BY <1>3, <2>1, <2>3, AppliedNot DEF ListReceived, Reloads
<1> QED
  BY <1>2, <1>3

\* A change of the tables that the list is loaded again for, or that failed.
LEMMA ReloadListed ==
  ASSUME TabInv, NEW m, m.kind \in {"mark", "remove"}, NEW p \in Pages, p.list = page.list,
         \/ m.ok /\ Remember(p, Reload(p.sel))
         \/ ~m.ok /\ p.sel = page.sel /\ Remember(p, <<>>)
  PROVE  ListReceived(m)
<1>1. up \in Seq(Request) /\ p.sel \in Selection
  BY PageParts DEF TabInv, QueuesOK
<1>2. CASE m.ok /\ Remember(p, Reload(p.sel))
  <2> DEFINE a == Ask("counts", None)
             b == Ask("items", p.sel)
  <2>1. a \in Request
    BY AskTyped
  <2>2. Remember(p, <<a>> \o <<b>>)
    BY <1>2, ReloadIs
  <2>3. b = Ask("items", p.sel)
    OBVIOUS
  <2> HIDE DEF a, b
  <2>4. page' = p /\ Loading(up', p.sel)
    BY <1>1, <2>1, <2>2, <2>3, AskedLoad
  <2> QED
    BY <2>4, AppliedNot DEF ListReceived, Asked
<1>3. CASE ~m.ok /\ p.sel = page.sel /\ Remember(p, <<>>)
  <2>1. page' = p /\ Asked(up, up', page.sel, page'.sel)
    BY <1>1, <1>3, AskedNothing
  <2> QED
    BY <1>3, <2>1, AppliedNot DEF ListReceived, Reloads
<1> QED
  BY <1>2, <1>3

LEMMA WritesListed ==
  ASSUME TabInv, NEW m \in Elements(down),
         \/ m.kind = "mark" /\ ReceiveMark(m)
         \/ m.kind = "remove" /\ ReceiveRemove(m)
  PROVE  ListReceived(m)
<1>1. page \in Pages /\ page.sel \in Selection
  BY PageTyped, PageParts
<1>2. CASE m.kind = "mark" /\ ReceiveMark(m)
  <2>1. IF m.ok THEN Remember(page, Reload(page.sel)) ELSE Remember(page, <<>>)
    BY <1>2 DEF ReceiveMark
  <2> QED
    BY <1>1, <1>2, <2>1, ReloadListed
<1>3. CASE m.kind = "remove" /\ ReceiveRemove(m)
  <2> DEFINE sel == [page.sel EXCEPT !.feed = None]
             p   == IF page.sel.feed = m.arg THEN [page EXCEPT !.sel.feed = None] ELSE page
  <2>1. p \in Pages /\ p.list = page.list
    <3>1. sel \in Selection
      BY <1>1 DEF Selection
    <3>2. [page EXCEPT !.sel.feed = None] = [page EXCEPT !.sel = sel]
      OBVIOUS
    <3> HIDE DEF sel
    <3> QED
      BY <1>1, <3>1, <3>2, PageSel
  <2>2. IF m.ok THEN Remember(p, Reload(p.sel)) ELSE Remember(page, <<>>)
    BY <1>3 DEF ReceiveRemove
  <2> HIDE DEF p
  <2> QED
    BY <1>1, <1>3, <2>1, <2>2, ReloadListed
<1> QED
  BY <1>2, <1>3

LEMMA EventListed ==
  ASSUME TabInv, NEW m \in Elements(down), m.kind \in Events, ReceiveEvent(m)
  PROVE  ListReceived(m)
<1>1. /\ page \in Pages /\ Brings(m) /\ page.sel \in Selection
      /\ up \in Seq(Request) /\ m \in Message /\ ~Reloads(m)
  BY PageTyped, PageParts, InQueue DEF TabInv, QueuesOK, Events, Reloads
<1>2. CASE m.kind = "item-enriched"
  <2> DEFINE q == Enriched(page, m.arg, m.body)
             p == CountsSoon(q)
  <2>1. q \in Pages /\ q.sel = page.sel
        /\ q.list = [j \in DOMAIN page.list |->
                       IF j = m.arg THEN Retagged(page.list[j], m.body) ELSE page.list[j]]
    BY <1>1, <1>2, EnrichedPage DEF Brings
  <2>2. Remember(p, <<>>)
    BY <1>2 DEF ReceiveEvent
  <2> HIDE DEF q
  <2>3. p.sel = page.sel /\ p.list = q.list
    BY <2>1, PageTimer DEF CountsSoon
  <2> HIDE DEF p
  <2>4. page' = p /\ Asked(up, up', page.sel, page'.sel)
    BY <1>1, <2>2, <2>3, AskedNothing
  <2>5. /\ m \notin Loads /\ \A j, f : m \in About(j, f) <=> j = m.arg /\ f = "tagged"
        /\ \A j, f : Word(m, j, f) = m.body
    BY <1>1, <1>2 DEF Loads, About, Word
  <2>6. ASSUME NEW j \in DOMAIN page.list, NEW f \in Fields
        PROVE  Said(p.list[j], f) = IF m \in About(j, f) THEN Word(m, j, f)
                                    ELSE Said(page.list[j], f)
    <3>1. page.list[j] \in Row /\ m.body \in BOOLEAN
      BY <1>1, <1>2, PageParts DEF Lists, Brings
    <3>2. CASE j = m.arg
      <4>1. p.list[j] = Retagged(page.list[j], m.body)
        BY <2>1, <2>3, <3>2
      <4>2. p.list[j].read = page.list[j].read /\ p.list[j].tagged = m.body
        BY <3>1, <4>1, RetaggedRow
      <4> QED
        BY <2>5, <3>2, <4>2 DEF Said, Fields
    <3>3. CASE j # m.arg
      BY <2>1, <2>3, <2>5, <3>3
    <3> QED
      BY <3>2, <3>3
  <2>7. DOMAIN p.list = DOMAIN page.list
    BY <2>1, <2>3
  <2> QED
    BY <1>1, <2>4, <2>5, <2>6, <2>7 DEF ListReceived, Applied
<1>3. CASE m.kind # "item-enriched"
  <2> DEFINE p == CountsSoon(page)
             b == Ask("items", p.sel)
  <2>1. p.sel = page.sel /\ p.list = page.list
    BY <1>1, PageTimer DEF CountsSoon
  <2>2. Remember(p, <<>>) \/ Remember(p, <<b>>)
    BY <1>3 DEF ReceiveEvent, Load
  <2>3. b = Ask("items", p.sel) /\ Ask("counts", None) \in Request
    BY AskTyped
  <2>4. Applied(m, page.list, page.list)
    BY <1>3, AppliedNot DEF Events
  <2> HIDE DEF p, b
  <2>5. page' = p /\ Asked(up, up', page.sel, page'.sel)
    BY <1>1, <2>1, <2>2, <2>3, AskedNothing, AskedLoad DEF Asked
  <2> QED
    BY <1>1, <2>1, <2>4, <2>5 DEF ListReceived
<1> QED
  BY <1>2, <1>3

LEMMA ReceiveListInv ==
  ASSUME TabInv, ListInv, NEW k \in 1..Len(down), Receive(k) PROVE ListInv'
<1> SUFFICES ASSUME "list" \notin upset'
             PROVE  /\ EndsIn(up', Asking, Selects(page'.sel))
                    /\ ListPending' \/ Agrees(page'.list, down', db', page'.sel)
  BY DEF ListInv, Selects
<1> DEFINE m == down[k]
<1>1. m \in Elements(down) /\ down \in Seq(Message) /\ up \in Seq(Request)
  BY MessageAt DEF TabInv, QueuesOK
<1>2. /\ down' = RemoveAt(down, k) /\ db' = db /\ upset' = upset \cup Overtaking(down, k)
      /\ Received(m)
  BY ReceiveDoes
<1>3. Elements(down) \subseteq Elements(down') \cup {m}
  BY <1>1, <1>2, Stays
<1>4. page'.sel \in Selection
  BY <1>2, PageParts DEF Received
<1>5. /\ EndsIn(up, Asking, Selects(page.sel))
      /\ ListPending \/ Agrees(page.list, down, db, page.sel)
  BY <1>2 DEF ListInv, Selects
<1>6. "list" \in PartOf(m.kind) => \A j \in 1..(k - 1) : "list" \notin PartOf(down[j].kind)
  BY <1>2 DEF Overtaking, Parts
<1>7. ListReceived(m)
  <2>1. \/ m.kind = "items" /\ ReceiveItems(m)
        \/ m.kind = "counts" /\ ReceiveCounts(m)
        \/ m.kind = "detail" /\ ReceiveDetail(m)
        \/ m.kind = "patch" /\ ReceivePatch(m)
        \/ m.kind = "mark" /\ ReceiveMark(m)
        \/ m.kind = "remove" /\ ReceiveRemove(m)
        \/ m.kind \in Events /\ ReceiveEvent(m)
    BY DEF Receive
  <2> HIDE DEF m
  <2> QED
    BY <1>1, <2>1, ItemsListed, CountsListed, DetailListed, PatchListed, WritesListed, EventListed
<1>8. /\ EndsIn(up', Asking, Selects(page'.sel))
      /\ \/ page'.sel = page.sel /\ Elements(up) \subseteq Elements(up')
         \/ \E r \in Elements(up') : r \in Asking
  BY <1>1, <1>4, <1>5, <1>7, AskedKeeps DEF ListReceived
<1>9. CASE \E r \in Elements(up') : r \in Asking
  BY <1>8, <1>9 DEF ListPending
<1>10. CASE page'.sel = page.sel /\ Elements(up) \subseteq Elements(up')
  <2>1. CASE ListPending
    <3>1. Reloads(m) => \E r \in Elements(up') : r \in Asking
      BY <1>4, <1>7, LoadingKeeps DEF ListReceived
    <3> QED
      BY <1>3, <1>8, <1>10, <2>1, <3>1 DEF ListPending
  <2>2. CASE Agrees(page.list, down, db, page.sel)
    <3>1. Applied(down[k], page.list, page'.list)
      BY <1>7 DEF ListReceived
    <3>2. Agrees(page'.list, RemoveAt(down, k), db, page.sel)
      BY <1>1, <1>6, <2>2, <3>1, AgreesReceived
    <3> QED
      BY <1>2, <1>8, <1>10, <3>2
  <2> QED
    BY <1>5, <2>1, <2>2
<1> QED
  BY <1>8, <1>9, <1>10
-----------------------------------------------------------------------------
\* A click loads the list, or leaves the list and the selection.
LEMMA ListClicked ==
  ASSUME TabInv, ListInv, NEW p \in Pages, p.list = page.list, page' = p,
         Asked(up, up', page.sel, p.sel), UNCHANGED <<db, down, upset>>
  PROVE  ListInv'
<1> SUFFICES ASSUME "list" \notin upset
             PROVE  /\ EndsIn(up', Asking, Selects(page'.sel))
                    /\ ListPending' \/ Agrees(page'.list, down', db', page'.sel)
  BY DEF ListInv, Selects
<1>1. up \in Seq(Request) /\ p.sel \in Selection
  BY PageParts DEF TabInv, QueuesOK
<1>2. /\ EndsIn(up, Asking, Selects(page.sel))
      /\ ListPending \/ Agrees(page.list, down, db, page.sel)
  BY DEF ListInv, Selects
<1>3. /\ EndsIn(up', Asking, Selects(p.sel))
      /\ \/ p.sel = page.sel /\ Elements(up) \subseteq Elements(up')
         \/ \E r \in Elements(up') : r \in Asking
  BY <1>1, <1>2, AskedKeeps
<1>4. ListPending' \/ Agrees(page'.list, down', db', page'.sel)
  <2>1. CASE p.sel = page.sel /\ Elements(up) \subseteq Elements(up')
    BY <1>2, <2>1 DEF ListPending
  <2>2. CASE \E r \in Elements(up') : r \in Asking
    BY <2>2 DEF ListPending
  <2> QED
    BY <1>3, <2>1, <2>2
<1> QED
  BY <1>3, <1>4

LEMMA SelectList ==
  ASSUME TabInv, ListInv, NEW sel \in Selection, Select(sel) PROVE ListInv'
<1> DEFINE q == [page EXCEPT !.sel = sel]
           p == [q EXCEPT !.open = None]
           b == Ask("items", p.sel)
<1>1. page \in Pages /\ up \in Seq(Request)
  BY PageTyped DEF TabInv, QueuesOK
<1>2. q \in Pages /\ q.sel = sel /\ q.list = page.list
  BY <1>1, PageSel
<1>3. p = [page EXCEPT !.sel = sel, !.open = None]
  OBVIOUS
<1> HIDE DEF q
<1>4. p \in Pages /\ p.sel = sel /\ p.list = page.list
  BY <1>2, PageOpen
<1>5. Remember(p, <<b>>) /\ UNCHANGED <<db, down, upset>>
  BY <1>3, <1>4 DEF Select, Click, Load
<1>6. Ask("counts", None) \in Request
  BY AskTyped
<1>7. b = Ask("items", p.sel)
  OBVIOUS
<1> HIDE DEF p, b
<1>8. page' = p /\ Asked(up, up', page.sel, p.sel)
  BY <1>1, <1>4, <1>5, <1>6, <1>7, AskedLoad DEF Asked
<1> QED
  BY <1>4, <1>5, <1>8, ListClicked

LEMMA SelectionsList ==
  ASSUME TabInv, ListInv,
         \/ \E view \in Views : SelectView(view)
         \/ \E f \in Feeds : SelectFeed(f)
         \/ SelectTopic
         \/ \E q \in Searches : Search(q)
  PROVE  ListInv'
<1>1. page.sel \in Selection
  BY PageTyped, PageParts
<1>2. CASE \E view \in Views : SelectView(view)
  BY <1>2, SelectList DEF SelectView, Selection, Searches
<1>3. CASE \E f \in Feeds : SelectFeed(f)
  <2>1. \A f \in Feeds : [page.sel EXCEPT !.feed = f, !.tag = FALSE] \in Selection
    BY <1>1 DEF Selection
  <2> QED
    BY <1>3, <2>1, SelectList DEF SelectFeed
<1>4. CASE SelectTopic
  <2>1. /\ [page.sel EXCEPT !.tag = FALSE] \in Selection
        /\ [page.sel EXCEPT !.tag = TRUE, !.feed = None] \in Selection
    BY <1>1 DEF Selection
  <2> QED
    BY <1>4, <2>1, SelectList DEF SelectTopic
<1>5. CASE \E q \in Searches : Search(q)
  <2>1. \A q \in Searches : [page.sel EXCEPT !.q = q] \in Selection
    BY <1>1 DEF Selection
  <2> QED
    BY <1>5, <2>1, SelectList DEF Search
<1> QED
  BY <1>2, <1>3, <1>4, <1>5

LEMMA OthersList ==
  ASSUME TabInv, ListInv,
         \/ \E i \in Items : OpenItem(i)
         \/ \E f \in Feeds : RemoveFeed(f)
         \/ Close \/ ToggleRead \/ MarkAllRead \/ Scroll \/ TimerFires
  PROVE  ListInv'
<1>1. /\ page \in Pages /\ page.sel \in Selection /\ up \in Seq(Request)
      /\ page.open \in Opened \cup {None}
  BY PageTyped, PageParts DEF TabInv, QueuesOK
<1>2. UNCHANGED <<db, down, upset>>
  BY DEF OpenItem, RemoveFeed, Close, ToggleRead, MarkAllRead, Scroll, TimerFires, Click
<1>3. ASSUME NEW p \in Pages, p.sel = page.sel, p.list = page.list,
             Remember(p, <<>>) \/ \E a \in Request : a.kind # "items" /\ Remember(p, <<a>>)
      PROVE  ListInv'
  <2>1. page' = p /\ Asked(up, up', page.sel, p.sel)
    BY <1>1, <1>3, AskedNothing, AskedElse
  <2> QED
    BY <1>2, <1>3, <2>1, ListClicked
<1>4. ASSUME NEW i \in Items, OpenItem(i) PROVE ListInv'
  <2> DEFINE p == [page EXCEPT !.opening = i]
  <2>1. p \in Pages /\ p.sel = page.sel /\ p.list = page.list
    BY <1>1, PageOpening
  <2>2. Remember(p, <<Ask("detail", i)>>)
    BY <1>4 DEF OpenItem
  <2>3. Ask("detail", i) \in Request /\ Ask("detail", i).kind # "items"
    BY AskTyped, AskParts
  <2> HIDE DEF p
  <2> QED
    BY <1>3, <2>1, <2>2, <2>3
<1>5. ASSUME NEW f \in Feeds, RemoveFeed(f) PROVE ListInv'
  <2>1. Remember(page, <<Ask("remove", f)>>)
    BY <1>5 DEF RemoveFeed
  <2>2. Ask("remove", f) \in Request /\ Ask("remove", f).kind # "items"
    BY AskTyped, AskParts
  <2> QED
    BY <1>1, <1>3, <2>1, <2>2
<1>6. CASE Close
  <2> DEFINE q == [page EXCEPT !.open = None]
             p == [q EXCEPT !.opening = None]
  <2>1. q \in Pages /\ q.sel = page.sel /\ q.list = page.list
    BY <1>1, PageOpen
  <2>2. p = [page EXCEPT !.open = None, !.opening = None]
    OBVIOUS
  <2> HIDE DEF q
  <2>3. p \in Pages /\ p.sel = page.sel /\ p.list = page.list
    BY <2>1, PageOpening
  <2>4. Remember(p, <<>>)
    BY <1>6, <2>2 DEF Close
  <2> HIDE DEF p
  <2> QED
    BY <1>3, <2>3, <2>4
<1>7. CASE ToggleRead
  <2> DEFINE arg == [item |-> page.open.item, read |-> ~page.open.row.read, opens |-> FALSE]
  <2>1. arg \in Patch
    BY <1>1, <1>7 DEF ToggleRead, Opened, Row, Patch
  <2>2. Remember(page, <<Ask("patch", arg)>>)
    BY <1>7 DEF ToggleRead
  <2> HIDE DEF arg
  <2>3. Ask("patch", arg) \in Request /\ Ask("patch", arg).kind # "items"
    BY <2>1, AskTyped, AskParts
  <2> QED
    BY <1>1, <1>3, <2>2, <2>3
<1>8. CASE MarkAllRead
  <2>1. Remember(page, <<Ask("mark", page.sel)>>)
    BY <1>8 DEF MarkAllRead
  <2>2. Ask("mark", page.sel) \in Request /\ Ask("mark", page.sel).kind # "items"
    BY <1>1, AskTyped, AskParts
  <2> QED
    BY <1>1, <1>3, <2>1, <2>2
<1>9. CASE Scroll
  <2> DEFINE p == [page EXCEPT !.atTop = ~@]
  <2>1. p \in Pages /\ p.sel = page.sel /\ p.list = page.list
    BY <1>1 DEF Pages
  <2>2. Remember(p, <<>>)
    BY <1>9 DEF Scroll
  <2> HIDE DEF p
  <2> QED
    BY <1>3, <2>1, <2>2
<1>10. CASE TimerFires
  <2> DEFINE p == [page EXCEPT !.timer = FALSE]
  <2>1. p \in Pages /\ p.sel = page.sel /\ p.list = page.list
    BY <1>1, PageTimer
  <2>2. Remember(p, <<Ask("counts", None)>>)
    BY <1>10 DEF TimerFires, Counts
  <2>3. Ask("counts", None) \in Request /\ Ask("counts", None).kind # "items"
    BY AskTyped, AskParts
  <2> HIDE DEF p
  <2> QED
    BY <1>3, <2>1, <2>2, <2>3
<1> QED
  BY <1>4, <1>5, <1>6, <1>7, <1>8, <1>9, <1>10
-----------------------------------------------------------------------------
\* A message that tells nothing of a row leaves what is under way for the list.
LEMMA AgreesUntouched ==
  ASSUME NEW s \in Seq(Message), NEW m \in Message, NEW list, NEW d, NEW sel,
         Agrees(list, s, d, sel),
         m.kind # "item-enriched", m.ok => m.kind \notin {"items", "patch"}
  PROVE  Agrees(list, Append(s, m), d, sel)
<1>1. m \notin Loads /\ \A i, f : m \notin About(i, f)
  BY DEF Loads, About
<1> QED
  BY <1>1, AgreesTold

\* A message is sent to the page: what was to be loaded still is, and what made
\* the list right still does.
LEMMA ToldList ==
  ASSUME TabInv, ListInv, "list" \in upset => "list" \in upset', UNCHANGED page,
         NEW m \in Message, down' = Append(down, m),
         "list" \notin upset' =>
           /\ EndsIn(up', Asking, Selects(page.sel))
           /\ \/ (ListPending \/ Agrees(page.list, down, db, page.sel))'
              \/ /\ \A r \in Elements(up) : r \in Asking => r \in Elements(up')
                 /\ Agrees(page.list, down, db, page.sel) =>
                      (ListPending \/ Agrees(page.list, down, db, page.sel))'
  PROVE  ListInv'
<1> SUFFICES ASSUME "list" \notin upset'
             PROVE  (ListPending \/ Agrees(page.list, down, db, page.sel))'
  BY DEF ListInv, Selects
<1>1. ListPending \/ Agrees(page.list, down, db, page.sel)
  BY DEF ListInv
<1>2. Elements(down') = Elements(down) \cup {m}
  BY Appended DEF TabInv, QueuesOK
<1>3. CASE ListPending
  BY <1>2, <1>3 DEF ListPending
<1> QED
  BY <1>1, <1>3

\* A row that is patched: the others stay, and all still belong.
LEMMA RowsPatched ==
  ASSUME db \in Database, NEW r \in Request, Named(r), r.kind = "patch",
         r.arg.item \in db.stored
  PROVE  /\ \A sel, i : Fitting(db, sel, i) => Fitting(Effect(r), sel, i)
         /\ \A i : i # r.arg.item => RowOf(Effect(r), i) = RowOf(db, i)
<1> DEFINE S == IF r.arg.read THEN db.read \cup {r.arg.item} ELSE db.read \ {r.arg.item}
<1>1. Effect(r) = [db EXCEPT !.read = S]
  BY DEF Effect
<1>2. \A i : i # r.arg.item => (i \in S <=> i \in db.read)
  OBVIOUS
<1> HIDE DEF S
<1>3. /\ Effect(r).stored = db.stored /\ Effect(r).tagged = db.tagged
      /\ Effect(r).read = S
  BY <1>1 DEF Database
<1>4. \A sel, i : Fitting(db, sel, i) => Fitting(Effect(r), sel, i)
  BY <1>2, <1>3 DEF Fitting, InScope
<1>5. \A i : i # r.arg.item => RowOf(Effect(r), i) = RowOf(db, i)
  BY <1>2, <1>3 DEF RowOf
<1> QED
  BY <1>4, <1>5

\* A list that is answered now is the list of the tables.
LEMMA Answered ==
  ASSUME NEW s \in Seq(Message), NEW m \in Message, m.kind = "items", m.ok,
         NEW r, r.kind = "items", NEW d, NEW list, m.body \in BodiesOf(r, d)
  PROVE  Agrees(list, Append(s, m), d, r.arg)
<1>1. PICK S \in Found(d, r.arg) : m.body = [i \in S |-> RowOf(d, i)]
  BY DEF BodiesOf
<1>2. Within(m.body, d, r.arg) /\ \A i \in DOMAIN m.body : m.body[i] = RowOf(d, i)
  BY <1>1, FoundFits DEF Within, Fitting
<1> QED
  BY <1>2, AgreesLoaded DEF Loads

LEMMA HandleListInv ==
  ASSUME TabInv, ListInv, NEW k \in 1..Len(up), Handle(k) PROVE ListInv'
<1> DEFINE r == up[k]
<1>1. /\ r \in Request /\ Named(r) /\ db \in Database
      /\ up \in Seq(Request) /\ down \in Seq(Message)
  BY RequestAt, PageTyped DEF TabInv, QueuesOK
<1>2. PICK m \in Message :
        /\ m.kind = r.kind /\ m.arg = r.arg /\ m.ok = Possible(r)
        /\ m.ok => m.body \in BodiesOf(r, db')
        /\ up' = RemoveAt(up, k) /\ down' = Append(down, m)
        /\ m.ok => db' = Effect(r)
        /\ db' = db \/ (m.ok /\ m.kind \in Writes)
  BY HandleDoes
<1>3. upset' = (upset \ Healed(k)) \cup Overtaking(up, k) /\ UNCHANGED page
  BY DEF Handle
<1>4. Elements(up) \subseteq Elements(up') \cup {r} /\ Elements(down') = Elements(down) \cup {m}
  BY <1>1, <1>2, Stays, Appended
<1>5. ASSUME "list" \notin upset', "list" \notin upset, r \notin Asking
      PROVE  /\ EndsIn(up', Asking, Selects(page.sel))
             /\ \A x \in Elements(up) : x \in Asking => x \in Elements(up')
             /\ Agrees(page.list, down, db, page.sel) =>
                  (ListPending \/ Agrees(page.list, down, db, page.sel))'
  <2>1. EndsIn(up, Asking, Selects(page.sel))
    BY <1>5 DEF ListInv, Selects
  <2>2. EndsIn(up', Asking, Selects(page.sel))
    BY <1>1, <1>2, <1>5, <2>1, LastRemoved
  <2>3. r.kind \in Kinds /\ r.kind # "items"
    BY <1>1, <1>5 DEF Asking, Request
  <2>4. ASSUME Agrees(page.list, down, db, page.sel)
        PROVE  (ListPending \/ Agrees(page.list, down, db, page.sel))'
    <3>1. CASE m.ok /\ r.kind \in {"mark", "remove"}
      BY <1>2, <1>4, <3>1 DEF ListPending, Reloads
    <3>2. CASE m.ok /\ r.kind = "patch"
      <4>1. /\ db' = Effect(r) /\ m.body = RowOf(db', r.arg.item)
            /\ r.arg.item \in db.stored
        BY <1>2, <3>2 DEF BodiesOf, Possible
      <4>2. /\ m \notin Loads /\ \A i, f : m \in About(i, f) <=> i = r.arg.item
            /\ \A f : m \in TellsRight(db', r.arg.item, f)
        BY <1>2, <3>2, <4>1 DEF Loads, About, TellsRight, Word
      <4> HIDE DEF r
      <4>3. /\ \A i : Fitting(db, page.sel, i) => Fitting(db', page.sel, i)
            /\ \A i : i # r.arg.item => RowOf(db', i) = RowOf(db, i)
        BY <1>1, <3>2, <4>1, RowsPatched
      <4>4. Agrees(page.list, Append(down, m), db', page.sel)
        BY <1>1, <2>4, <4>2, <4>3, AgreesTold
      <4> QED
        BY <1>2, <1>3, <4>4
    <3>3. CASE ~m.ok \/ r.kind \in {"counts", "detail"}
      <4>1. db' = db
        BY <1>2, <3>3 DEF Writes
      <4>2. m.kind # "item-enriched" /\ (m.ok => m.kind \notin {"items", "patch"})
        BY <1>2, <2>3, <3>3 DEF Kinds
      <4>3. Agrees(page.list, Append(down, m), db, page.sel)
        BY <1>1, <2>4, <4>2, AgreesUntouched
      <4> QED
        BY <1>2, <1>3, <4>1, <4>3
    <3> QED
      BY <2>3, <3>1, <3>2, <3>3 DEF Kinds
  <2>5. \A x \in Elements(up) : x \in Asking => x \in Elements(up')
    BY <1>4, <1>5
  <2> QED
    BY <2>2, <2>4, <2>5
\* The list is read: it is right if it is of what is selected, or another is asked.
<1>6. ASSUME r \in Asking, r.arg = page.sel
      PROVE  Agrees(page.list, down, db, page.sel)'
  <2>1. r.kind = "items"
    BY <1>6 DEF Asking
  <2>2. m.ok
    BY <1>2, <2>1 DEF Possible
  <2> HIDE DEF r
  <2>3. Agrees(page'.list, Append(down, m), db', r.arg)
    BY <1>1, <1>2, <2>1, <2>2, Answered
  <2> QED
    BY <1>2, <1>3, <1>6, <2>3
<1>7. ASSUME "list" \notin upset', "list" \notin upset, r \in Asking
      PROVE  /\ EndsIn(up', Asking, Selects(page.sel))
             /\ (ListPending \/ Agrees(page.list, down, db, page.sel))'
  <2>1. EndsIn(up, Asking, Selects(page.sel))
    BY <1>7 DEF ListInv, Selects
  <2>2. r.kind = "items"
    BY <1>7 DEF Asking
  <2>3. \A j \in 1..(k - 1) : up[j] \notin Asking
    BY <1>3, <1>7, <2>2 DEF Overtaking, Parts, PartOf, Asking
  <2>4. /\ EndsIn(up', Asking, Selects(page.sel))
        /\ Without(up', Asking) => r \in Selects(page.sel)
    <3>1. ~Without(up, Asking)
      BY <1>7 DEF Without
    <3> QED
      BY <1>1, <1>2, <2>1, <2>3, <3>1, LastRemoved
  <2>5. CASE ~Without(up', Asking)
    BY <2>4, <2>5 DEF ListPending, Without, Elements
  <2>6. CASE Without(up', Asking)
    <3>1. r.arg = page.sel
      BY <2>4, <2>6 DEF Selects
    <3> QED
      BY <1>6, <1>7, <2>4, <3>1
  <2> QED
    BY <2>4, <2>5, <2>6
<1>8. CASE "list" \in upset /\ "list" \notin upset'
  <2>1. /\ r = Ask("items", page.sel)
        /\ \A j \in 1..Len(up) : up[j].kind = "items" => j = k
    BY <1>3, <1>8 DEF Healed
  <2>2. r \in Asking /\ r.arg = page.sel
    BY <1>1, <2>1, AskParts DEF Asking
  <2>3. Without(up', Asking)
    <3> SUFFICES ASSUME NEW j \in 1..Len(up') PROVE up'[j] \notin Asking
      BY DEF Without
    <3> DEFINE i == IF j < k THEN j ELSE j + 1
    <3>1. i \in 1..Len(up) /\ i # k /\ up'[j] = up[i]
      <4>1. /\ Len(up) \in Nat /\ Len(up') = Len(up) - 1
            /\ \A n \in 1..(Len(up) - 1) : up'[n] = up[IF n < k THEN n ELSE n + 1]
        BY <1>1, <1>2, Removed, LenProperties
      <4>2. j \in 1..(Len(up) - 1)
        BY <4>1
      <4> QED
        BY <4>1, <4>2
    <3> HIDE DEF i
    <3> QED
      BY <2>1, <3>1 DEF Asking
  <2>4. EndsIn(up', Asking, Selects(page.sel))
    BY <2>3 DEF EndsIn, Without, LastOf
  <2> QED
    BY <1>3, <1>6, <2>2, <2>4 DEF ListInv, Selects
<1>9. CASE "list" \in upset' \/ "list" \notin upset
  BY <1>2, <1>3, <1>5, <1>7, <1>9, ToldList
<1> QED
  BY <1>8, <1>9

LEMMA FailListInv ==
  ASSUME TabInv, ListInv, NEW k \in 1..Len(up), Fail(k) PROVE ListInv'
<1> DEFINE r == up[k]
           m == Answer(r, FALSE, None)
<1>1. /\ r \in Request /\ Named(r) /\ db \in Database /\ r.kind \in Kinds
      /\ up \in Seq(Request) /\ down \in Seq(Message)
  BY RequestAt, PageTyped DEF TabInv, QueuesOK, Request
<1>2. /\ up' = RemoveAt(up, k) /\ down' = Append(down, m) /\ UNCHANGED page
      /\ upset' = upset \cup (IF r.kind \in Writes THEN Parts ELSE PartOf(r.kind))
      /\ db' \in {db, Effect(r)}
  BY DEF Fail, Writes
<1>3. m \in Message /\ m.kind = r.kind /\ ~m.ok
  BY <1>1, AnswerTyped
<1> HIDE DEF m
<1>4. ASSUME "list" \notin upset'
      PROVE  /\ EndsIn(up', Asking, Selects(page.sel))
             /\ \A x \in Elements(up) : x \in Asking => x \in Elements(up')
             /\ Agrees(page.list, down, db, page.sel) =>
                  (ListPending \/ Agrees(page.list, down, db, page.sel))'
  <2>1. r.kind = "counts"
    BY <1>1, <1>2, <1>4 DEF Kinds, Writes, Parts, PartOf
  <2>2. db' = db /\ r \notin Asking
    BY <1>2, <2>1 DEF Effect, Asking
  <2>3. EndsIn(up, Asking, Selects(page.sel))
    BY <1>2, <1>4 DEF ListInv, Selects
  <2>4. EndsIn(up', Asking, Selects(page.sel))
    BY <1>1, <1>2, <2>2, <2>3, LastRemoved
  <2>5. \A x \in Elements(up) : x \in Asking => x \in Elements(up')
    BY <1>1, <1>2, <2>2, Stays
  <2> HIDE DEF r
  <2>6. Agrees(page.list, down, db, page.sel) => Agrees(page.list, Append(down, m), db, page.sel)
    BY <1>1, <1>3, <2>1, AgreesUntouched
  <2> QED
    BY <1>2, <2>2, <2>4, <2>5, <2>6
<1> QED
  BY <1>2, <1>3, <1>4, ToldList

LEMMA WorkersList ==
  ASSUME TabInv, ListInv,
         \/ \E i, h \in Items : Arrive(i) \/ Enrich(i) \/ Retention(i) \/ Collapse(i, h)
         \/ PollFails
  PROVE  ListInv'
<1>1. db \in Database /\ down \in Seq(Message)
  BY PageTyped DEF TabInv, QueuesOK
\* The tables grow, and what changes of a row is told.
<1>2. ASSUME NEW m \in Message, down' = Append(down, m), UNCHANGED <<page, up, upset>>,
             m \notin Loads,
             \A i : Fitting(db, page.sel, i) => Fitting(db', page.sel, i),
             \A i \in Items, f \in Fields :
               \/ m \notin About(i, f) /\ Said(RowOf(db', i), f) = Said(RowOf(db, i), f)
               \/ m \in About(i, f) /\ m \in TellsRight(db', i, f)
      PROVE  ListInv'
  <2>1. Agrees(page.list, down, db, page.sel) => Agrees(page.list, Append(down, m), db', page.sel)
    BY <1>1, <1>2, AgreesTold
  <2>2. "list" \notin upset => EndsIn(up, Asking, Selects(page.sel))
    BY DEF ListInv, Selects
  <2> QED
    BY <1>2, <2>1, <2>2, ToldList
\* Nothing is told, and no row changes.
<1>3. ASSUME UNCHANGED <<page, up, down>>, upset \subseteq upset',
             \A i : RowOf(db', i) = RowOf(db, i),
             \A i : Fitting(db, page.sel, i) => Fitting(db', page.sel, i)
      PROVE  ListInv'
  <2>1. Agrees(page.list, down, db, page.sel) => Agrees(page.list, down, db', page.sel)
    BY <1>3, AgreesUntold
  <2> QED
    BY <1>3, <2>1 DEF ListInv, ListPending
<1>4. ASSUME NEW i \in Items, Arrive(i) PROVE ListInv'
  <2> DEFINE m == Event("items-new", None, None)
  <2>1. m \in Message /\ m.kind = "items-new"
    BY EventTyped
  <2>2. down' = Append(down, m) /\ UNCHANGED <<page, up, upset>>
    BY <1>4 DEF Arrive
  <2> HIDE DEF m
  <2>3. db'.stored = db.stored \cup {i} /\ db'.read = db.read /\ db'.tagged = db.tagged
    BY <1>1, <1>4 DEF Arrive, Database
  <2>4. /\ \A j : RowOf(db', j) = RowOf(db, j)
        /\ \A j : Fitting(db, page.sel, j) => Fitting(db', page.sel, j)
    BY <2>3 DEF RowOf, Fitting, InScope
  <2>5. m \notin Loads /\ \A j, f : m \notin About(j, f)
    BY <2>1 DEF Loads, About
  <2> QED
    BY <1>2, <2>1, <2>2, <2>4, <2>5
<1>5. ASSUME NEW i \in Items, Enrich(i) PROVE ListInv'
  <2> DEFINE m == Event("item-enriched", i, TRUE)
  <2>1. /\ down' = Append(down, m) /\ UNCHANGED <<page, up, upset>>
        /\ m.arg = i /\ m.body = TRUE
    BY <1>5 DEF Enrich, Event
  <2>2. db'.stored = db.stored /\ db'.read = db.read /\ db'.tagged = db.tagged \cup {i}
    BY <1>1, <1>5 DEF Enrich, Database
  <2>3. m \in Message /\ m.kind = "item-enriched"
    BY EventTyped
  <2> HIDE DEF m
  <2>4. \A j : Fitting(db, page.sel, j) => Fitting(db', page.sel, j)
    BY <2>2 DEF Fitting, InScope
  <2>5. /\ m \notin Loads
        /\ \A j, f : m \in About(j, f) <=> j = i /\ f = "tagged"
        /\ \A j, f : Word(m, j, f) = TRUE
    BY <2>1, <2>3 DEF Loads, About, Word
  <2>6. ASSUME NEW j \in Items, NEW f \in Fields
        PROVE  \/ m \notin About(j, f) /\ Said(RowOf(db', j), f) = Said(RowOf(db, j), f)
               \/ m \in About(j, f) /\ m \in TellsRight(db', j, f)
    <3>1. CASE j = i /\ f = "tagged"
      <4>1. Said(RowOf(db', j), f) = TRUE
        BY <2>2, <3>1 DEF Said, RowOf
      <4> QED
        BY <2>3, <2>5, <3>1, <4>1 DEF TellsRight
    <3>2. CASE j # i
      <4>1. RowOf(db', j) = RowOf(db, j)
        BY <2>2, <3>2 DEF RowOf
      <4> QED
        BY <2>5, <3>2, <4>1
    <3>3. CASE f = "read"
      <4>1. Said(RowOf(db', j), f) = Said(RowOf(db, j), f)
        BY <2>2, <3>3 DEF Said, RowOf
      <4> QED
        BY <2>5, <3>3, <4>1
    <3> QED
      BY <3>1, <3>2, <3>3 DEF Fields
  <2> QED
    BY <1>2, <2>1, <2>3, <2>4, <2>5, <2>6
<1>6. ASSUME NEW i \in Items, NEW h \in Items, Collapse(i, h) PROVE ListInv'
  <2>1. UNCHANGED <<page, up, down>> /\ upset' = upset \cup {"counts"}
    BY <1>6 DEF Collapse
  <2>2. db'.stored = db.stored /\ db'.read = db.read /\ db'.tagged = db.tagged
    BY <1>1, <1>6 DEF Collapse, Database
  <2>3. /\ \A j : RowOf(db', j) = RowOf(db, j)
        /\ \A j : Fitting(db, page.sel, j) => Fitting(db', page.sel, j)
    BY <2>2 DEF RowOf, Fitting, InScope
  <2> QED
    BY <1>3, <2>1, <2>3
<1>7. ASSUME NEW i \in Items, Retention(i) PROVE ListInv'
  <2>1. UNCHANGED <<page, up, down, upset>> /\ i \in db.read
    BY <1>7 DEF Retention
  <2>2. db'.stored = db.stored \ {i} /\ db'.read = db.read /\ db'.tagged = db.tagged
    BY <1>1, <1>7 DEF Retention, Database
  <2>3. /\ \A j : RowOf(db', j) = RowOf(db, j)
        /\ \A j : Fitting(db, page.sel, j) => Fitting(db', page.sel, j)
    BY <2>1, <2>2 DEF RowOf, Fitting, InScope
  <2> QED
    BY <1>3, <2>1, <2>3
<1>8. CASE PollFails
  <2> DEFINE m == Event("feed-updated", None, None)
  <2>1. m \in Message /\ m.kind = "feed-updated"
    BY EventTyped
  <2>2. down' = Append(down, m) /\ UNCHANGED <<db, page, up, upset>>
    BY <1>8 DEF PollFails
  <2> HIDE DEF m
  <2>3. m \notin Loads /\ \A j, f : m \notin About(j, f)
    BY <2>1 DEF Loads, About
  <2> QED
    BY <1>2, <2>1, <2>2, <2>3
<1> QED
  BY <1>4, <1>5, <1>6, <1>7, <1>8

LEMMA ListStep == TabInv /\ ListInv /\ [Next]_vars => ListInv'
<1> SUFFICES ASSUME TabInv, ListInv, [Next]_vars PROVE ListInv'
  OBVIOUS
<1>1. ASSUME NEW k \in 1..Len(down), Lose(k) PROVE ListInv'
  BY <1>1 DEF Lose, Parts, ListInv
<1>2. CASE Next
  BY <1>1, <1>2, HandleListInv, FailListInv, ReceiveListInv, WorkersList,
     SelectionsList, OthersList DEF Next
<1>3. CASE UNCHANGED vars
  <2>1. UNCHANGED <<db, page, up, down, upset>>
    BY <1>3 DEF vars
  <2> QED
    BY <2>1 DEF ListInv, ListPending
<1> QED
  BY <1>2, <1>3

\* When nothing is under way any more, every row of the list is an item the server
\* has, or retention took, as it has or had it, and belongs to what is selected, by
\* the narrowing or by meaning, whatever the clicks, the answers, the events and
\* retention did, unless the network upset the list since it was last loaded.
THEOREM ListDoesSettle == Spec => []ListSettles
<1>1. ASSUME TabInv, ListInv PROVE ListSettles
  <2> SUFFICES ASSUME Quiet, "list" \notin upset, NEW i \in DOMAIN page.list
               PROVE  /\ i \in db.stored \cup db.read
                      /\ page.list[i] = RowOf(db, i)
                      /\ InScope(db, page.sel, i) \/ ByMeaning(page.sel, i)
    BY DEF ListSettles
  <2>1. Elements(up) = {} /\ Elements(down) = {} /\ Len(down) = 0
    BY DEF Quiet, Elements
  <2>2. Agrees(page.list, down, db, page.sel)
    BY <1>1, <2>1 DEF ListInv, ListPending
  <2>3. Without(down, Loads) /\ \A f : Without(down, About(i, f))
    BY <2>1 DEF Without
  <2>4. i \in Items /\ page.list[i] \in Row
    BY <1>1, PageTyped, PageParts DEF Lists
  <2>5. \A f \in Fields : Said(page.list[i], f) = Said(RowOf(db, i), f)
    BY <2>2, <2>3, <2>4 DEF Agrees
  <2>6. page.list[i].read = RowOf(db, i).read /\ page.list[i].tagged = RowOf(db, i).tagged
    BY <2>5 DEF Said, Fields
  <2>7. page.list[i] = RowOf(db, i)
    <3>1. \A a, b \in Row : a.read = b.read /\ a.tagged = b.tagged => a = b
      BY DEF Row
    <3> QED
      BY <2>4, <2>6, <3>1, RowTyped
  <2> QED
    BY <2>2, <2>3, <2>7 DEF Agrees, Within, Fitting
<1> QED
  BY TabInit, TabStep, ListInit, ListStep, <1>1, PTL DEF Spec

=============================================================================
