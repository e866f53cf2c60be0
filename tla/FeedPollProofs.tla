--------------------------- MODULE FeedPollProofs ---------------------------
(***************************************************************************)
(* What holds of the polled rows for any number of feeds, requests and     *)
(* restarts: types, the validators, the refusal limit, and that the        *)
(* detailed system implements FeedLifecycle; then what holds of them where *)
(* the poll loop is alone.                                                 *)
(***************************************************************************)
EXTENDS FeedPoll, ScheduleProofs, FiniteSetTheorems

\* An answered task carries a snapshot and a reply.
LEMMA AnsweredTask ==
  ASSUME NEW task \in Task, task.stage = "answered"
  PROVE  /\ task.snap \in Snapshot
         /\ task.reply \in Reply
BY DEF Task

\* Every task carries a snapshot.
LEMMA TaskSnapshot ==
  ASSUME NEW task \in Task
  PROVE  task.snap \in Snapshot
BY DEF Task

\* What the four kinds of answer carry.
LEMMA ReplyFields ==
  ASSUME NEW reply \in Reply
  PROVE  /\ reply.kind \in {"notModified", "retryAfter", "body", "failed"}
         /\ reply.kind = "retryAfter" => reply.wait \in Waits
         /\ reply.kind = "body" => reply.doc \in Document
         /\ reply.kind = "failed" => reply.refused \in BOOLEAN
BY DEF Reply

\* A feed read from the table is a row.
LEMMA SubscribedRow ==
  ASSUME TypeOK, NEW i \in Ids, Subscribed(i)
  PROVE  feeds[i] \in FeedRow
BY DEF TypeOK, Subscribed

\* A new subscription is a row, and not the placeholder for none.
LEMMA NewRowType ==
  ASSUME NEW u \in Urls
  PROVE  NewRow(u) \in FeedRow /\ NewRow(u) # None
<1>1. DefaultInterval \in Interval
  BY IntervalAssumption DEF Interval
<1>2. 0 <= MaxPublisher /\ 0 \in 0..FailureCap /\ 0 \in 0..MaxRefusals
  BY IntervalAssumption, PollAssumption
<1>3. NewRow(u) \in FeedRow
  BY <1>1, <1>2 DEF NewRow, FeedRow, Tag
<1> QED
  BY <1>3, NoneAssumption

\* Nothing is known about a new subscription.
LEMMA NewRowFields ==
  ASSUME NEW u \in Urls
  PROVE  /\ NewRow(u).etag = <<>>
         /\ ~NewRow(u).disabled
         /\ NewRow(u).refusals = 0
         /\ NewRow(u).failures = 0
         /\ NewRow(u).next = 0
BY DEF NewRow

\* A poll reads a snapshot.
LEMMA SnapshotType ==
  ASSUME TypeOK, NEW i \in Ids, Subscribed(i)
  PROVE  SnapshotOf(i) \in Snapshot
BY SubscribedRow DEF SnapshotOf, Snapshot, FeedRow

\* The next interval is an interval a row may hold.
LEMMA NextIntervalType ==
  ASSUME NEW current \in Interval, NEW result \in PollResults,
         NEW f \in Nat, NEW ttl \in Nat
  PROVE  NextInterval(current, result, f, ttl) \in Interval
<1>1. current \in Nat
  BY IntervalAssumption DEF Interval
<1> QED
  BY <1>1, NextIntervalBounds DEF Interval

\* Storing a document keeps the table well typed, brings its item with the
\* validator and clears the refusals.
LEMMA SuccessKeeps ==
  ASSUME TypeOK, NEW i \in Ids, Subscribed(i),
         NEW url \in Urls, NEW doc \in Document, NEW current \in Interval,
         RecordSuccess(i, url, doc, current)
  PROVE  /\ feeds' = [feeds EXCEPT ![i] = feeds'[i]]
         /\ items' = [items EXCEPT ![i] = items'[i]]
         /\ feeds'[i] \in FeedRow
         /\ items'[i] \in SUBSET Item
         /\ items[i] \subseteq items'[i]
         /\ feeds'[i].etag # <<>> => feeds'[i].etag \in items'[i]
         /\ feeds'[i].refusals = 0
         /\ feeds'[i].disabled = feeds[i].disabled
         /\ feeds'[i].failures = 0
         /\ retired' = retired
<1> DEFINE item  == <<url, doc.version>>
           found == IF item \in items[i] THEN "unchanged" ELSE "newItems"
           wait  == NextInterval(current, found, 0, doc.ttl)
           row   == [feeds[i] EXCEPT !.etag = IF doc.tagged THEN item ELSE <<>>,
                                     !.next = wait, !.interval = wait,
                                     !.failures = 0, !.refusals = 0,
                                     !.error = FALSE]
<1>1. /\ feeds' = [feeds EXCEPT ![i] = row]
      /\ items' = [items EXCEPT ![i] = items[i] \cup {item}]
      /\ retired' = retired
  BY DEF RecordSuccess
<1>2. feeds[i] \in FeedRow
  BY SubscribedRow
<1>3. doc.version \in Versions /\ doc.ttl \in Nat /\ doc.tagged \in BOOLEAN
  BY PollAssumption DEF Document
<1>4. item \in Item
  BY <1>3 DEF Item
<1>5. wait \in Interval
  BY <1>3, NextIntervalType DEF PollResults
<1>6. wait \in Int /\ wait <= MaxPublisher
  BY <1>5, IntervalAssumption DEF Interval
<1>7. 0 \in 0..FailureCap /\ 0 \in 0..MaxRefusals
  BY PollAssumption
<1>8. /\ feeds'[i] = row
      /\ items'[i] = items[i] \cup {item}
  BY <1>1 DEF TypeOK
<1> HIDE DEF item, wait
<1>9. row \in FeedRow
  BY <1>2, <1>4, <1>5, <1>6, <1>7 DEF FeedRow, Tag
<1>10. /\ row.etag # <<>> => row.etag = item
       /\ row.refusals = 0
       /\ row.failures = 0
       /\ row.disabled = feeds[i].disabled
  BY <1>2 DEF FeedRow
<1> HIDE DEF row
<1> QED
  BY <1>1, <1>4, <1>8, <1>9, <1>10 DEF TypeOK

\* A 304 reschedules the feed, clears its counters and touches nothing else.
LEMMA UnchangedKeeps ==
  ASSUME TypeOK, NEW i \in Ids, Subscribed(i), NEW snap \in Snapshot,
         RecordUnchanged(i, snap)
  PROVE  /\ feeds' = [feeds EXCEPT ![i] = feeds'[i]]
         /\ feeds'[i] \in FeedRow
         /\ feeds'[i].etag = feeds[i].etag
         /\ feeds'[i].refusals = 0
         /\ feeds'[i].disabled = feeds[i].disabled
         /\ feeds'[i].failures = 0
         /\ items' = items
         /\ retired' = retired
<1> DEFINE wait == NextInterval(snap.interval, "unchanged", 0, 0)
           row  == [feeds[i] EXCEPT !.next = wait, !.interval = wait,
                                    !.failures = 0, !.refusals = 0, !.error = FALSE]
<1>1. /\ feeds' = [feeds EXCEPT ![i] = row]
      /\ items' = items
      /\ retired' = retired
  BY DEF RecordUnchanged
<1>2. feeds[i] \in FeedRow
  BY SubscribedRow
<1>3. wait \in Interval
  BY NextIntervalType DEF PollResults, Snapshot
<1>4. wait \in Int /\ wait <= MaxPublisher
  BY <1>3, IntervalAssumption DEF Interval
<1>5. 0 \in 0..FailureCap /\ 0 \in 0..MaxRefusals
  BY PollAssumption
<1>6. feeds'[i] = row
  BY <1>1 DEF TypeOK
<1> HIDE DEF wait
<1>7. /\ row \in FeedRow
      /\ row.etag = feeds[i].etag
      /\ row.refusals = 0
      /\ row.failures = 0
      /\ row.disabled = feeds[i].disabled
  BY <1>2, <1>3, <1>4, <1>5 DEF FeedRow
<1> HIDE DEF row
<1> QED
  BY <1>1, <1>6, <1>7

\* A named wait moves the schedule of the row and nothing else.
LEMMA RetryAfterKeeps ==
  ASSUME TypeOK, NEW i \in Ids, Subscribed(i), NEW asked \in Waits,
         RecordRetryAfter(i, asked)
  PROVE  /\ feeds' = [feeds EXCEPT ![i] = feeds'[i]]
         /\ feeds'[i] = [feeds[i] EXCEPT !.next = AtMost(asked, MaxPublisher)]
         /\ feeds'[i] \in FeedRow
         /\ items' = items
         /\ retired' = retired
<1> DEFINE wait == AtMost(asked, MaxPublisher)
           row  == [feeds[i] EXCEPT !.next = wait]
<1>1. /\ feeds' = [feeds EXCEPT ![i] = row]
      /\ items' = items
      /\ retired' = retired
  BY DEF RecordRetryAfter
<1>2. feeds[i] \in FeedRow
  BY SubscribedRow
<1>3. wait \in Int /\ wait <= MaxPublisher
  BY PollAssumption, IntervalAssumption DEF AtMost
<1>4. feeds'[i] = row
  BY <1>1 DEF TypeOK
<1> HIDE DEF wait
<1>5. row \in FeedRow
  BY <1>2, <1>3 DEF FeedRow
<1>6. feeds' = [feeds EXCEPT ![i] = feeds'[i]]
  BY <1>1, <1>4
<1> QED
  BY <1>1, <1>4, <1>5, <1>6 DEF wait, row

\* A failure counts, backs off, and retires the feed at the refusal limit.
LEMMA FailureKeeps ==
  ASSUME TypeOK, NEW i \in Ids, Subscribed(i), NEW snap \in Snapshot,
         NEW refused \in BOOLEAN, RecordFailure(i, snap, refused)
  PROVE  LET retire == refused /\ feeds[i].refusals + 1 >= MaxRefusals
         IN /\ feeds' = [feeds EXCEPT ![i] = feeds'[i]]
            /\ feeds'[i] \in FeedRow
            /\ feeds'[i].etag = feeds[i].etag
            /\ feeds'[i].refusals =
                 IF refused THEN AtMost(feeds[i].refusals + 1, MaxRefusals) ELSE 0
            /\ feeds'[i].disabled = (feeds[i].disabled \/ retire)
            /\ feeds'[i].failures = AtMost(feeds[i].failures + 1, FailureCap)
            /\ feeds'[i].interval =
                 NextInterval(snap.interval, "failed", snap.failures + 1, 0)
            /\ items' = items
            /\ retired' = IF retire /\ ~feeds[i].disabled THEN retired \cup {i} ELSE retired
<1> DEFINE wait     == NextInterval(snap.interval, "failed", snap.failures + 1, 0)
           refusals == IF refused THEN AtMost(feeds[i].refusals + 1, MaxRefusals) ELSE 0
           retire   == refused /\ feeds[i].refusals + 1 >= MaxRefusals
           off      == feeds[i].disabled \/ retire
           failures == AtMost(feeds[i].failures + 1, FailureCap)
           row      == [feeds[i] EXCEPT !.next = wait, !.interval = wait,
                                        !.failures = failures,
                                        !.refusals = refusals, !.error = TRUE,
                                        !.disabled = off]
<1>1. /\ feeds' = [feeds EXCEPT ![i] = row]
      /\ items' = items
      /\ retired' = IF retire /\ ~feeds[i].disabled THEN retired \cup {i} ELSE retired
  BY DEF RecordFailure
<1>2. feeds[i] \in FeedRow
  BY SubscribedRow
<1>3. wait \in Interval
  <2>1. snap.interval \in Interval /\ snap.failures + 1 \in Nat
    BY PollAssumption DEF Snapshot
  <2> QED
    BY <2>1, NextIntervalType DEF PollResults
<1>4. wait \in Int /\ wait <= MaxPublisher
  BY <1>3, IntervalAssumption DEF Interval
<1>5. failures \in 0..FailureCap
  BY <1>2, PollAssumption DEF FeedRow, AtMost
<1>6. refusals \in 0..MaxRefusals
  BY <1>2, PollAssumption DEF FeedRow, AtMost
<1>7. off \in BOOLEAN
  BY <1>2 DEF FeedRow
<1>8. feeds'[i] = row
  BY <1>1 DEF TypeOK
<1> HIDE DEF wait, refusals, off, failures
<1>9. /\ row \in FeedRow
      /\ row.etag = feeds[i].etag
      /\ row.refusals = refusals
      /\ row.failures = failures
      /\ row.interval = wait
      /\ row.disabled = off
  BY <1>2, <1>3, <1>4, <1>5, <1>6, <1>7 DEF FeedRow
<1> HIDE DEF row
<1>10. feeds' = [feeds EXCEPT ![i] = feeds'[i]]
  BY <1>1, <1>8
<1> QED
  BY <1>1, <1>8, <1>9, <1>10 DEF wait, refusals, off, failures
-----------------------------------------------------------------------------
(* The inductive invariant. *)

\* Only a row that is there and switched off counts as retired.
RetiredIsOff == \A i \in retired : Subscribed(i) /\ feeds[i].disabled

RowsTypeOK ==
  /\ feeds \in [Ids -> FeedRow \cup {None}]
  /\ items \in [Ids -> SUBSET Item]
  /\ retired \in SUBSET Ids

\* What the invariant says of the tables ...
RowsInv == RowsTypeOK /\ ValidatorsMeanStored /\ RefusalLimit /\ RetiredIsOff

\* ... and the whole of it.
IInv == TypeOK /\ RowsInv

\* A step that writes one subscribed row, leaves the other rows and their items
\* alone, and keeps the row's own share of the invariant, keeps the invariant.
LEMMA OneRow ==
  ASSUME IInv, NEW i \in Ids, NEW row \in FeedRow, NEW stored \in SUBSET Item,
         feeds' = [feeds EXCEPT ![i] = row],
         items' = [items EXCEPT ![i] = stored],
         row.etag # <<>> => row.etag \in stored,
         ~row.disabled => row.refusals < MaxRefusals,
         retired' \in SUBSET Ids,
         retired' \subseteq retired \cup {i},
         i \in retired' => row.disabled
  PROVE  RowsInv'
<1>1. RowsTypeOK'
  BY DEF IInv, TypeOK, RowsTypeOK
<1>2. /\ feeds'[i] = row
      /\ items'[i] = stored
      /\ row # None
      /\ \A j \in Ids \ {i} : feeds'[j] = feeds[j] /\ items'[j] = items[j]
  BY NoneAssumption DEF IInv, TypeOK
<1>3. ValidatorsMeanStored'
  BY <1>2 DEF IInv, RowsInv, ValidatorsMeanStored, Subscribed
<1>4. RefusalLimit'
  BY <1>2 DEF IInv, RowsInv, RefusalLimit, Enabled, Subscribed
<1>5. RetiredIsOff'
  BY <1>2 DEF IInv, RowsInv, RetiredIsOff, Subscribed
<1> QED
  BY <1>1, <1>3, <1>4, <1>5 DEF RowsInv

\* Whatever a poll records, and however stale its snapshot, keeps the invariant.
LEMMA RecordInv ==
  ASSUME IInv, NEW i \in Ids, NEW task \in Task, task.stage = "answered",
         Record(i, task)
  PROVE  RowsInv'
<1> DEFINE snap  == task.snap
           reply == task.reply
<1>1. snap \in Snapshot /\ reply \in Reply
  BY AnsweredTask
<1>2. TypeOK
  BY DEF IInv
<1>3. CASE ~Subscribed(i)
  <2>1. UNCHANGED <<feeds, items, retired>>
    BY <1>3 DEF Record, NothingRecorded
  <2> QED
    BY <2>1 DEF IInv, RowsInv, RowsTypeOK, ValidatorsMeanStored, RefusalLimit,
                RetiredIsOff, Enabled, Subscribed
<1>4. ASSUME Subscribed(i)
      PROVE  RowsInv'
  <2>0. /\ feeds[i] \in FeedRow
        /\ items[i] \in SUBSET Item
        /\ feeds[i].etag # <<>> => feeds[i].etag \in items[i]
        /\ ~feeds[i].disabled => feeds[i].refusals < MaxRefusals
        /\ i \in retired => feeds[i].disabled
        /\ items = [items EXCEPT ![i] = items[i]]
        /\ 0 < MaxRefusals
        /\ retired \in SUBSET Ids
    BY <1>4, <1>2, SubscribedRow, PollAssumption
       DEF IInv, RowsInv, TypeOK, ValidatorsMeanStored, RefusalLimit, RetiredIsOff, Enabled
  <2>1. CASE reply.kind = "notModified" /\ RecordUnchanged(i, snap)
    <3>1. /\ feeds' = [feeds EXCEPT ![i] = feeds'[i]]
          /\ feeds'[i] \in FeedRow
          /\ feeds'[i].etag = feeds[i].etag
          /\ feeds'[i].refusals = 0
          /\ feeds'[i].disabled = feeds[i].disabled
          /\ items' = items
          /\ retired' = retired
      BY <1>1, <1>2, <1>4, <2>1, UnchangedKeeps
    <3> QED
      BY <2>0, <3>1, OneRow
  <2>2. CASE reply.kind = "retryAfter" /\ RecordRetryAfter(i, reply.wait)
    <3>1. reply.wait \in Waits
      BY <1>1, <2>2, ReplyFields
    <3>2. /\ feeds' = [feeds EXCEPT ![i] = feeds'[i]]
          /\ feeds'[i] = [feeds[i] EXCEPT !.next = AtMost(reply.wait, MaxPublisher)]
          /\ feeds'[i] \in FeedRow
          /\ items' = items
          /\ retired' = retired
      BY <1>2, <1>4, <2>2, <3>1, RetryAfterKeeps
    <3>3. /\ feeds'[i].etag = feeds[i].etag
          /\ feeds'[i].refusals = feeds[i].refusals
          /\ feeds'[i].disabled = feeds[i].disabled
      BY <2>0, <3>2 DEF FeedRow
    <3>4. /\ feeds' = [feeds EXCEPT ![i] = feeds'[i]]
          /\ feeds'[i] \in FeedRow
          /\ items' = [items EXCEPT ![i] = items[i]]
          /\ retired' = retired
      BY <2>0, <3>2
    <3> QED
      BY <2>0, <3>3, <3>4, OneRow
  <2>3. CASE reply.kind = "body" /\ RecordSuccess(i, snap.url, reply.doc, snap.interval)
    <3>1. reply.doc \in Document /\ snap.url \in Urls /\ snap.interval \in Interval
      BY <1>1, <2>3, ReplyFields DEF Snapshot
    <3>2. /\ feeds' = [feeds EXCEPT ![i] = feeds'[i]]
          /\ items' = [items EXCEPT ![i] = items'[i]]
          /\ feeds'[i] \in FeedRow
          /\ items'[i] \in SUBSET Item
          /\ feeds'[i].etag # <<>> => feeds'[i].etag \in items'[i]
          /\ feeds'[i].refusals = 0
          /\ feeds'[i].disabled = feeds[i].disabled
          /\ retired' = retired
      BY <1>2, <1>4, <2>3, <3>1, SuccessKeeps
    <3> QED
      BY <2>0, <3>2, OneRow
  <2>4. CASE reply.kind = "failed" /\ RecordFailure(i, snap, reply.refused)
    <3> DEFINE retire == reply.refused /\ feeds[i].refusals + 1 >= MaxRefusals
    <3>1. reply.refused \in BOOLEAN
      BY <1>1, <2>4, ReplyFields
    <3>2. /\ feeds' = [feeds EXCEPT ![i] = feeds'[i]]
          /\ feeds'[i] \in FeedRow
          /\ feeds'[i].etag = feeds[i].etag
          /\ feeds'[i].refusals =
               IF reply.refused THEN AtMost(feeds[i].refusals + 1, MaxRefusals) ELSE 0
          /\ feeds'[i].disabled = (feeds[i].disabled \/ retire)
          /\ items' = items
          /\ retired' = IF retire /\ ~feeds[i].disabled THEN retired \cup {i} ELSE retired
      BY <1>1, <1>2, <1>4, <2>4, <3>1, FailureKeeps
    <3>3. ~feeds'[i].disabled => feeds'[i].refusals < MaxRefusals
      BY <2>0, <3>1, <3>2, PollAssumption DEF FeedRow, AtMost
    <3>4. /\ retired' \in SUBSET Ids
          /\ retired' \subseteq retired \cup {i}
          /\ i \in retired' => feeds'[i].disabled
      BY <2>0, <3>2
    <3> QED
      BY <2>0, <3>2, <3>3, <3>4, OneRow
  <2> QED
    BY <1>4, <2>1, <2>2, <2>3, <2>4 DEF Record
<1> QED
  BY <1>3, <1>4

\* Steps that leave the three tables alone keep what the invariant says of them.
LEMMA SameRows ==
  ASSUME IInv, UNCHANGED <<feeds, items, retired>>
  PROVE  RowsInv'
BY DEF IInv, RowsInv, RowsTypeOK, ValidatorsMeanStored, RefusalLimit,
       RetiredIsOff, Enabled, Subscribed

LEMMA InitInv == Init => IInv
<1> SUFFICES ASSUME Init PROVE IInv
  OBVIOUS
<1>1. \A i \in 1..Len(Imported) : Imported[i] \in Urls
  BY PollAssumption
<1>2. feeds = [i \in Ids |-> IF i <= Len(Imported) THEN NewRow(Imported[i]) ELSE None]
  BY DEF Init
<1>3. \A i \in Ids : feeds[i] = None
         \/ \E u \in Urls : feeds[i] = NewRow(u)
  <2> SUFFICES ASSUME NEW i \in Ids, i <= Len(Imported)
               PROVE  \E u \in Urls : feeds[i] = NewRow(u)
    BY <1>2
  <2>1. i \in 1..Len(Imported)
    BY PollAssumption DEF Ids
  <2> QED
    BY <1>1, <1>2, <2>1
<1>4. feeds \in [Ids -> FeedRow \cup {None}]
  BY <1>2, <1>3, NewRowType
<1>5. TypeOK
  BY <1>4, PollAssumption DEF Init, TypeOK, Versions
<1>6. RowsTypeOK
  BY <1>5 DEF TypeOK, RowsTypeOK
<1>7. ValidatorsMeanStored
  BY <1>3, NewRowFields DEF ValidatorsMeanStored, Subscribed
<1>8. RefusalLimit
  BY <1>3, NewRowFields, PollAssumption DEF RefusalLimit, Enabled, Subscribed
<1>9. RetiredIsOff
  BY DEF Init, RetiredIsOff
<1> QED
  BY <1>5, <1>6, <1>7, <1>8, <1>9 DEF IInv, RowsInv

LEMMA TickInv == IInv /\ Tick => IInv'
<1> SUFFICES ASSUME IInv, Tick PROVE IInv'
  OBVIOUS
<1>1. PICK S \in SUBSET Due :
        batch' = [i \in Ids |-> IF i \in S THEN Queued(SnapshotOf(i)) ELSE None]
  BY DEF Tick
<1>2. \A i \in S : Queued(SnapshotOf(i)) \in Task
  <2> SUFFICES ASSUME NEW i \in S PROVE Queued(SnapshotOf(i)) \in Task
    OBVIOUS
  <2>1. i \in Ids /\ Subscribed(i)
    BY <1>1 DEF Due, Enabled
  <2>2. SnapshotOf(i) \in Snapshot
    BY <2>1, SnapshotType DEF IInv
  <2> QED
    BY <2>2 DEF Queued, Task
<1>3. batch' \in [Ids -> Task \cup {None}]
  BY <1>1, <1>2
<1>4. UNCHANGED <<feeds, items, server, requests, restarts, retired, owed>>
  BY DEF Tick
<1>5. TypeOK'
  BY <1>3, <1>4 DEF IInv, TypeOK
<1> QED
  BY <1>4, <1>5, SameRows DEF IInv

\* What a server owes us is a number of time units.
LEMMA OweType ==
  ASSUME TypeOK, NEW i \in Ids, NEW reply \in Reply
  PROVE  Owe(i, reply) \in [Ids -> Nat]
<1>1. reply.kind = "retryAfter" => AtMost(reply.wait, MaxPublisher) \in Nat
  BY ReplyFields, PollAssumption, IntervalAssumption DEF AtMost
<1> QED
  BY <1>1 DEF Owe, TypeOK

LEMMA FetchInv == ASSUME IInv, NEW i \in Ids, Fetch(i) PROVE IInv'
<1>1. PICK reply \in RepliesTo(batch[i].snap) :
        /\ batch' = [batch EXCEPT ![i] = Answered(batch[i].snap, reply)]
        /\ owed' = Owe(i, reply)
  BY DEF Fetch
<1>2. reply \in Reply /\ batch[i] \in Task
  BY DEF RepliesTo, Fetch, IInv, TypeOK
<1>3. Answered(batch[i].snap, reply) \in Task
  BY <1>2, TaskSnapshot DEF Answered, Task
<1>4. owed' \in [Ids -> Nat]
  BY <1>1, <1>2, OweType DEF IInv
<1>5. batch' \in [Ids -> Task \cup {None}]
  BY <1>1, <1>3 DEF IInv, TypeOK
<1>6. UNCHANGED <<feeds, items, server, requests, restarts, retired>>
  BY DEF Fetch
<1>7. TypeOK'
  BY <1>4, <1>5, <1>6 DEF IInv, TypeOK
<1> QED
  BY <1>6, <1>7, SameRows DEF IInv

LEMMA FinishPollInv == ASSUME IInv, NEW i \in Ids, FinishPoll(i) PROVE IInv'
<1>1. batch[i] \in Task /\ batch[i].stage = "answered" /\ Record(i, batch[i])
  BY DEF FinishPoll, IInv, TypeOK
<1>2. RowsInv'
  BY <1>1, RecordInv
<1>3. TypeOK'
  BY <1>2 DEF FinishPoll, IInv, TypeOK, RowsInv, RowsTypeOK
<1> QED
  BY <1>2, <1>3 DEF IInv

LEMMA RefreshStartInv ==
  ASSUME IInv, NEW r \in Requests, NEW i \in Ids, RefreshStart(r, i) PROVE IInv'
<1> DEFINE request == [op |-> "refresh", id |-> i, task |-> Queued(SnapshotOf(i))]
<1>1. SnapshotOf(i) \in Snapshot
  BY SnapshotType DEF RefreshStart, IInv
<1>2. request \in Request
  BY <1>1 DEF Request, Task, Queued
<1>3. TypeOK'
  BY <1>2 DEF RefreshStart, IInv, TypeOK
<1> QED
  BY <1>3, SameRows DEF IInv, RefreshStart

\* A refresh carries a row id and a task.
LEMMA RefreshFields ==
  ASSUME TypeOK, NEW r \in Requests, requests[r] # None, requests[r].op = "refresh"
  PROVE  /\ requests[r].id \in Ids
         /\ requests[r].task \in Task
         /\ requests[r] = [op |-> "refresh", id |-> requests[r].id,
                           task |-> requests[r].task]
<1>1. requests[r] \in Request
  BY DEF TypeOK
<1>2. requests[r] \in [op : {"refresh"}, id : Ids, task : Task]
  BY <1>1 DEF Request
<1> QED
  BY <1>2

LEMMA RefreshFetchInv == ASSUME IInv, NEW r \in Requests, RefreshFetch(r) PROVE IInv'
<1> DEFINE i    == requests[r].id
           task == requests[r].task
<1>1. PICK reply \in RepliesTo(task.snap) :
        /\ requests' = [requests EXCEPT ![r].task = Answered(task.snap, reply)]
        /\ owed' = Owe(i, reply)
  BY DEF RefreshFetch
<1>2. /\ i \in Ids /\ task \in Task
      /\ requests[r] = [op |-> "refresh", id |-> i, task |-> task]
  BY RefreshFields DEF RefreshFetch, IInv
<1>3. reply \in Reply
  BY DEF RepliesTo
<1>4. Answered(task.snap, reply) \in Task
  BY <1>2, <1>3, TaskSnapshot DEF Answered, Task
<1>5. owed' \in [Ids -> Nat]
  BY <1>1, <1>2, <1>3, OweType DEF IInv
<1>6. requests' \in [Requests -> Request \cup {None}]
  <2> DEFINE answer  == Answered(task.snap, reply)
             request == [op |-> "refresh", id |-> i, task |-> answer]
  <2>1. request \in Request
    BY <1>2, <1>4 DEF Request
  <2>2. requests' = [requests EXCEPT ![r] = [requests[r] EXCEPT !.task = answer]]
    BY <1>1
  <2>3. [requests[r] EXCEPT !.task = answer] = request
    <3> HIDE DEF i, task, answer
    <3> QED
      BY <1>2
  <2> QED
    BY <2>1, <2>2, <2>3 DEF IInv, TypeOK
<1>7. UNCHANGED <<feeds, items, server, batch, restarts, retired>>
  BY DEF RefreshFetch
<1>8. TypeOK'
  BY <1>5, <1>6, <1>7 DEF IInv, TypeOK
<1> QED
  BY <1>7, <1>8, SameRows DEF IInv

LEMMA RefreshFinishInv == ASSUME IInv, NEW r \in Requests, RefreshFinish(r) PROVE IInv'
<1>1. /\ requests[r].id \in Ids
      /\ requests[r].task \in Task
      /\ requests[r].task.stage = "answered"
      /\ Record(requests[r].id, requests[r].task)
  BY RefreshFields DEF RefreshFinish, IInv
<1>2. RowsInv'
  BY <1>1, RecordInv
<1>3. TypeOK'
  BY <1>2 DEF RefreshFinish, IInv, TypeOK, RowsInv, RowsTypeOK
<1> QED
  BY <1>2, <1>3 DEF IInv

\* A subscription takes an id no row has, so nothing retired is revived.
LEMMA InsertRows ==
  ASSUME IInv, NEW i \in Ids, NEW u \in Urls, InsertFeed(i, u)
  PROVE  RowsInv'
<1>1. ~Subscribed(i)
  <2> SUFFICES ASSUME Subscribed(i) PROVE FALSE
    OBVIOUS
  <2>1. i < i
    BY DEF InsertFeed, NextId
  <2> QED
    BY <2>1 DEF Ids
<1>2. i \notin retired
  BY <1>1 DEF IInv, RowsInv, RetiredIsOff
<1>3. /\ NewRow(u) \in FeedRow
      /\ NewRow(u).etag = <<>>
      /\ NewRow(u).refusals < MaxRefusals
  BY NewRowType, NewRowFields, PollAssumption
<1>4. /\ feeds' = [feeds EXCEPT ![i] = NewRow(u)]
      /\ items' = [items EXCEPT ![i] = items[i]]
      /\ items[i] \in SUBSET Item
      /\ retired' = retired
      /\ retired \in SUBSET Ids
  BY DEF InsertFeed, IInv, TypeOK
<1> QED
  BY <1>2, <1>3, <1>4, OneRow

LEMMA DiscoverInv ==
  ASSUME IInv, NEW r \in Requests, NEW u \in Urls, Discover(r, u) PROVE IInv'
<1>1. PICK doc \in Document :
        requests' = [requests EXCEPT ![r] = [op |-> "discovered", url |-> u, doc |-> doc]]
  BY DEF Discover
<1>2. [op |-> "discovered", url |-> u, doc |-> doc] \in Request
  BY DEF Request
<1>3. TypeOK'
  BY <1>1, <1>2 DEF Discover, IInv, TypeOK
<1> QED
  BY <1>3, SameRows DEF IInv, Discover

\* A request past discovery carries the url and the document it fetched.
LEMMA AddFeedFields ==
  ASSUME TypeOK, NEW r \in Requests, requests[r] # None
  PROVE  /\ requests[r].op \in {"discovered", "inserted"} =>
             requests[r].url \in Urls /\ requests[r].doc \in Document
         /\ requests[r].op = "inserted" => requests[r].id \in Ids
<1>1. requests[r] \in Request
  BY DEF TypeOK
<1> QED
  BY <1>1 DEF Request

LEMMA AddFeedInsertInv ==
  ASSUME IInv, NEW r \in Requests, AddFeedInsert(r) PROVE IInv'
<1> DEFINE url == requests[r].url
           doc == requests[r].doc
<1>1. url \in Urls /\ doc \in Document
  BY AddFeedFields DEF AddFeedInsert, IInv
<1>2. UNCHANGED <<server, batch, restarts, owed>>
  BY DEF AddFeedInsert
<1>3. ASSUME NEW i \in Ids, InsertFeed(i, url),
             requests' = [requests EXCEPT ![r] =
               [op |-> "inserted", id |-> i, url |-> url, doc |-> doc]]
      PROVE  IInv'
  <2>1. RowsInv'
    BY <1>1, <1>3, InsertRows
  <2>2. [op |-> "inserted", id |-> i, url |-> url, doc |-> doc] \in Request
    BY <1>1 DEF Request
  <2>3. TypeOK'
    BY <1>2, <1>3, <2>1, <2>2 DEF IInv, TypeOK, RowsInv, RowsTypeOK
  <2> QED
    BY <2>1, <2>3 DEF IInv
<1>4. ASSUME requests' = [requests EXCEPT ![r] = None], NothingRecorded
      PROVE  IInv'
  <2>1. TypeOK'
    BY <1>2, <1>4 DEF IInv, TypeOK, NothingRecorded
  <2> QED
    BY <1>4, <2>1, SameRows DEF IInv, NothingRecorded
<1> QED
  BY <1>3, <1>4 DEF AddFeedInsert

LEMMA AddFeedRecordInv ==
  ASSUME IInv, NEW r \in Requests, AddFeedRecord(r) PROVE IInv'
<1> DEFINE i   == requests[r].id
           url == requests[r].url
           doc == requests[r].doc
<1>1. i \in Ids /\ url \in Urls /\ doc \in Document
  BY AddFeedFields DEF AddFeedRecord, IInv
<1>2. DefaultInterval \in Interval
  BY IntervalAssumption DEF Interval
<1>3. RowsInv'
  <2>1. ASSUME Subscribed(i), RecordSuccess(i, url, doc, DefaultInterval)
        PROVE  RowsInv'
    <3>1. /\ feeds' = [feeds EXCEPT ![i] = feeds'[i]]
          /\ items' = [items EXCEPT ![i] = items'[i]]
          /\ feeds'[i] \in FeedRow
          /\ items'[i] \in SUBSET Item
          /\ feeds'[i].etag # <<>> => feeds'[i].etag \in items'[i]
          /\ feeds'[i].refusals = 0
          /\ feeds'[i].disabled = feeds[i].disabled
          /\ retired' = retired
      BY <1>1, <1>2, <2>1, SuccessKeeps DEF IInv
    <3>2. /\ retired \in SUBSET Ids
          /\ i \in retired => feeds[i].disabled
          /\ 0 < MaxRefusals
      BY PollAssumption DEF IInv, RowsInv, TypeOK, RetiredIsOff
    <3> QED
      BY <1>1, <3>1, <3>2, OneRow
  <2>2. ASSUME NothingRecorded PROVE RowsInv'
    BY <2>2, SameRows DEF NothingRecorded
  <2> QED
    BY <2>1, <2>2 DEF AddFeedRecord
<1>4. TypeOK'
  BY <1>3 DEF AddFeedRecord, IInv, TypeOK, RowsInv, RowsTypeOK
<1> QED
  BY <1>3, <1>4 DEF IInv

LEMMA ImportFeedInv == ASSUME IInv, NEW u \in Urls, ImportFeed(u) PROVE IInv'
<1>1. RowsInv'
  BY InsertRows DEF ImportFeed
<1>2. TypeOK'
  BY <1>1 DEF ImportFeed, IInv, TypeOK, RowsInv, RowsTypeOK
<1> QED
  BY <1>1, <1>2 DEF IInv

LEMMA SetDisabledInv == ASSUME IInv, NEW i \in Ids, SetDisabled(i) PROVE IInv'
<1> DEFINE row == [feeds[i] EXCEPT !.disabled = TRUE]
<1>1. feeds[i] \in FeedRow
  BY SubscribedRow DEF SetDisabled, IInv
<1>2. row \in FeedRow /\ row.disabled /\ row.etag = feeds[i].etag
  BY <1>1 DEF FeedRow
<1>3. feeds' = [feeds EXCEPT ![i] = row]
  BY DEF SetDisabled
<1> HIDE DEF row
<1>4. /\ items' = [items EXCEPT ![i] = items[i]]
      /\ items[i] \in SUBSET Item
      /\ feeds[i].etag # <<>> => feeds[i].etag \in items[i]
      /\ retired' = retired
      /\ retired \in SUBSET Ids
  BY DEF SetDisabled, IInv, TypeOK, RowsInv, ValidatorsMeanStored
<1>5. RowsInv'
  BY <1>2, <1>3, <1>4, OneRow
<1>6. TypeOK'
  BY <1>5 DEF SetDisabled, IInv, TypeOK, RowsInv, RowsTypeOK
<1> QED
  BY <1>5, <1>6 DEF IInv

\* A re-enabled row is a row that is on, with a clean slate.
LEMMA ReEnabledRow ==
  ASSUME NEW old \in FeedRow
  PROVE  LET row == [old EXCEPT !.disabled = FALSE, !.refusals = 0,
                                !.failures = 0, !.next = 0]
         IN /\ row \in FeedRow
            /\ ~row.disabled
            /\ row.refusals = 0
            /\ row.failures = 0
            /\ row.etag = old.etag
<1> DEFINE on  == [old EXCEPT !.disabled = FALSE]
           row == [on EXCEPT !.refusals = 0, !.failures = 0, !.next = 0]
<1>1. /\ 0 \in 0..FailureCap /\ 0 \in 0..MaxRefusals
      /\ 0 \in {n \in Int : n <= MaxPublisher}
  BY PollAssumption, IntervalAssumption
<1>2. on \in FeedRow /\ ~on.disabled /\ on.etag = old.etag
  BY DEF FeedRow
<1> HIDE DEF on
<1>3. row \in FeedRow
  BY <1>1, <1>2 DEF FeedRow
<1>4. row.refusals = 0 /\ row.failures = 0 /\ row.etag = on.etag
      /\ row.disabled = on.disabled
  BY <1>2 DEF FeedRow
<1>5. row = [old EXCEPT !.disabled = FALSE, !.refusals = 0, !.failures = 0, !.next = 0]
  BY DEF on
<1> HIDE DEF row
<1> QED
  BY <1>2, <1>3, <1>4, <1>5

LEMMA ReEnableInv == ASSUME IInv, NEW i \in Ids, ReEnable(i) PROVE IInv'
<1> DEFINE row == [feeds[i] EXCEPT !.disabled = FALSE, !.refusals = 0,
                                   !.failures = 0, !.next = 0]
<1>1. feeds[i] \in FeedRow
  BY SubscribedRow DEF ReEnable, IInv
<1>2. 0 < MaxRefusals
  BY PollAssumption
<1>3. row \in FeedRow /\ row.refusals = 0 /\ row.etag = feeds[i].etag
  BY <1>1, ReEnabledRow
<1>4. feeds' = [feeds EXCEPT ![i] = row]
  BY DEF ReEnable
<1> HIDE DEF row
<1>5. /\ items' = [items EXCEPT ![i] = items[i]]
      /\ items[i] \in SUBSET Item
      /\ feeds[i].etag # <<>> => feeds[i].etag \in items[i]
      /\ retired' = retired \ {i}
      /\ retired \in SUBSET Ids
  BY DEF ReEnable, IInv, TypeOK, RowsInv, ValidatorsMeanStored
<1>6. RowsInv'
  BY <1>2, <1>3, <1>4, <1>5, OneRow
<1>7. TypeOK'
  BY <1>6 DEF ReEnable, IInv, TypeOK, RowsInv, RowsTypeOK
<1> QED
  BY <1>6, <1>7 DEF IInv

LEMMA DeleteFeedInv == ASSUME IInv, NEW i \in Ids, DeleteFeed(i) PROVE IInv'
<1>1. TypeOK'
  BY DEF DeleteFeed, IInv, TypeOK
<1>2. /\ ~Subscribed(i)'
      /\ i \notin retired'
      /\ \A j \in Ids \ {i} : feeds'[j] = feeds[j] /\ items'[j] = items[j]
      /\ retired' \subseteq retired
  BY DEF DeleteFeed, IInv, TypeOK, Subscribed
<1>3. RowsInv'
  BY <1>1, <1>2 DEF IInv, TypeOK, RowsInv, RowsTypeOK, ValidatorsMeanStored,
                    RefusalLimit, RetiredIsOff, Enabled, Subscribed
<1> QED
  BY <1>1, <1>3 DEF IInv

LEMMA PublishInv == ASSUME IInv, NEW u \in Urls, Publish(u) PROVE IInv'
<1>1. server[u] + 1 \in Versions
  BY PollAssumption DEF Publish, IInv, TypeOK, Versions
<1>2. TypeOK'
  BY <1>1 DEF Publish, IInv, TypeOK
<1> QED
  BY <1>2, SameRows DEF IInv, Publish

LEMMA RestartInv == IInv /\ Restart => IInv'
<1> SUFFICES ASSUME IInv, Restart PROVE IInv'
  OBVIOUS
<1>1. restarts' \in 0..MaxRestarts
  BY PollAssumption DEF Restart, IInv, TypeOK
<1>2. owed' \in [Ids -> Nat]
  BY DEF Restart, IInv, TypeOK
<1>3. TypeOK'
  BY <1>1, <1>2 DEF Restart, IInv, TypeOK
<1> QED
  BY <1>3, SameRows DEF IInv, Restart

\* One unit of time later a row differs in its wait only, and a wait that is not
\* over is one unit shorter.
LEMMA ElapseRow ==
  ASSUME TypeOK, Elapse, NEW i \in Ids
  PROVE  /\ ~Subscribed(i) => feeds'[i] = None
         /\ Subscribed(i) =>
              /\ feeds'[i] \in FeedRow
              /\ feeds'[i] = [feeds[i] EXCEPT !.next = feeds'[i].next]
              /\ feeds[i].next >= 1 => feeds'[i].next = feeds[i].next - 1
<1> DEFINE waited(j) == feeds[j].next - 1
           behind    == {k \in Ids : Subscribed(k) /\ waited(k) < 0 /\ waited(i) < waited(k)}
           after     == {waited(j) : j \in behind}
           left      == IF waited(i) >= 0 THEN waited(i) ELSE 0 - (1 + Cardinality(after))
           row       == [feeds[i] EXCEPT !.next = left]
<1>1. feeds'[i] = IF Subscribed(i) THEN row ELSE None
  BY DEF Elapse
<1>2. Cardinality(after) \in Nat
  <2> DEFINE f == [k \in behind |-> waited(k)]
  <2>1. IsFiniteSet(Ids)
    BY FS_Interval, PollAssumption DEF Ids
  <2>2. IsFiniteSet(behind)
    BY <2>1, FS_Subset
  <2>3. f \in Surjection(behind, after)
    BY DEF Surjection
  <2>4. IsFiniteSet(after)
    BY <2>2, <2>3, FS_Surjection
  <2> QED
    BY <2>4, FS_CardinalityType
<1> HIDE DEF after
<1>3. ASSUME Subscribed(i)
      PROVE  /\ row \in FeedRow
             /\ row.next = left
             /\ feeds[i].next >= 1 => left = feeds[i].next - 1
  <2>1. feeds[i] \in FeedRow
    BY <1>3, SubscribedRow
  <2>2. feeds[i].next \in Int /\ feeds[i].next <= MaxPublisher
    BY <2>1 DEF FeedRow
  <2>3. left \in Int /\ left <= MaxPublisher
    BY <1>2, <2>2, IntervalAssumption
  <2>4. feeds[i].next >= 1 => left = feeds[i].next - 1
    BY <2>2
  <2> HIDE DEF left
  <2>5. row \in FeedRow /\ row.next = left
    BY <2>1, <2>3 DEF FeedRow
  <2> QED
    BY <2>4, <2>5
<1> HIDE DEF left
<1> QED
  BY <1>1, <1>3

LEMMA ElapseInv == IInv /\ Elapse => IInv'
<1> SUFFICES ASSUME IInv, Elapse PROVE IInv'
  OBVIOUS
<1>1. UNCHANGED <<items, server, batch, requests, restarts, retired>>
  BY DEF Elapse
<1>2. owed' \in [Ids -> Nat]
  <2>1. owed' = [i \in Ids |-> AtLeast(owed[i] - 1, 0)]
    BY DEF Elapse
  <2>2. \A i \in Ids : AtLeast(owed[i] - 1, 0) \in Nat
    BY DEF IInv, TypeOK, AtLeast
  <2> QED
    BY <2>1, <2>2
<1>3. \A i \in Ids :
        /\ ~Subscribed(i) => feeds'[i] = None
        /\ Subscribed(i) =>
             /\ feeds'[i] \in FeedRow
             /\ feeds'[i].etag = feeds[i].etag
             /\ feeds'[i].refusals = feeds[i].refusals
             /\ feeds'[i].disabled = feeds[i].disabled
  <2> SUFFICES ASSUME NEW i \in Ids, Subscribed(i)
               PROVE  /\ feeds'[i] \in FeedRow
                      /\ feeds'[i].etag = feeds[i].etag
                      /\ feeds'[i].refusals = feeds[i].refusals
                      /\ feeds'[i].disabled = feeds[i].disabled
    BY ElapseRow DEF IInv
  <2> DEFINE next == feeds'[i].next
  <2>1. feeds'[i] \in FeedRow /\ feeds'[i] = [feeds[i] EXCEPT !.next = next]
    BY ElapseRow DEF IInv
  <2>2. feeds[i] \in FeedRow
    BY SubscribedRow DEF IInv
  <2> HIDE DEF next
  <2> QED
    BY <2>1, <2>2 DEF FeedRow
<1>4. feeds' \in [Ids -> FeedRow \cup {None}]
  <2>1. \E F : feeds' = [i \in Ids |-> F[i]]
    <3>1. feeds' = [i \in Ids |-> feeds'[i]]
      BY DEF Elapse
    <3> QED
      BY <3>1
  <2> QED
    BY <1>3, <2>1
<1>5. TypeOK'
  BY <1>1, <1>2, <1>4 DEF IInv, TypeOK
<1>6. RowsInv'
  BY <1>1, <1>3, <1>5, NoneAssumption
     DEF IInv, TypeOK, RowsInv, RowsTypeOK, ValidatorsMeanStored, RefusalLimit,
         RetiredIsOff, Enabled, Subscribed
<1> QED
  BY <1>5, <1>6 DEF IInv

\* The invariant is inductive.
LEMMA NextInv == IInv /\ [Next]_pollVars => IInv'
<1> SUFFICES ASSUME IInv, [Next]_pollVars PROVE IInv'
  OBVIOUS
<1>1. CASE Tick
  BY <1>1, TickInv
<1>2. ASSUME NEW i \in Ids, Fetch(i) \/ FinishPoll(i) PROVE IInv'
  BY <1>2, FetchInv, FinishPollInv
<1>3. ASSUME NEW r \in Requests, NEW i \in Ids, RefreshStart(r, i) PROVE IInv'
  BY <1>3, RefreshStartInv
<1>4. ASSUME NEW r \in Requests, RefreshFetch(r) \/ RefreshFinish(r) PROVE IInv'
  BY <1>4, RefreshFetchInv, RefreshFinishInv
<1>5. ASSUME NEW r \in Requests, NEW u \in Urls, Discover(r, u) PROVE IInv'
  BY <1>5, DiscoverInv
<1>6. ASSUME NEW r \in Requests, AddFeedInsert(r) \/ AddFeedRecord(r) PROVE IInv'
  BY <1>6, AddFeedInsertInv, AddFeedRecordInv
<1>7. ASSUME NEW u \in Urls, ImportFeed(u) \/ Publish(u) PROVE IInv'
  BY <1>7, ImportFeedInv, PublishInv
<1>8. ASSUME NEW i \in Ids, SetDisabled(i) \/ ReEnable(i) \/ DeleteFeed(i) PROVE IInv'
  BY <1>8, SetDisabledInv, ReEnableInv, DeleteFeedInv
<1>9. CASE Elapse
  BY <1>9, ElapseInv
<1>10. CASE Restart
  BY <1>10, RestartInv
<1>11. CASE UNCHANGED pollVars
  <2>1. TypeOK'
    BY <1>11 DEF pollVars, IInv, TypeOK
  <2> QED
    BY <1>11, <2>1, SameRows DEF IInv, pollVars
<1> QED
  BY <1>1, <1>2, <1>3, <1>4, <1>5, <1>6, <1>7, <1>8, <1>9, <1>10, <1>11 DEF Next

LEMMA Invariance == Spec => []IInv
BY InitInv, NextInv, PTL DEF Spec

\* Rows, tasks and requests stay within their types: intervals between the floor
\* and the publisher's ceiling, counters within their bounds.
THEOREM TypeCorrect == Spec => []TypeOK
<1>1. IInv => TypeOK
  BY DEF IInv
<1> QED
  BY <1>1, Invariance, PTL

\* A stored validator stands for stored items, however polls, refreshes,
\* deletions and restarts interleave.
THEOREM ValidatorsCorrect == Spec => []ValidatorsMeanStored
<1>1. IInv => ValidatorsMeanStored
  BY DEF IInv, RowsInv
<1> QED
  BY <1>1, Invariance, PTL

\* No enabled feed ever carries as many refusals as retire one.
THEOREM RefusalLimitCorrect == Spec => []RefusalLimit
<1>1. IInv => RefusalLimit
  BY DEF IInv, RowsInv
<1> QED
  BY <1>1, Invariance, PTL
-----------------------------------------------------------------------------
(* The polled system implements FeedLifecycle. *)

LEMMA LifecycleInit == Init => Lifecycle!Init
<1> SUFFICES ASSUME Init PROVE Lifecycle!Init
  OBVIOUS
<1>1. \A i \in Ids : feeds[i] = None
         \/ \E u \in Urls : feeds[i] = NewRow(u)
  <2>1. \A i \in 1..Len(Imported) : Imported[i] \in Urls
    BY PollAssumption
  <2>2. \A i \in Ids : i <= Len(Imported) => i \in 1..Len(Imported)
    BY PollAssumption DEF Ids
  <2> QED
    BY <2>1, <2>2 DEF Init
<1>2. \A i \in Ids : StatusOf(i) \in {"absent", "active"} /\ StrikesOf(i) = 0
  BY <1>1, NewRowFields DEF StatusOf, StrikesOf, Enabled, Subscribed
<1> QED
  BY <1>2 DEF Lifecycle!Init

\* A step after which every feed looks the same is a stuttering step.
LEMMA LifecycleStutter ==
  ASSUME \A i \in Ids : StatusOf(i)' = StatusOf(i) /\ StrikesOf(i)' = StrikesOf(i)
  PROVE  [Lifecycle!Next]_(Lifecycle!lifecycleVars)
BY DEF Lifecycle!lifecycleVars

LEMMA LifecycleSameRows ==
  ASSUME UNCHANGED <<feeds, retired>>
  PROVE  [Lifecycle!Next]_(Lifecycle!lifecycleVars)
<1>1. \A i \in Ids : StatusOf(i)' = StatusOf(i) /\ StrikesOf(i)' = StrikesOf(i)
  BY DEF StatusOf, StrikesOf, Enabled, Subscribed
<1> QED
  BY <1>1, LifecycleStutter

\* A step that touches one row moves that feed alone.
LEMMA LifecycleMove ==
  ASSUME NEW i \in Ids,
         \A j \in Ids \ {i} : feeds'[j] = feeds[j] /\ (j \in retired' <=> j \in retired)
  PROVE  Lifecycle!Become(i, StatusOf(i)', StrikesOf(i)')
<1>1. \A j \in Ids \ {i} : StatusOf(j)' = StatusOf(j) /\ StrikesOf(j)' = StrikesOf(j)
  BY DEF StatusOf, StrikesOf, Enabled, Subscribed
<1> QED
  BY <1>1 DEF Lifecycle!Become

\* An answer that is no refusal forgives an enabled feed and changes nothing
\* about a disabled one.
LEMMA LifecycleForgive ==
  ASSUME IInv, NEW i \in Ids, Subscribed(i), Subscribed(i)',
         \A j \in Ids \ {i} : feeds'[j] = feeds[j],
         feeds'[i].disabled = feeds[i].disabled,
         feeds'[i].refusals = 0,
         retired' = retired
  PROVE  [Lifecycle!Next]_(Lifecycle!lifecycleVars)
<1>1. CASE Enabled(i)
  <2>1. StatusOf(i) = "active" /\ StatusOf(i)' = "active" /\ StrikesOf(i)' = 0
    BY <1>1 DEF StatusOf, StrikesOf, Enabled, Subscribed
  <2>2. Lifecycle!Forgive(i)
    BY <2>1, LifecycleMove DEF Lifecycle!Forgive
  <2> QED
    BY <2>2 DEF Lifecycle!Next
<1>2. CASE ~Enabled(i)
  <2>1. \A j \in Ids : StatusOf(j)' = StatusOf(j) /\ StrikesOf(j)' = StrikesOf(j)
    BY <1>2 DEF StatusOf, StrikesOf, Enabled, Subscribed
  <2> QED
    BY <2>1, LifecycleStutter
<1> QED
  BY <1>1, <1>2

\* A failure strikes or retires an enabled feed if the server refused it,
\* forgives it if not, and changes nothing about a disabled one.
LEMMA LifecycleFailure ==
  ASSUME IInv, NEW i \in Ids, Subscribed(i), NEW snap \in Snapshot,
         NEW refused \in BOOLEAN, RecordFailure(i, snap, refused)
  PROVE  [Lifecycle!Next]_(Lifecycle!lifecycleVars)
<1> DEFINE retire == refused /\ feeds[i].refusals + 1 >= MaxRefusals
<1>1. /\ feeds' = [feeds EXCEPT ![i] = feeds'[i]]
      /\ feeds'[i] \in FeedRow
      /\ feeds'[i].refusals =
           IF refused THEN AtMost(feeds[i].refusals + 1, MaxRefusals) ELSE 0
      /\ feeds'[i].disabled = (feeds[i].disabled \/ retire)
      /\ retired' = IF retire /\ ~feeds[i].disabled THEN retired \cup {i} ELSE retired
  BY FailureKeeps DEF IInv
<1>2. /\ \A j \in Ids \ {i} : feeds'[j] = feeds[j] /\ (j \in retired' <=> j \in retired)
      /\ Subscribed(i)'
  BY <1>1, NoneAssumption DEF IInv, TypeOK, Subscribed
<1>3. /\ feeds[i] \in FeedRow
      /\ Enabled(i) => feeds[i].refusals < MaxRefusals
      /\ Enabled(i) => i \notin retired
  BY SubscribedRow DEF IInv, RowsInv, RefusalLimit, RetiredIsOff, Enabled
<1>4. feeds[i].refusals \in Nat /\ MaxRefusals \in Nat
  BY <1>3, PollAssumption DEF FeedRow
<1>5. CASE ~Enabled(i)
  <2>1. feeds[i].disabled /\ feeds'[i].disabled /\ retired' = retired
    BY <1>1, <1>5 DEF Enabled
  <2>2. \A j \in Ids : StatusOf(j)' = StatusOf(j) /\ StrikesOf(j)' = StrikesOf(j)
    BY <1>2, <2>1 DEF StatusOf, StrikesOf, Enabled, Subscribed
  <2> QED
    BY <2>2, LifecycleStutter
<1>6. CASE Enabled(i) /\ ~refused
  <2>1. StatusOf(i) = "active" /\ StatusOf(i)' = "active" /\ StrikesOf(i)' = 0
    BY <1>1, <1>2, <1>6 DEF StatusOf, StrikesOf, Enabled, Subscribed
  <2>2. Lifecycle!Forgive(i)
    BY <1>2, <2>1, LifecycleMove DEF Lifecycle!Forgive
  <2> QED
    BY <2>2 DEF Lifecycle!Next
<1>7. CASE Enabled(i) /\ refused /\ ~retire
  <2>1. feeds[i].refusals + 1 < MaxRefusals /\ feeds'[i].refusals = feeds[i].refusals + 1
    BY <1>1, <1>4, <1>7 DEF AtMost
  <2>2. /\ StatusOf(i) = "active" /\ StatusOf(i)' = "active"
        /\ StrikesOf(i) = feeds[i].refusals
        /\ StrikesOf(i)' = feeds[i].refusals + 1
    BY <1>1, <1>2, <1>7, <2>1 DEF StatusOf, StrikesOf, Enabled, Subscribed
  <2>3. Lifecycle!Strike(i)
    BY <1>2, <2>1, <2>2, LifecycleMove DEF Lifecycle!Strike
  <2> QED
    BY <2>3 DEF Lifecycle!Next
<1>8. CASE Enabled(i) /\ retire
  <2>1. feeds[i].refusals + 1 = MaxRefusals
    BY <1>3, <1>4, <1>8
  <2>2. /\ StatusOf(i) = "active" /\ StatusOf(i)' = "retired"
        /\ StrikesOf(i) = feeds[i].refusals
        /\ StrikesOf(i)' = 0
    BY <1>1, <1>2, <1>8 DEF StatusOf, StrikesOf, Enabled, Subscribed
  <2>3. Lifecycle!Retire(i)
    BY <1>2, <2>1, <2>2, LifecycleMove DEF Lifecycle!Retire
  <2> QED
    BY <2>3 DEF Lifecycle!Next
<1> QED
  BY <1>5, <1>6, <1>7, <1>8

\* Storing a document is the lifecycle's forgiveness.
LEMMA LifecycleSuccess ==
  ASSUME IInv, NEW i \in Ids, Subscribed(i),
         NEW url \in Urls, NEW doc \in Document, NEW current \in Interval,
         RecordSuccess(i, url, doc, current)
  PROVE  [Lifecycle!Next]_(Lifecycle!lifecycleVars)
<1>1. /\ feeds' = [feeds EXCEPT ![i] = feeds'[i]]
      /\ feeds'[i] \in FeedRow
      /\ feeds'[i].refusals = 0
      /\ feeds'[i].disabled = feeds[i].disabled
      /\ retired' = retired
  BY SuccessKeeps DEF IInv
<1>2. Subscribed(i)' /\ \A j \in Ids \ {i} : feeds'[j] = feeds[j]
  BY <1>1, NoneAssumption DEF IInv, TypeOK, Subscribed
<1> QED
  BY <1>1, <1>2, LifecycleForgive

\* Whatever a poll records is a step of the lifecycle.
LEMMA LifecycleRecord ==
  ASSUME IInv, NEW i \in Ids, NEW task \in Task, task.stage = "answered",
         Record(i, task)
  PROVE  [Lifecycle!Next]_(Lifecycle!lifecycleVars)
<1> DEFINE snap  == task.snap
           reply == task.reply
<1>1. snap \in Snapshot /\ reply \in Reply
  BY AnsweredTask
<1>2. CASE ~Subscribed(i)
  BY <1>2, LifecycleSameRows DEF Record, NothingRecorded
<1>3. CASE Subscribed(i) /\ reply.kind = "notModified" /\ RecordUnchanged(i, snap)
  <2>1. /\ feeds' = [feeds EXCEPT ![i] = feeds'[i]]
        /\ feeds'[i] \in FeedRow
        /\ feeds'[i].refusals = 0
        /\ feeds'[i].disabled = feeds[i].disabled
        /\ retired' = retired
    BY <1>1, <1>3, UnchangedKeeps DEF IInv
  <2>2. Subscribed(i)' /\ \A j \in Ids \ {i} : feeds'[j] = feeds[j]
    BY <2>1, NoneAssumption DEF IInv, TypeOK, Subscribed
  <2> QED
    BY <1>3, <2>1, <2>2, LifecycleForgive
<1>4. CASE Subscribed(i) /\ reply.kind = "retryAfter" /\ RecordRetryAfter(i, reply.wait)
  <2>1. reply.wait \in Waits
    BY <1>1, <1>4, ReplyFields
  <2>2. /\ feeds' = [feeds EXCEPT ![i] = feeds'[i]]
        /\ feeds'[i] = [feeds[i] EXCEPT !.next = AtMost(reply.wait, MaxPublisher)]
        /\ feeds'[i] \in FeedRow
        /\ retired' = retired
    BY <1>4, <2>1, RetryAfterKeeps DEF IInv
  <2>3. feeds[i] \in FeedRow
    BY <1>4, SubscribedRow DEF IInv
  <2>4. /\ feeds'[i].refusals = feeds[i].refusals
        /\ feeds'[i].disabled = feeds[i].disabled
    BY <2>2, <2>3 DEF FeedRow
  <2>5. Subscribed(i)' /\ \A j \in Ids \ {i} : feeds'[j] = feeds[j]
    BY <2>2, NoneAssumption DEF IInv, TypeOK, Subscribed
  <2>6. \A j \in Ids : StatusOf(j)' = StatusOf(j) /\ StrikesOf(j)' = StrikesOf(j)
    <3>1. retired' = retired
      BY <2>2
    <3> QED
      BY <1>4, <2>4, <2>5, <3>1 DEF StatusOf, StrikesOf, Enabled, Subscribed
  <2> QED
    BY <2>6, LifecycleStutter
<1>5. CASE Subscribed(i) /\ reply.kind = "body"
             /\ RecordSuccess(i, snap.url, reply.doc, snap.interval)
  <2>1. reply.doc \in Document /\ snap.url \in Urls /\ snap.interval \in Interval
    BY <1>1, <1>5, ReplyFields DEF Snapshot
  <2> QED
    BY <1>5, <2>1, LifecycleSuccess
<1>6. CASE Subscribed(i) /\ reply.kind = "failed" /\ RecordFailure(i, snap, reply.refused)
  BY <1>1, <1>6, ReplyFields, LifecycleFailure
<1> QED
  BY <1>2, <1>3, <1>4, <1>5, <1>6 DEF Record

\* A new row is a new subscription.
LEMMA LifecycleInsert ==
  ASSUME IInv, NEW i \in Ids, NEW u \in Urls, InsertFeed(i, u)
  PROVE  [Lifecycle!Next]_(Lifecycle!lifecycleVars)
<1>1. ~Subscribed(i)
  <2> SUFFICES ASSUME Subscribed(i) PROVE FALSE
    OBVIOUS
  <2>1. i < i
    BY DEF InsertFeed, NextId
  <2> QED
    BY <2>1 DEF Ids
<1>2. feeds' = [feeds EXCEPT ![i] = NewRow(u)] /\ retired' = retired
  BY DEF InsertFeed
<1>3. feeds'[i] = NewRow(u) /\ \A j \in Ids \ {i} : feeds'[j] = feeds[j]
  BY <1>2 DEF IInv, TypeOK
<1>4. StatusOf(i) = "absent" /\ StatusOf(i)' = "active" /\ StrikesOf(i)' = 0
  BY <1>1, <1>3, NewRowType, NewRowFields DEF StatusOf, StrikesOf, Enabled, Subscribed
<1>5. Lifecycle!Subscribe(i)
  BY <1>2, <1>3, <1>4, LifecycleMove DEF Lifecycle!Subscribe
<1> QED
  BY <1>5 DEF Lifecycle!Next

LEMMA LifecycleSwitch ==
  ASSUME IInv, NEW i \in Ids, SetDisabled(i) \/ ReEnable(i) \/ DeleteFeed(i)
  PROVE  [Lifecycle!Next]_(Lifecycle!lifecycleVars)
<1>1. ASSUME SetDisabled(i) PROVE [Lifecycle!Next]_(Lifecycle!lifecycleVars)
  <2> DEFINE row == [feeds[i] EXCEPT !.disabled = TRUE]
  <2>1. feeds[i] \in FeedRow /\ Subscribed(i)
    BY <1>1, SubscribedRow DEF SetDisabled, IInv
  <2>2. row \in FeedRow /\ row.disabled
    BY <2>1 DEF FeedRow
  <2>3. feeds' = [feeds EXCEPT ![i] = row] /\ retired' = retired
    BY <1>1 DEF SetDisabled
  <2> HIDE DEF row
  <2>4. /\ feeds'[i] = row /\ row # None
        /\ \A j \in Ids \ {i} : feeds'[j] = feeds[j]
    BY <2>2, <2>3, NoneAssumption DEF IInv, TypeOK
  <2>5. CASE Enabled(i)
    <3>1. i \notin retired
      BY <2>5 DEF IInv, RowsInv, RetiredIsOff, Enabled
    <3>2. StatusOf(i) = "active" /\ StatusOf(i)' = "paused" /\ StrikesOf(i)' = 0
      BY <2>2, <2>3, <2>4, <2>5, <3>1 DEF StatusOf, StrikesOf, Enabled, Subscribed
    <3>3. Lifecycle!Pause(i)
      BY <2>3, <2>4, <3>2, LifecycleMove DEF Lifecycle!Pause
    <3> QED
      BY <3>3 DEF Lifecycle!Next
  <2>6. CASE ~Enabled(i)
    <3>1. \A j \in Ids : StatusOf(j)' = StatusOf(j) /\ StrikesOf(j)' = StrikesOf(j)
      BY <2>1, <2>2, <2>3, <2>4, <2>6 DEF StatusOf, StrikesOf, Enabled, Subscribed
    <3> QED
      BY <3>1, LifecycleStutter
  <2> QED
    BY <2>5, <2>6
<1>2. ASSUME ReEnable(i) PROVE [Lifecycle!Next]_(Lifecycle!lifecycleVars)
  <2> DEFINE row == [feeds[i] EXCEPT !.disabled = FALSE, !.refusals = 0,
                                     !.failures = 0, !.next = 0]
  <2>1. feeds[i] \in FeedRow /\ Subscribed(i)
    BY <1>2, SubscribedRow DEF ReEnable, IInv
  <2>2. row \in FeedRow /\ ~row.disabled /\ row.refusals = 0
    BY <2>1, ReEnabledRow
  <2>3. feeds' = [feeds EXCEPT ![i] = row] /\ retired' = retired \ {i}
    BY <1>2 DEF ReEnable
  <2> HIDE DEF row
  <2>4. feeds'[i] = row /\ \A j \in Ids \ {i} : feeds'[j] = feeds[j]
    BY <2>3 DEF IInv, TypeOK
  <2>5. Subscribed(i)'
    BY <2>2, <2>4, NoneAssumption DEF Subscribed
  <2>6. StatusOf(i) \in {"active", "paused", "retired"}
        /\ StatusOf(i)' = "active" /\ StrikesOf(i)' = 0
    BY <2>1, <2>2, <2>4, <2>5 DEF StatusOf, StrikesOf, Enabled, Subscribed
  <2>7. Lifecycle!Resume(i)
    BY <2>3, <2>4, <2>6, LifecycleMove DEF Lifecycle!Resume
  <2> QED
    BY <2>7 DEF Lifecycle!Next
<1>3. ASSUME DeleteFeed(i) PROVE [Lifecycle!Next]_(Lifecycle!lifecycleVars)
  <2>1. /\ feeds'[i] = None
        /\ \A j \in Ids \ {i} : feeds'[j] = feeds[j] /\ (j \in retired' <=> j \in retired)
    BY <1>3 DEF DeleteFeed, IInv, TypeOK
  <2>2. StatusOf(i) # "absent" /\ StatusOf(i)' = "absent" /\ StrikesOf(i)' = 0
    BY <1>3, <2>1 DEF DeleteFeed, StatusOf, StrikesOf, Enabled, Subscribed
  <2>3. Lifecycle!Unsubscribe(i)
    BY <2>1, <2>2, LifecycleMove DEF Lifecycle!Unsubscribe
  <2> QED
    BY <2>3 DEF Lifecycle!Next
<1> QED
  BY <1>1, <1>2, <1>3

\* Time changes what is due and nothing a reader sees of a subscription.
LEMMA LifecycleElapse ==
  ASSUME IInv, Elapse
  PROVE  [Lifecycle!Next]_(Lifecycle!lifecycleVars)
<1>1. \A i \in Ids :
        /\ ~Subscribed(i) => feeds'[i] = None
        /\ Subscribed(i) =>
             /\ feeds'[i] \in FeedRow
             /\ feeds'[i].refusals = feeds[i].refusals
             /\ feeds'[i].disabled = feeds[i].disabled
  <2> SUFFICES ASSUME NEW i \in Ids, Subscribed(i)
               PROVE  /\ feeds'[i] \in FeedRow
                      /\ feeds'[i].refusals = feeds[i].refusals
                      /\ feeds'[i].disabled = feeds[i].disabled
    BY ElapseRow DEF IInv
  <2> DEFINE next == feeds'[i].next
  <2>1. feeds'[i] \in FeedRow /\ feeds'[i] = [feeds[i] EXCEPT !.next = next]
    BY ElapseRow DEF IInv
  <2>2. feeds[i] \in FeedRow
    BY SubscribedRow DEF IInv
  <2> HIDE DEF next
  <2> QED
    BY <2>1, <2>2 DEF FeedRow
<1>2. retired' = retired
  BY DEF Elapse
<1>3. \A i \in Ids : StatusOf(i)' = StatusOf(i) /\ StrikesOf(i)' = StrikesOf(i)
  BY <1>1, <1>2, NoneAssumption DEF StatusOf, StrikesOf, Enabled, Subscribed
<1> QED
  BY <1>3, LifecycleStutter

LEMMA LifecycleNext ==
  IInv /\ [Next]_pollVars => [Lifecycle!Next]_(Lifecycle!lifecycleVars)
<1> SUFFICES ASSUME IInv, [Next]_pollVars
             PROVE  [Lifecycle!Next]_(Lifecycle!lifecycleVars)
  OBVIOUS
<1> DEFINE Goal == [Lifecycle!Next]_(Lifecycle!lifecycleVars)
<1>1. CASE Tick \/ Restart
  BY <1>1, LifecycleSameRows DEF Tick, Restart
<1>2. ASSUME NEW i \in Ids, Fetch(i) PROVE Goal
  BY <1>2, LifecycleSameRows DEF Fetch
<1>3. ASSUME NEW i \in Ids, FinishPoll(i) PROVE Goal
  <2>1. batch[i] \in Task /\ batch[i].stage = "answered" /\ Record(i, batch[i])
    BY <1>3 DEF FinishPoll, IInv, TypeOK
  <2> QED
    BY <2>1, LifecycleRecord
<1>4. ASSUME NEW r \in Requests, NEW i \in Ids, RefreshStart(r, i) PROVE Goal
  BY <1>4, LifecycleSameRows DEF RefreshStart
<1>5. ASSUME NEW r \in Requests, RefreshFetch(r) PROVE Goal
  BY <1>5, LifecycleSameRows DEF RefreshFetch
<1>6. ASSUME NEW r \in Requests, RefreshFinish(r) PROVE Goal
  <2>1. /\ requests[r].id \in Ids
        /\ requests[r].task \in Task
        /\ requests[r].task.stage = "answered"
        /\ Record(requests[r].id, requests[r].task)
    BY <1>6, RefreshFields DEF RefreshFinish, IInv
  <2> QED
    BY <2>1, LifecycleRecord
<1>7. ASSUME NEW r \in Requests, NEW u \in Urls, Discover(r, u) PROVE Goal
  BY <1>7, LifecycleSameRows DEF Discover
<1>8. ASSUME NEW r \in Requests, AddFeedInsert(r) PROVE Goal
  <2>1. requests[r].url \in Urls
    BY <1>8, AddFeedFields DEF AddFeedInsert, IInv
  <2>2. ASSUME NEW i \in Ids, InsertFeed(i, requests[r].url) PROVE Goal
    BY <2>1, <2>2, LifecycleInsert
  <2>3. CASE NothingRecorded
    BY <2>3, LifecycleSameRows DEF NothingRecorded
  <2> QED
    BY <1>8, <2>2, <2>3 DEF AddFeedInsert
<1>9. ASSUME NEW r \in Requests, AddFeedRecord(r) PROVE Goal
  <2>1. /\ requests[r].id \in Ids
        /\ requests[r].url \in Urls
        /\ requests[r].doc \in Document
        /\ DefaultInterval \in Interval
    BY <1>9, AddFeedFields, IntervalAssumption DEF AddFeedRecord, IInv, Interval
  <2>2. CASE Subscribed(requests[r].id)
             /\ RecordSuccess(requests[r].id, requests[r].url, requests[r].doc, DefaultInterval)
    BY <2>1, <2>2, LifecycleSuccess
  <2>3. CASE NothingRecorded
    BY <2>3, LifecycleSameRows DEF NothingRecorded
  <2> QED
    BY <1>9, <2>2, <2>3 DEF AddFeedRecord
<1>10. ASSUME NEW u \in Urls, ImportFeed(u) PROVE Goal
  BY <1>10, LifecycleInsert DEF ImportFeed
<1>11. ASSUME NEW i \in Ids, SetDisabled(i) \/ ReEnable(i) \/ DeleteFeed(i) PROVE Goal
  BY <1>11, LifecycleSwitch
<1>12. ASSUME NEW u \in Urls, Publish(u) PROVE Goal
  BY <1>12, LifecycleSameRows DEF Publish
<1>13. CASE Elapse
  BY <1>13, LifecycleElapse
<1>14. CASE UNCHANGED pollVars
  BY <1>14, LifecycleSameRows DEF pollVars
<1> QED
  BY <1>1, <1>2, <1>3, <1>4, <1>5, <1>6, <1>7, <1>8, <1>9, <1>10, <1>11,
     <1>12, <1>13, <1>14 DEF Next

\* Polls on stale rows, refreshes, add-feed requests and restarts included, a
\* subscription only ever does what FeedLifecycle allows.
THEOREM LifecycleImplemented == Spec => ImplementsLifecycle
<1>1. Init => Lifecycle!Init
  BY LifecycleInit
<1>2. IInv /\ [Next]_pollVars => [Lifecycle!Next]_(Lifecycle!lifecycleVars)
  BY LifecycleNext
<1> QED
  BY <1>1, <1>2, Invariance, PTL DEF Spec, ImplementsLifecycle, Lifecycle!Spec
-----------------------------------------------------------------------------
(* What the schedule keeps when the poll loop is the only one that writes  *)
(* polls: no refresh and no add-feed request.  (With them neither holds: a *)
(* refresh that read the row earlier overwrites what the loop recorded.)   *)

\* The poll loop's task for row i has its answer, and the answer is a wait.
Answer(i) == batch[i] # None /\ batch[i].stage = "answered"
Asked(i)  == Answer(i) /\ batch[i].reply.kind = "retryAfter"

\* What the poll loop alone keeps of one row: its task counted at least as many
\* failures as the row has, an answered task accounts for what is owed, and
\* nothing is owed to a row that is gone.
RowAlone(i) ==
  /\ Subscribed(i) /\ batch[i] # None => feeds[i].failures <= batch[i].snap.failures
  /\ ~Subscribed(i) => owed[i] = 0
  /\ Answer(i) /\ ~Asked(i) => owed[i] = 0
  /\ Asked(i) => owed[i] <= AtMost(batch[i].reply.wait, MaxPublisher)
  /\ Subscribed(i) /\ owed[i] > 0 /\ ~Asked(i) => feeds[i].next >= owed[i]
  /\ Subscribed(i) /\ feeds[i].failures > 0
       => feeds[i].interval >= Backoff(feeds[i].failures)

AInv == IInv /\ \A i \in Ids : RowAlone(i)

\* A row, its task and what it is owed decide its share of the invariant.
LEMMA SameRow ==
  ASSUME NEW i \in Ids, RowAlone(i),
         feeds'[i] = feeds[i], batch'[i] = batch[i], owed'[i] = owed[i]
  PROVE  RowAlone(i)'
BY DEF RowAlone, Subscribed, Answer, Asked

\* A wait that was asked for is a number of time units.
LEMMA AskedWait ==
  ASSUME TypeOK, NEW i \in Ids, Asked(i)
  PROVE  AtMost(batch[i].reply.wait, MaxPublisher) \in Nat
<1>1. batch[i].reply \in Reply /\ batch[i].reply.kind = "retryAfter"
  BY AnsweredTask DEF TypeOK, Asked, Answer
<1>2. batch[i].reply.wait \in Nat
  BY <1>1, ReplyFields, PollAssumption
<1> QED
  BY <1>2, IntervalAssumption DEF AtMost

LEMMA AloneInit == Init => AInv
<1> SUFFICES ASSUME Init PROVE AInv
  OBVIOUS
<1>1. IInv
  BY InitInv
<1>2. \A i \in 1..Len(Imported) : Imported[i] \in Urls
  BY PollAssumption
<1>3. \A i \in Ids : feeds[i] = None \/ \E u \in Urls : feeds[i] = NewRow(u)
  <2>1. \A i \in Ids : i <= Len(Imported) => i \in 1..Len(Imported)
    BY PollAssumption DEF Ids
  <2> QED
    BY <1>2, <2>1 DEF Init
<1>4. \A i \in Ids : batch[i] = None /\ owed[i] = 0
  BY DEF Init
<1>5. \A i \in Ids : Subscribed(i) => feeds[i].failures = 0
  BY <1>3, NewRowFields DEF Subscribed
<1> QED
  BY <1>1, <1>4, <1>5 DEF AInv, RowAlone, Answer, Asked

LEMMA AloneTick == ASSUME AInv, Tick, NEW i \in Ids PROVE RowAlone(i)'
<1>1. PICK S \in SUBSET Due :
        batch' = [j \in Ids |-> IF j \in S THEN Queued(SnapshotOf(j)) ELSE None]
  BY DEF Tick
<1>2. feeds' = feeds /\ owed' = owed /\ batch[i] = None /\ RowAlone(i)
  BY DEF Tick, Idle, AInv
<1>3. CASE i \in S
  <2>1. Subscribed(i)
    BY <1>1, <1>3 DEF Due, Enabled
  <2>2. feeds[i].failures \in Nat
    BY <2>1, SubscribedRow, PollAssumption DEF AInv, IInv, FeedRow
  <2>3. /\ batch'[i].stage = "queued"
        /\ batch'[i].snap.failures = feeds[i].failures
    BY <1>1, <1>3 DEF Queued, SnapshotOf
  <2> QED
    BY <1>2, <2>1, <2>2, <2>3 DEF RowAlone, Subscribed, Answer, Asked
<1>4. CASE i \notin S
  BY <1>1, <1>2, <1>4, SameRow
<1> QED
  BY <1>3, <1>4

LEMMA AloneFetch ==
  ASSUME AInv, NEW k \in Ids, Fetch(k), NEW i \in Ids PROVE RowAlone(i)'
<1>1. PICK reply \in RepliesTo(batch[k].snap) :
        /\ batch' = [batch EXCEPT ![k] = Answered(batch[k].snap, reply)]
        /\ owed' = Owe(k, reply)
  BY DEF Fetch
<1>2. RowAlone(i) /\ feeds' = feeds /\ TypeOK
  BY DEF AInv, IInv, Fetch
<1>3. CASE i # k
  BY <1>1, <1>2, <1>3, SameRow DEF Owe, TypeOK
<1>4. CASE i = k
  <2>1. /\ batch'[i] = Answered(batch[i].snap, reply)
        /\ batch[i] # None
        /\ batch[i].stage = "queued"
    BY <1>1, <1>2, <1>4 DEF TypeOK, Fetch
  <2>2. /\ batch'[i].stage = "answered"
        /\ batch'[i].reply = reply
        /\ batch'[i].snap = batch[i].snap
    BY <2>1 DEF Answered
  <2>3. batch'[i] # None
    <3>1. reply \in Reply /\ batch[i].snap \in Snapshot
      BY <1>2, <2>1, TaskSnapshot DEF RepliesTo, TypeOK
    <3>2. batch'[i] \in Task
      BY <2>1, <3>1 DEF Answered, Task
    <3> QED
      BY <3>2, NoneAssumption
  <2>4. Asked(i)' <=> reply.kind = "retryAfter"
    BY <2>2, <2>3 DEF Asked, Answer
  <2>5. CASE ~Subscribed(i)
    <3>1. owed'[i] = 0
      BY <1>1, <1>2, <1>4, <2>5 DEF Owe, RowAlone
    <3>2. reply.kind = "retryAfter" => AtMost(reply.wait, MaxPublisher) \in Nat
      BY ReplyFields, PollAssumption, IntervalAssumption DEF AtMost, RepliesTo
    <3> QED
      BY <1>2, <2>2, <2>3, <2>4, <2>5, <3>1, <3>2 DEF RowAlone, Subscribed, Answer, Asked
  <2>6. CASE Subscribed(i)
    <3>1. owed'[i] = IF reply.kind = "retryAfter" THEN AtMost(reply.wait, MaxPublisher) ELSE 0
      BY <1>1, <1>2, <1>4, <2>6 DEF Owe, TypeOK
    <3>2. reply.kind = "retryAfter" => AtMost(reply.wait, MaxPublisher) \in Nat
      BY ReplyFields, PollAssumption, IntervalAssumption DEF AtMost, RepliesTo
    <3> QED
      BY <1>2, <2>1, <2>2, <2>3, <2>4, <2>6, <3>1, <3>2
         DEF RowAlone, Subscribed, Answer, Asked
  <2> QED
    BY <2>5, <2>6
<1> QED
  BY <1>3, <1>4

\* What a poll records of its own row.
LEMMA AloneRecord ==
  ASSUME AInv, NEW i \in Ids, FinishPoll(i)
  PROVE  /\ \A j \in Ids \ {i} : feeds'[j] = feeds[j]
         /\ RowAlone(i)'
<1> DEFINE task  == batch[i]
           snap  == task.snap
           reply == task.reply
<1>1. /\ task \in Task /\ task # None /\ task.stage = "answered" /\ Record(i, task)
      /\ TypeOK /\ RowAlone(i)
  BY DEF FinishPoll, AInv, IInv, TypeOK
<1>2. snap \in Snapshot /\ reply \in Reply
  BY <1>1, AnsweredTask
<1>3. owed' = owed /\ owed[i] \in Nat /\ batch'[i] = None
  BY DEF FinishPoll, AInv, IInv, TypeOK
<1>4. Asked(i) <=> reply.kind = "retryAfter"
  BY <1>1 DEF Asked, Answer
<1>5. ~Asked(i) => owed[i] = 0
  BY <1>1 DEF RowAlone, Answer
<1>6. CASE ~Subscribed(i)
  <2>1. feeds' = feeds
    BY <1>1, <1>6 DEF Record, NothingRecorded
  <2> QED
    BY <1>1, <1>3, <1>6, <2>1 DEF RowAlone, Subscribed, Answer, Asked
<1>7. CASE Subscribed(i) /\ reply.kind = "notModified" /\ RecordUnchanged(i, snap)
  <2>1. feeds' = [feeds EXCEPT ![i] = feeds'[i]] /\ feeds'[i].failures = 0
    BY <1>1, <1>2, <1>7, UnchangedKeeps
  <2>2. owed[i] = 0
    BY <1>4, <1>5, <1>7
  <2> QED
    BY <1>1, <1>3, <2>1, <2>2 DEF RowAlone, Subscribed, Answer, Asked, TypeOK
<1>8. CASE Subscribed(i) /\ reply.kind = "retryAfter" /\ RecordRetryAfter(i, reply.wait)
  <2>1. reply.wait \in Waits
    BY <1>2, <1>8, ReplyFields
  <2>2. /\ feeds' = [feeds EXCEPT ![i] = feeds'[i]]
        /\ feeds'[i] = [feeds[i] EXCEPT !.next = AtMost(reply.wait, MaxPublisher)]
        /\ feeds'[i] \in FeedRow
    BY <1>1, <1>8, <2>1, RetryAfterKeeps
  <2>3. feeds[i] \in FeedRow
    BY <1>1, <1>8, SubscribedRow
  <2>4. /\ feeds'[i].next = AtMost(reply.wait, MaxPublisher)
        /\ feeds'[i].failures = feeds[i].failures
        /\ feeds'[i].interval = feeds[i].interval
    BY <2>2, <2>3 DEF FeedRow
  <2>5. /\ owed[i] <= AtMost(reply.wait, MaxPublisher)
        /\ AtMost(reply.wait, MaxPublisher) \in Nat
    BY <1>1, <1>4, <1>8, <2>1, PollAssumption, IntervalAssumption DEF RowAlone, AtMost
  <2>6. \A j \in Ids \ {i} : feeds'[j] = feeds[j]
    BY <1>1, <2>2 DEF TypeOK
  <2>7. feeds[i].failures > 0 => feeds[i].interval >= Backoff(feeds[i].failures)
    BY <1>1, <1>8 DEF RowAlone
  <2>8. feeds'[i].next >= owed'[i]
    BY <1>3, <2>4, <2>5
  <2>9. RowAlone(i)'
    BY <1>1, <1>3, <1>8, <2>2, <2>4, <2>7, <2>8, NoneAssumption DEF RowAlone, Subscribed, Answer, Asked
  <2> QED
    BY <2>6, <2>9
<1>9. CASE Subscribed(i) /\ reply.kind = "body"
             /\ RecordSuccess(i, snap.url, reply.doc, snap.interval)
  <2>1. reply.doc \in Document /\ snap.url \in Urls /\ snap.interval \in Interval
    BY <1>2, <1>9, ReplyFields DEF Snapshot
  <2>2. feeds' = [feeds EXCEPT ![i] = feeds'[i]] /\ feeds'[i].failures = 0
    BY <1>1, <1>9, <2>1, SuccessKeeps
  <2>3. owed[i] = 0
    BY <1>4, <1>5, <1>9
  <2> QED
    BY <1>1, <1>3, <2>2, <2>3 DEF RowAlone, Subscribed, Answer, Asked, TypeOK
<1>10. CASE Subscribed(i) /\ reply.kind = "failed" /\ RecordFailure(i, snap, reply.refused)
  <2> DEFINE failures == AtMost(feeds[i].failures + 1, FailureCap)
             wait     == NextInterval(snap.interval, "failed", snap.failures + 1, 0)
  <2>1. reply.refused \in BOOLEAN
    BY <1>2, <1>10, ReplyFields
  <2>2. /\ feeds' = [feeds EXCEPT ![i] = feeds'[i]]
        /\ feeds'[i].failures = failures
        /\ feeds'[i].interval = wait
    BY <1>1, <1>2, <1>10, <2>1, FailureKeeps
  <2>3. feeds[i] \in FeedRow
    BY <1>1, <1>10, SubscribedRow
  <2>4. /\ feeds[i].failures \in Nat /\ snap.failures \in Nat
        /\ snap.interval \in Nat
        /\ feeds[i].failures <= snap.failures
    BY <1>1, <1>2, <1>10, <2>3, PollAssumption, IntervalAssumption
       DEF FeedRow, Snapshot, Interval, RowAlone
  <2>5. failures \in Nat /\ failures <= snap.failures + 1
    BY <2>4, PollAssumption DEF AtMost
  <2>6. wait >= Backoff(snap.failures + 1)
    <3>1. snap.failures + 1 \in Nat
      BY <2>4
    <3> QED
      BY <2>4, <3>1, FailureBacksOff
  <2>7. Backoff(failures) <= Backoff(snap.failures + 1)
    <3>1. snap.failures + 1 \in Nat
      BY <2>4
    <3> HIDE DEF failures
    <3> QED
      BY <2>5, <3>1, BackoffMonotone
  <2>8. wait \in Nat /\ Backoff(failures) \in Nat /\ Backoff(snap.failures + 1) \in Nat
    <3>1. snap.failures + 1 \in Nat
      BY <2>4
    <3>2. wait \in Interval
      BY <1>2, <3>1, NextIntervalType DEF PollResults, Snapshot
    <3>3. wait \in Nat
      <4> HIDE DEF wait
      <4> QED
        BY <3>2, IntervalAssumption DEF Interval
    <3>4. Backoff(failures) \in 0..MaxInterval /\ Backoff(snap.failures + 1) \in 0..MaxInterval
      <4> HIDE DEF failures
      <4> QED
        BY <2>5, <3>1, BackoffBounds
    <3> QED
      BY <3>3, <3>4, IntervalAssumption
  <2>9. owed[i] = 0
    BY <1>4, <1>5, <1>10
  <2>10. \A j \in Ids \ {i} : feeds'[j] = feeds[j]
    BY <1>1, <2>2 DEF TypeOK
  <2> HIDE DEF wait, failures
  <2>11. feeds'[i].interval >= Backoff(feeds'[i].failures)
    BY <2>2, <2>6, <2>7, <2>8
  <2>12. RowAlone(i)'
    BY <1>3, <2>9, <2>11 DEF RowAlone, Subscribed, Answer, Asked
  <2> QED
    BY <2>10, <2>12
<1> QED
  BY <1>1, <1>6, <1>7, <1>8, <1>9, <1>10 DEF Record

LEMMA AloneFinishPoll ==
  ASSUME AInv, NEW k \in Ids, FinishPoll(k), NEW i \in Ids PROVE RowAlone(i)'
<1>1. CASE i = k
  BY <1>1, AloneRecord
<1>2. CASE i # k
  <2>1. feeds'[i] = feeds[i] /\ batch'[i] = batch[i] /\ owed'[i] = owed[i]
    BY <1>2, AloneRecord DEF FinishPoll, AInv, IInv, TypeOK
  <2> QED
    BY <2>1, SameRow DEF AInv
<1> QED
  BY <1>1, <1>2

LEMMA AloneImport ==
  ASSUME AInv, NEW u \in Urls, ImportFeed(u), NEW i \in Ids PROVE RowAlone(i)'
<1>1. PICK k \in Ids : InsertFeed(k, u)
  BY DEF ImportFeed
<1>2. batch' = batch /\ owed' = owed /\ feeds' = [feeds EXCEPT ![k] = NewRow(u)]
  BY <1>1 DEF ImportFeed, InsertFeed
<1>3. RowAlone(i) /\ TypeOK
  BY DEF AInv, IInv
<1>4. CASE i # k
  BY <1>2, <1>3, <1>4, SameRow DEF TypeOK
<1>5. CASE i = k
  <2>1. ~Subscribed(i)
    <3> SUFFICES ASSUME Subscribed(i) PROVE FALSE
      OBVIOUS
    <3>1. i < i
      BY <1>1, <1>5 DEF InsertFeed, NextId
    <3> QED
      BY <3>1 DEF Ids
  <2>2. owed[i] = 0
    BY <1>3, <2>1 DEF RowAlone
  <2>3. feeds'[i].failures = 0
    BY <1>2, <1>3, <1>5, NewRowFields DEF TypeOK
  <2>4. batch[i] # None => batch[i].snap.failures \in Nat
    BY <1>3, TaskSnapshot, PollAssumption DEF TypeOK, Snapshot
  <2> QED
    BY <1>2, <1>3, <2>1, <2>2, <2>3, <2>4 DEF RowAlone, Subscribed, Answer, Asked
<1> QED
  BY <1>4, <1>5

LEMMA AloneSetDisabled ==
  ASSUME AInv, NEW k \in Ids, SetDisabled(k), NEW i \in Ids PROVE RowAlone(i)'
<1> DEFINE row == [feeds[k] EXCEPT !.disabled = TRUE]
<1>1. batch' = batch /\ owed' = owed /\ feeds' = [feeds EXCEPT ![k] = row]
  BY DEF SetDisabled
<1>2. RowAlone(i) /\ TypeOK
  BY DEF AInv, IInv
<1>3. feeds[k] \in FeedRow
  BY SubscribedRow DEF SetDisabled, AInv, IInv
<1>4. /\ row.next = feeds[k].next /\ row.failures = feeds[k].failures
      /\ row.interval = feeds[k].interval
  BY <1>3 DEF FeedRow
<1> HIDE DEF row
<1>5. CASE i # k
  BY <1>1, <1>2, <1>5, SameRow DEF TypeOK
<1>6. CASE i = k
  <2>1. feeds'[i] = row /\ Subscribed(i)
    BY <1>1, <1>2, <1>6 DEF TypeOK, SetDisabled
  <2>2. Subscribed(i)'
    BY SetDisabledInv, <1>1, <1>3, <1>6, <2>1, NoneAssumption
       DEF AInv, Subscribed, FeedRow, row
  <2> QED
    BY <1>1, <1>2, <1>4, <1>6, <2>1, <2>2 DEF RowAlone, Subscribed, Answer, Asked
<1> QED
  BY <1>5, <1>6

LEMMA AloneReEnable ==
  ASSUME AInv, NEW k \in Ids, ReEnable(k), NEW i \in Ids PROVE RowAlone(i)'
<1> DEFINE row == [feeds[k] EXCEPT !.disabled = FALSE, !.refusals = 0,
                                   !.failures = 0, !.next = 0]
<1>1. /\ batch' = batch
      /\ owed' = [owed EXCEPT ![k] = 0]
      /\ feeds' = [feeds EXCEPT ![k] = row]
  BY DEF ReEnable
<1>2. RowAlone(i) /\ TypeOK
  BY DEF AInv, IInv
<1>3. row.failures = 0
  BY ReEnabledRow, SubscribedRow DEF ReEnable, AInv, IInv
<1> HIDE DEF row
<1>4. CASE i # k
  BY <1>1, <1>2, <1>4, SameRow DEF TypeOK
<1>5. CASE i = k
  <2>1. feeds'[i].failures = 0 /\ owed'[i] = 0
    BY <1>1, <1>2, <1>3, <1>5 DEF TypeOK
  <2>2. batch[i] # None => batch[i].snap.failures \in Nat
    BY <1>2, TaskSnapshot, PollAssumption DEF TypeOK, Snapshot
  <2>3. Asked(i) => AtMost(batch[i].reply.wait, MaxPublisher) \in Nat
    BY AskedWait DEF AInv, IInv
  <2> QED
    BY <1>1, <2>1, <2>2, <2>3 DEF RowAlone, Subscribed, Answer, Asked
<1> QED
  BY <1>4, <1>5

LEMMA AloneDelete ==
  ASSUME AInv, NEW k \in Ids, DeleteFeed(k), NEW i \in Ids PROVE RowAlone(i)'
<1>1. /\ batch' = batch
      /\ owed' = [owed EXCEPT ![k] = 0]
      /\ feeds' = [feeds EXCEPT ![k] = None]
  BY DEF DeleteFeed
<1>2. RowAlone(i) /\ TypeOK
  BY DEF AInv, IInv
<1>3. CASE i # k
  BY <1>1, <1>2, <1>3, SameRow DEF TypeOK
<1>4. CASE i = k
  <2>1. feeds'[i] = None /\ owed'[i] = 0
    BY <1>1, <1>2, <1>4 DEF TypeOK
  <2>2. Asked(i) => AtMost(batch[i].reply.wait, MaxPublisher) \in Nat
    BY AskedWait DEF AInv, IInv
  <2> QED
    BY <1>1, <2>1, <2>2 DEF RowAlone, Subscribed, Answer, Asked
<1> QED
  BY <1>3, <1>4

LEMMA AloneRestart == ASSUME AInv, Restart, NEW i \in Ids PROVE RowAlone(i)'
<1>1. /\ feeds' = feeds
      /\ batch'[i] = None
      /\ owed'[i] = IF WaitPending(i) THEN 0 ELSE owed[i]
  BY DEF Restart
<1>2. RowAlone(i) /\ owed[i] \in Nat
  BY DEF AInv, IInv, TypeOK
<1>3. Asked(i) => WaitPending(i)
  BY DEF Asked, Answer, WaitPending
<1> QED
  BY <1>1, <1>2, <1>3 DEF RowAlone, Subscribed, Answer, Asked

LEMMA AloneElapse == ASSUME AInv, Elapse, NEW i \in Ids PROVE RowAlone(i)'
<1>1. batch' = batch /\ owed'[i] = AtLeast(owed[i] - 1, 0)
  BY DEF Elapse
<1>2. RowAlone(i) /\ owed[i] \in Nat /\ TypeOK
  BY DEF AInv, IInv, TypeOK
<1>3. owed'[i] \in Nat /\ owed'[i] <= owed[i] /\ (owed'[i] > 0 => owed'[i] = owed[i] - 1)
  BY <1>1, <1>2 DEF AtLeast
<1>4. Asked(i) => AtMost(batch[i].reply.wait, MaxPublisher) \in Nat
  BY <1>2, AskedWait
<1>5. CASE ~Subscribed(i)
  <2>1. feeds'[i] = None
    BY <1>2, <1>5, ElapseRow
  <2> QED
    BY <1>1, <1>2, <1>3, <1>4, <1>5, <2>1 DEF RowAlone, Subscribed, Answer, Asked
<1>6. CASE Subscribed(i)
  <2> DEFINE next == feeds'[i].next
  <2>1. /\ feeds'[i] = [feeds[i] EXCEPT !.next = next]
        /\ feeds[i].next >= 1 => next = feeds[i].next - 1
    BY <1>2, <1>6, ElapseRow
  <2>2. feeds[i] \in FeedRow
    BY <1>2, <1>6, SubscribedRow
  <2> HIDE DEF next
  <2>3. /\ feeds'[i].failures = feeds[i].failures
        /\ feeds'[i].interval = feeds[i].interval
        /\ feeds[i].next \in Int
    BY <2>1, <2>2 DEF FeedRow
  <2>4. owed'[i] > 0 /\ ~Asked(i) => feeds'[i].next >= owed'[i]
    BY <1>2, <1>3, <1>6, <2>1, <2>3 DEF RowAlone, next
  <2>5. feeds[i].failures \in Nat
    BY <2>2, PollAssumption DEF FeedRow
  <2>6. Subscribed(i)'
    BY <1>2, <1>6, ElapseRow, NoneAssumption DEF Subscribed
  <2>7. Answer(i)' = Answer(i) /\ Asked(i)' = Asked(i)
    BY <1>1 DEF Answer, Asked
  <2>8. Answer(i) /\ ~Asked(i) => owed'[i] = 0
    BY <1>2, <1>3 DEF RowAlone
  <2>9. Asked(i) => owed'[i] <= AtMost(batch[i].reply.wait, MaxPublisher)
    BY <1>2, <1>3, <1>4 DEF RowAlone
  <2> HIDE DEF next
  <2> QED
    BY <1>1, <1>2, <1>6, <2>3, <2>4, <2>6, <2>7, <2>8, <2>9 DEF RowAlone
<1> QED
  BY <1>5, <1>6

\* The invariant of the poll loop alone is inductive.
LEMMA AloneNext ==
  ASSUME Requests = {}
  PROVE  AInv /\ [Next]_pollVars => AInv'
<1> SUFFICES ASSUME AInv, [Next]_pollVars PROVE AInv'
  OBVIOUS
<1>1. IInv'
  BY NextInv DEF AInv
<1> SUFFICES ASSUME NEW i \in Ids PROVE RowAlone(i)'
  BY <1>1 DEF AInv
<1>2. CASE Tick
  BY <1>2, AloneTick
<1>3. ASSUME NEW k \in Ids, Fetch(k) \/ FinishPoll(k) PROVE RowAlone(i)'
  BY <1>3, AloneFetch, AloneFinishPoll
<1>4. ASSUME NEW u \in Urls, ImportFeed(u) PROVE RowAlone(i)'
  BY <1>4, AloneImport
<1>5. ASSUME NEW k \in Ids, SetDisabled(k) \/ ReEnable(k) \/ DeleteFeed(k)
      PROVE  RowAlone(i)'
  BY <1>5, AloneSetDisabled, AloneReEnable, AloneDelete
<1>6. ASSUME NEW u \in Urls, Publish(u) PROVE RowAlone(i)'
  BY <1>6, SameRow DEF Publish, AInv
<1>7. CASE Elapse
  BY <1>7, AloneElapse
<1>8. CASE Restart
  BY <1>8, AloneRestart
<1>9. CASE UNCHANGED pollVars
  BY <1>9, SameRow DEF pollVars, AInv
<1> QED
  BY <1>2, <1>3, <1>4, <1>5, <1>6, <1>7, <1>8, <1>9 DEF Next

\* With no request in flight, a wait a server named last is never cut short,
\* neither by a switch that is flipped, nor by a feed that is deleted and added
\* again while it is polled, nor by a restart.
THEOREM WaitHonouredAlone ==
  ASSUME Requests = {}
  PROVE  Spec => []WaitHonoured
<1>1. Init => AInv
  BY AloneInit
<1>2. AInv /\ [Next]_pollVars => AInv'
  BY AloneNext
<1>3. AInv => WaitHonoured
  BY DEF AInv, RowAlone, WaitHonoured, WaitPending, Asked, Answer
<1> QED
  BY <1>1, <1>2, <1>3, PTL DEF Spec

\* With no request in flight, the interval of a failing feed never falls below
\* what its failure count calls for.
THEOREM BackoffKeptAlone ==
  ASSUME Requests = {}
  PROVE  Spec => []BackoffKept
<1>1. Init => AInv
  BY AloneInit
<1>2. AInv /\ [Next]_pollVars => AInv'
  BY AloneNext
<1>3. AInv => BackoffKept
  BY DEF AInv, RowAlone, BackoffKept
<1> QED
  BY <1>1, <1>2, <1>3, PTL DEF Spec
-----------------------------------------------------------------------------
(* The reason of a retired feed. *)

\* A row the poller retired is not being polled, and shows why.
RowRetired(i) == i \in retired => batch[i] = None /\ feeds[i].error

RInv == AInv /\ \A i \in Ids : RowRetired(i)

\* A retired row is a row of the table, and off.
LEMMA RetiredRow ==
  ASSUME RInv, NEW i \in Ids, i \in retired
  PROVE  Subscribed(i) /\ feeds[i] \in FeedRow /\ feeds[i].disabled
BY SubscribedRow DEF RInv, AInv, IInv, RowsInv, RetiredIsOff

LEMMA RetiredTick == ASSUME RInv, Tick, NEW i \in Ids PROVE RowRetired(i)'
<1>1. PICK S \in SUBSET Due :
        batch' = [j \in Ids |-> IF j \in S THEN Queued(SnapshotOf(j)) ELSE None]
  BY DEF Tick
<1>2. i \in retired => i \notin S
  BY <1>1, RetiredRow DEF Due, Enabled
<1> QED
  BY <1>1, <1>2 DEF Tick, RInv, RowRetired

LEMMA RetiredFetch ==
  ASSUME RInv, NEW k \in Ids, Fetch(k), NEW i \in Ids PROVE RowRetired(i)'
<1>1. k \notin retired
  BY DEF Fetch, RInv, RowRetired
<1>2. feeds' = feeds /\ retired' = retired /\ (i # k => batch'[i] = batch[i])
  BY DEF Fetch, RInv, AInv, IInv, TypeOK
<1> QED
  BY <1>1, <1>2 DEF RInv, RowRetired

\* The one poll of a row either retires it, and says why, or leaves it enabled.
LEMMA RetiredFinishPoll ==
  ASSUME RInv, NEW k \in Ids, FinishPoll(k), NEW i \in Ids PROVE RowRetired(i)'
<1> DEFINE task == batch[k]
<1>1. /\ Record(k, task) /\ k \notin retired /\ TypeOK /\ AInv
      /\ batch' = [batch EXCEPT ![k] = None]
  BY DEF FinishPoll, RInv, RowRetired, AInv, IInv
<1>2. CASE i # k
  <2>1. feeds'[i] = feeds[i] /\ batch'[i] = batch[i]
    BY <1>1, <1>2, AloneRecord DEF TypeOK
  <2>2. i \in retired' => i \in retired
    BY <1>1, <1>2 DEF Record, NothingRecorded, RecordUnchanged, RecordRetryAfter,
                      RecordSuccess, RecordFailure
  <2> QED
    BY <2>1, <2>2 DEF RInv, RowRetired
<1>3. CASE i = k
  <2>1. batch'[i] = None
    BY <1>1, <1>3 DEF TypeOK
  <2>2. CASE Subscribed(k) /\ RecordFailure(k, task.snap, task.reply.refused)
    <3>1. feeds[k] \in FeedRow
      BY <1>1, <2>2, SubscribedRow
    <3>2. feeds'[k].error
      BY <1>1, <2>2, <3>1 DEF RecordFailure, TypeOK, FeedRow
    <3> QED
      BY <1>3, <2>1, <3>2 DEF RowRetired
  <2>3. CASE retired' = retired
    BY <1>1, <1>3, <2>3 DEF RowRetired
  <2> QED
    BY <1>1, <2>2, <2>3 DEF Record, NothingRecorded, RecordUnchanged, RecordRetryAfter,
                            RecordSuccess
<1> QED
  BY <1>2, <1>3

LEMMA RetiredImport ==
  ASSUME RInv, NEW u \in Urls, ImportFeed(u), NEW i \in Ids PROVE RowRetired(i)'
<1>1. PICK k \in Ids : InsertFeed(k, u)
  BY DEF ImportFeed
<1>2. ~Subscribed(k)
  <2> SUFFICES ASSUME Subscribed(k) PROVE FALSE
    OBVIOUS
  <2>1. k < k
    BY <1>1 DEF InsertFeed, NextId
  <2> QED
    BY <2>1 DEF Ids
<1>3. k \notin retired
  BY <1>2, RetiredRow
<1>4. batch' = batch /\ retired' = retired /\ (i # k => feeds'[i] = feeds[i])
  BY <1>1 DEF ImportFeed, InsertFeed, RInv, AInv, IInv, TypeOK
<1> QED
  BY <1>3, <1>4 DEF RInv, RowRetired

\* The switch, and unsubscribing.
LEMMA RetiredEdit ==
  ASSUME RInv, NEW k \in Ids, SetDisabled(k) \/ ReEnable(k) \/ DeleteFeed(k), NEW i \in Ids
  PROVE  RowRetired(i)'
<1>1. batch' = batch /\ retired' \subseteq retired
  BY DEF SetDisabled, ReEnable, DeleteFeed
<1>2. i # k => feeds'[i] = feeds[i]
  BY DEF SetDisabled, ReEnable, DeleteFeed, RInv, AInv, IInv, TypeOK
<1>3. CASE SetDisabled(k) /\ i = k /\ i \in retired
  <2>1. feeds[i] \in FeedRow /\ feeds[i].error
    BY <1>3, RetiredRow DEF RInv, RowRetired
  <2>2. feeds'[i].error
    BY <1>3, <2>1 DEF SetDisabled, FeedRow, RInv, AInv, IInv, TypeOK
  <2> QED
    BY <1>1, <1>3, <2>2 DEF RInv, RowRetired
<1>4. CASE (ReEnable(k) \/ DeleteFeed(k)) /\ i = k
  BY <1>4 DEF ReEnable, DeleteFeed, RowRetired
<1> QED
  BY <1>1, <1>2, <1>3, <1>4 DEF RInv, RowRetired

LEMMA RetiredElapse == ASSUME RInv, Elapse, NEW i \in Ids PROVE RowRetired(i)'
<1>1. batch' = batch /\ retired' = retired
  BY DEF Elapse
<1>2. CASE i \in retired
  <2>1. Subscribed(i) /\ feeds[i] \in FeedRow /\ feeds[i].error /\ batch[i] = None
    BY <1>2, RetiredRow DEF RInv, RowRetired
  <2> DEFINE next == feeds'[i].next
  <2>2. feeds'[i] = [feeds[i] EXCEPT !.next = next]
    BY <2>1, ElapseRow DEF RInv, AInv, IInv
  <2> HIDE DEF next
  <2>3. feeds'[i].error
    BY <2>1, <2>2 DEF FeedRow
  <2> QED
    BY <1>1, <2>1, <2>3 DEF RowRetired
<1>3. CASE i \notin retired
  BY <1>1, <1>3 DEF RowRetired
<1> QED
  BY <1>2, <1>3

LEMMA RetiredNext ==
  ASSUME Requests = {}
  PROVE  RInv /\ [Next]_pollVars => RInv'
<1> SUFFICES ASSUME RInv, [Next]_pollVars PROVE RInv'
  OBVIOUS
<1>1. AInv'
  BY AloneNext DEF RInv
<1> SUFFICES ASSUME NEW i \in Ids PROVE RowRetired(i)'
  BY <1>1 DEF RInv
<1>2. CASE Tick
  BY <1>2, RetiredTick
<1>3. ASSUME NEW k \in Ids, Fetch(k) \/ FinishPoll(k) PROVE RowRetired(i)'
  BY <1>3, RetiredFetch, RetiredFinishPoll
<1>4. ASSUME NEW u \in Urls, ImportFeed(u) PROVE RowRetired(i)'
  BY <1>4, RetiredImport
<1>5. ASSUME NEW k \in Ids, SetDisabled(k) \/ ReEnable(k) \/ DeleteFeed(k)
      PROVE  RowRetired(i)'
  BY <1>5, RetiredEdit
<1>6. ASSUME NEW u \in Urls, Publish(u) PROVE RowRetired(i)'
  BY <1>6 DEF Publish, RInv, RowRetired
<1>7. CASE Elapse
  BY <1>7, RetiredElapse
<1>8. CASE Restart
  BY <1>8 DEF Restart, RInv, RowRetired
<1>9. CASE UNCHANGED pollVars
  BY <1>9 DEF pollVars, RInv, RowRetired
<1> QED
  BY <1>2, <1>3, <1>4, <1>5, <1>6, <1>7, <1>8, <1>9 DEF Next

\* Only a request can take the reason from a feed that was retired: while the poll
\* loop fetches alone, whatever the servers answer, a feed it retired keeps its error,
\* since due_feeds leaves it out and no poll of it is under way.
THEOREM RetiredHasReasonAlone ==
  ASSUME Requests = {}
  PROVE  Spec => []RetiredHasReason
<1>1. Init => RInv
  BY AloneInit DEF Init, RInv, RowRetired
<1>2. RInv /\ [Next]_pollVars => RInv'
  BY RetiredNext
<1>3. RInv => RetiredHasReason
  BY DEF RInv, RowRetired, RetiredHasReason
<1> QED
  BY <1>1, <1>2, <1>3, PTL DEF Spec
=============================================================================
