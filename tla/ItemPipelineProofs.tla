------------------------- MODULE ItemPipelineProofs -------------------------
(***************************************************************************)
(* What the columns of extraction and enrichment keep, for any number of   *)
(* items, feeds, hosts, agents, profiles and readers.                      *)
(***************************************************************************)
EXTENDS ItemPipeline, TLAPS, FiniteSetTheorems

\* What is listed, fetched or opened is stored, and the worker fetches from no
\* host that has refused often enough.
Fetches ==
  /\ \A p \in extractor.batch : Stored(p.id)
  /\ extractor.page # None => Stored(extractor.page.id) /\ ~Refusing(extractor.page)
  /\ \A r \in Readers : opening[r] # None => Stored(opening[r].id)

\* A pass holds one candidate for an item, and the item has attempts left.
Passes ==
  /\ enricher.stage # "asking" => enricher.batch = {}
  /\ \A c \in enricher.batch : Stored(c.id) /\ items[c.id].attempts < MaxEnrichAttempts
  /\ \A c, d \in enricher.batch : c.id = d.id => c = d

PInv == PipelineTypeOK /\ Fetches /\ Passes /\ ScoreAnswersItsProfile

LEMMA RowTyped ==
  ASSUME PipelineTypeOK, NEW i \in Items, Stored(i)
  PROVE  /\ items[i] \in ItemRow
         /\ items[i].text \in Text
         /\ items[i].summary \in Text
         /\ items[i].tries \in Nat
         /\ items[i].attempts \in 0..MaxEnrichAttempts
BY DEF PipelineTypeOK, Stored, ItemRow

LEMMA RowStored == ASSUME NEW row \in ItemRow PROVE row # None
BY PipelineNone

LEMMA BatchTyped ==
  ASSUME PipelineTypeOK
  PROVE  /\ \A p \in extractor.batch : p \in Pending /\ p.id \in Items /\ p.agent \in Agents
         /\ extractor.page # None => /\ extractor.page \in Pending
                                     /\ extractor.page.id \in Items
                                     /\ extractor.page.agent \in Agents
         /\ \A r \in Readers : opening[r] # None =>
              /\ opening[r] \in Pending
              /\ opening[r].id \in Items
              /\ opening[r].agent \in Agents
BY DEF PipelineTypeOK, Pending

LEMMA CandidateTyped ==
  ASSUME PipelineTypeOK, NEW c \in enricher.batch
  PROVE  c \in Candidate /\ c.id \in Items /\ c.text \in Text /\ c.rescore \in BOOLEAN
BY DEF PipelineTypeOK, Enricher, Candidate

LEMMA KeyTyped ==
  ASSUME NEW p \in Pending
  PROVE  KeyOf(p) \in Hosts \X Agents
BY PipelineAssumption DEF Pending, KeyOf

\* Steps that keep an item's score, and count no failure of its enrichment.
LEMMA KeepsScores ==
  ASSUME PInv, items' \in [Items -> ItemRow \cup {None}], enricher' = enricher,
         \A i \in Items : Stored(i) => /\ Stored(i)'
                                       /\ items'[i].attempts = items[i].attempts
                                       /\ items'[i].score = items[i].score
                                       /\ items'[i].scored = items[i].scored,
         \A i \in Items : ~Stored(i) /\ Stored(i)' => items'[i].scored = None
  PROVE  Passes' /\ ScoreAnswersItsProfile'
<1>1. Passes'
  BY CandidateTyped DEF PInv, Passes
<1>2. ScoreAnswersItsProfile'
  BY DEF PInv, ScoreAnswersItsProfile, ScoreOf
<1> QED
  BY <1>1, <1>2

\* Steps that store no less leave what is fetched stored.
LEMMA KeepsFetches ==
  ASSUME PInv, extractor' = extractor, refusals' = refusals, opening' = opening,
         \A i \in Items : Stored(i) => Stored(i)'
  PROVE  Fetches'
BY BatchTyped DEF PInv, Fetches, Refusing
-----------------------------------------------------------------------------
\* What an outcome of a fetch does to the row of its item.
LEMMA RunOneRow ==
  ASSUME PInv, NEW p \in Pending, Stored(p.id), NEW outcome \in Outcome, RunOne(p, outcome)
  PROVE  /\ items' \in [Items -> ItemRow \cup {None}]
         /\ charged' \in [Items -> SUBSET (Agents \X BOOLEAN)]
         /\ \A i \in Items : i # p.id => items'[i] = items[i]
         /\ \A i \in Items : Stored(i) => /\ Stored(i)'
                                          /\ items'[i].attempts = items[i].attempts
                                          /\ items'[i].score = items[i].score
                                          /\ items'[i].scored = items[i].scored
                                          /\ items'[i].summary = items[i].summary
         /\ \A i \in Items : ~Stored(i) => ~Stored(i)'
<1> DEFINE i == p.id
<1>1. i \in Items /\ p.agent \in Agents
  BY DEF Pending
<1>2. items[i] \in ItemRow /\ items[i].tries \in Nat
  BY <1>1, RowTyped DEF PInv
<1>3. PICK row \in ItemRow : /\ items' = [items EXCEPT ![i] = row]
                             /\ row.attempts = items[i].attempts
                             /\ row.score = items[i].score
                             /\ row.scored = items[i].scored
                             /\ row.summary = items[i].summary
  <2>1. CASE outcome = "extracted"
    <3> DEFINE r == [[[[items[i] EXCEPT !.text = "article"] EXCEPT !.extracted = TRUE]
                        EXCEPT !.error = FALSE] EXCEPT !.tries = 0]
    <3>1. items' = [items EXCEPT ![i] = r]
      BY <2>1, <1>1, <1>2 DEF RunOne, RecordExtraction, PInv, PipelineTypeOK, ItemRow
    <3>2. r \in ItemRow /\ r.attempts = items[i].attempts /\ r.score = items[i].score
          /\ r.scored = items[i].scored /\ r.summary = items[i].summary
      BY <1>2 DEF ItemRow, Text
    <3> QED
      BY <3>1, <3>2
  <2>2. CASE outcome # "extracted"
    <3>1. PICK terminal \in BOOLEAN : RecordExtractionFailure(p, terminal)
      BY <2>2 DEF RunOne, Outcome
    <3> DEFINE n == AtLeast(items[i].tries + 1, IF terminal THEN MaxExtractAttempts ELSE 0)
               r == [[items[i] EXCEPT !.error = TRUE] EXCEPT !.tries = n]
    <3>2. n \in Nat
      BY <1>2, PipelineAssumption DEF AtLeast
    <3>3. items' = [items EXCEPT ![i] = r]
      BY <3>1, <1>1, <1>2 DEF RecordExtractionFailure, PInv, PipelineTypeOK, ItemRow
    <3> HIDE DEF n
    <3>4. r \in ItemRow /\ r.attempts = items[i].attempts /\ r.score = items[i].score
          /\ r.scored = items[i].scored /\ r.summary = items[i].summary
      BY <1>2, <3>2 DEF ItemRow
    <3> QED
      BY <3>3, <3>4
  <2> QED
    BY <2>1, <2>2
<1>4. charged' \in [Items -> SUBSET (Agents \X BOOLEAN)]
  <2>1. PICK S \in SUBSET (Agents \X BOOLEAN) : charged' = [charged EXCEPT ![i] = S]
    <3>1. charged[i] \in SUBSET (Agents \X BOOLEAN)
      BY <1>1 DEF PInv, PipelineTypeOK
    <3>2. \A b \in BOOLEAN : charged[i] \cup {<<p.agent, b>>} \in SUBSET (Agents \X BOOLEAN)
      BY <1>1, <3>1
    <3> QED
      BY <3>2 DEF RunOne, RecordExtraction, RecordExtractionFailure
  <2> QED
    BY <2>1 DEF PInv, PipelineTypeOK
<1>5. items \in [Items -> ItemRow \cup {None}]
  BY DEF PInv, PipelineTypeOK
<1>6. items' \in [Items -> ItemRow \cup {None}]
  BY <1>3, <1>5
<1>7. \A j \in Items : j # i => items'[j] = items[j]
  BY <1>3, <1>5
<1>8. items'[i] \in ItemRow /\ items'[i] # None
  BY <1>1, <1>3, <1>5, RowStored
<1> QED
  BY <1>1, <1>3, <1>4, <1>5, <1>6, <1>7, <1>8 DEF Stored
-----------------------------------------------------------------------------
LEMMA PipelineInit == Init => PInv
<1> SUFFICES ASSUME Init PROVE PInv
  OBVIOUS
<1>1. PipelineTypeOK
  BY PipelineAssumption
  DEF Init, PipelineTypeOK, IdleExtractor, IdleEnricher, Enricher
<1>2. Fetches /\ Passes /\ ScoreAnswersItsProfile
  BY DEF Init, Fetches, Passes, ScoreAnswersItsProfile, IdleExtractor, IdleEnricher, Stored
<1> QED
  BY <1>1, <1>2 DEF PInv

LEMMA ArriveInv ==
  ASSUME PInv, NEW i \in Items, NEW a \in Arrival, Arrive(i, a)
  PROVE  PInv'
<1> DEFINE row == [text |-> a.text, truncated |-> a.truncated, url |-> a.url,
                   extracted |-> FALSE, tries |-> 0, error |-> FALSE, summary |-> "none",
                   score |-> None, scored |-> None, attempts |-> 0]
<1>1. row \in ItemRow
  BY PipelineAssumption DEF Arrival, ItemRow, Text
<1>2. items' = [items EXCEPT ![i] = row] /\ ~Stored(i)
  BY DEF Arrive
<1>3. row.scored = None /\ row # None
  BY <1>1, RowStored
<1> HIDE DEF row
<1>4. items' \in [Items -> ItemRow \cup {None}]
  BY <1>1, <1>2 DEF PInv, PipelineTypeOK
<1>5. PipelineTypeOK'
  BY <1>4 DEF PInv, PipelineTypeOK, Arrive
<1>6. \A j \in Items : Stored(j) => items'[j] = items[j]
  BY <1>2 DEF PInv, PipelineTypeOK, Stored
<1>7. \A j \in Items : ~Stored(j) /\ Stored(j)' => items'[j].scored = None
  BY <1>2, <1>3 DEF PInv, PipelineTypeOK, Stored
<1>8. Passes' /\ ScoreAnswersItsProfile'
  BY <1>4, <1>6, <1>7, KeepsScores DEF Arrive, Stored
<1>9. Fetches'
  BY <1>6, KeepsFetches DEF Arrive, Stored
<1> QED
  BY <1>5, <1>8, <1>9 DEF PInv

LEMMA PendingOfTyped ==
  ASSUME PipelineTypeOK, NEW i \in Items
  PROVE  PendingOf(i) \in Pending /\ PendingOf(i).id = i
BY PipelineAssumption DEF PipelineTypeOK, PendingOf, Pending

LEMMA ExtractListInv == ASSUME PInv, ExtractList PROVE PInv'
<1>1. PICK S \in SUBSET {i \in Items : PendingExtraction(i)} :
        extractor' = [extractor EXCEPT !.batch = {PendingOf(i) : i \in S}]
  BY DEF ExtractList
<1>2. extractor'.batch = {PendingOf(i) : i \in S} /\ extractor'.page = None
  BY <1>1 DEF ExtractList, IdleExtractor
<1>3. \A p \in extractor'.batch : p \in Pending /\ Stored(p.id)
  BY <1>2, PendingOfTyped DEF PInv, PendingExtraction
<1>4. extractor' \in [batch : SUBSET Pending, page : Pending \cup {None}]
  BY <1>1, <1>2, <1>3 DEF PInv, PipelineTypeOK
<1>5. PipelineTypeOK'
  BY <1>4 DEF PInv, PipelineTypeOK, ExtractList
<1>6. Fetches'
  BY <1>2, <1>3 DEF PInv, Fetches, ExtractList, Stored
<1>7. Passes' /\ ScoreAnswersItsProfile'
  BY KeepsScores DEF PInv, PipelineTypeOK, ExtractList, Stored
<1> QED
  BY <1>5, <1>6, <1>7 DEF PInv

LEMMA ExtractSkipInv ==
  ASSUME PInv, NEW p \in extractor.batch, ExtractSkip(p)
  PROVE  PInv'
<1>1. p \in Pending /\ Stored(p.id) /\ RunOne(p, "refused") /\ "refused" \in Outcome
  BY BatchTyped DEF PInv, Fetches, ExtractSkip, RunOne, Outcome
<1>2. /\ items' \in [Items -> ItemRow \cup {None}]
      /\ charged' \in [Items -> SUBSET (Agents \X BOOLEAN)]
      /\ \A i \in Items : Stored(i) => /\ Stored(i)'
                                       /\ items'[i].attempts = items[i].attempts
                                       /\ items'[i].score = items[i].score
                                       /\ items'[i].scored = items[i].scored
      /\ \A i \in Items : ~Stored(i) => ~Stored(i)'
  BY <1>1, RunOneRow
<1>3. extractor' = [extractor EXCEPT !.batch = @ \ {p}]
  BY DEF ExtractSkip
<1>4. PipelineTypeOK'
  BY <1>2, <1>3 DEF PInv, PipelineTypeOK, ExtractSkip
<1>5. Fetches'
  <2>1. extractor'.batch \subseteq extractor.batch /\ extractor'.page = None
    BY <1>3 DEF PInv, PipelineTypeOK, ExtractSkip
  <2> QED
    BY <1>2, <2>1, BatchTyped DEF PInv, Fetches, ExtractSkip
<1>6. Passes' /\ ScoreAnswersItsProfile'
  BY <1>2, KeepsScores DEF ExtractSkip
<1> QED
  BY <1>4, <1>5, <1>6 DEF PInv

LEMMA ExtractFetchInv ==
  ASSUME PInv, NEW p \in extractor.batch, ExtractFetch(p)
  PROVE  PInv'
<1>1. p \in Pending /\ Stored(p.id) /\ ~Refusing(p)
  BY BatchTyped DEF PInv, Fetches, ExtractFetch
<1>2. extractor'.batch = extractor.batch \ {p} /\ extractor'.page = p
  BY DEF ExtractFetch
<1>3. PipelineTypeOK'
  BY <1>1 DEF PInv, PipelineTypeOK, ExtractFetch
<1>4. Fetches'
  BY <1>1, <1>2 DEF PInv, Fetches, ExtractFetch, Stored, Refusing
<1>5. Passes' /\ ScoreAnswersItsProfile'
  BY KeepsScores DEF PInv, PipelineTypeOK, ExtractFetch, Stored
<1> QED
  BY <1>3, <1>4, <1>5 DEF PInv

LEMMA ExtractFinishInv ==
  ASSUME PInv, NEW outcome \in Outcome, ExtractFinish(outcome)
  PROVE  PInv'
<1> DEFINE p == extractor.page
           n == CASE outcome = "refused"   -> refusals[KeyOf(p)] + 1
                  [] outcome = "extracted" -> 0
                  [] OTHER                 -> refusals[KeyOf(p)]
<1>1. p \in Pending /\ Stored(p.id) /\ RunOne(p, outcome) /\ ~Refusing(p)
  BY BatchTyped DEF PInv, Fetches, ExtractFinish
<1>2. /\ items' \in [Items -> ItemRow \cup {None}]
      /\ charged' \in [Items -> SUBSET (Agents \X BOOLEAN)]
      /\ \A i \in Items : Stored(i) => /\ Stored(i)'
                                       /\ items'[i].attempts = items[i].attempts
                                       /\ items'[i].score = items[i].score
                                       /\ items'[i].scored = items[i].scored
      /\ \A i \in Items : ~Stored(i) => ~Stored(i)'
  BY <1>1, RunOneRow
<1>3. KeyOf(p) \in Hosts \X Agents
  BY <1>1, KeyTyped
<1>4. refusals \in [Hosts \X Agents -> 0..MaxHostRefusals]
  BY DEF PInv, PipelineTypeOK
<1>5. refusals[KeyOf(p)] \in 0..MaxHostRefusals /\ refusals[KeyOf(p)] < MaxHostRefusals
  BY <1>1, <1>3, <1>4, PipelineAssumption DEF Refusing
<1>6. n \in 0..MaxHostRefusals
  BY <1>5, PipelineAssumption
<1>7. refusals' = [refusals EXCEPT ![KeyOf(p)] = n]
  BY <1>3, <1>4 DEF ExtractFinish
<1> HIDE DEF n
<1>8. refusals' \in [Hosts \X Agents -> 0..MaxHostRefusals]
  BY <1>4, <1>6, <1>7
<1>9. extractor' = [extractor EXCEPT !.page = None]
  BY DEF ExtractFinish
<1>10. PipelineTypeOK'
  BY <1>2, <1>8, <1>9 DEF PInv, PipelineTypeOK, ExtractFinish
<1>11. Fetches'
  <2>1. extractor'.batch = extractor.batch /\ extractor'.page = None
    BY <1>9 DEF PInv, PipelineTypeOK
  <2> QED
    BY <1>2, <2>1, BatchTyped DEF PInv, Fetches, ExtractFinish
<1>12. Passes' /\ ScoreAnswersItsProfile'
  BY <1>2, KeepsScores DEF ExtractFinish
<1> QED
  BY <1>10, <1>11, <1>12 DEF PInv

LEMMA OpenStartInv ==
  ASSUME PInv, NEW r \in Readers, NEW i \in Items, OpenStart(r, i)
  PROVE  PInv'
<1>1. PendingOf(i) \in Pending /\ PendingOf(i).id = i /\ Stored(i)
  BY PendingOfTyped DEF PInv, OpenStart, PendingExtraction
<1>2. PipelineTypeOK'
  BY <1>1 DEF PInv, PipelineTypeOK, OpenStart
<1>3. \A q \in Readers : opening'[q] # None => Stored(opening'[q].id)
  BY <1>1 DEF PInv, PipelineTypeOK, Fetches, OpenStart
<1>4. Fetches'
  BY <1>3 DEF PInv, Fetches, OpenStart, Stored, Refusing
<1>5. Passes' /\ ScoreAnswersItsProfile'
  BY KeepsScores DEF PInv, PipelineTypeOK, OpenStart, Stored
<1> QED
  BY <1>2, <1>4, <1>5 DEF PInv

LEMMA OpenFinishInv ==
  ASSUME PInv, NEW r \in Readers, NEW outcome \in Outcome, OpenFinish(r, outcome)
  PROVE  PInv'
<1>1. opening[r] \in Pending /\ Stored(opening[r].id) /\ RunOne(opening[r], outcome)
  BY BatchTyped DEF PInv, Fetches, OpenFinish
<1>2. /\ items' \in [Items -> ItemRow \cup {None}]
      /\ charged' \in [Items -> SUBSET (Agents \X BOOLEAN)]
      /\ \A i \in Items : Stored(i) => /\ Stored(i)'
                                       /\ items'[i].attempts = items[i].attempts
                                       /\ items'[i].score = items[i].score
                                       /\ items'[i].scored = items[i].scored
      /\ \A i \in Items : ~Stored(i) => ~Stored(i)'
  BY <1>1, RunOneRow
<1>3. opening' = [opening EXCEPT ![r] = None]
  BY DEF OpenFinish
<1>4. PipelineTypeOK'
  BY <1>2, <1>3 DEF PInv, PipelineTypeOK, OpenFinish
<1>5. \A q \in Readers : opening'[q] # None => items'[opening'[q].id] # None
  <2>1. \A q \in Readers : opening'[q] # None => opening'[q] = opening[q]
    BY <1>3 DEF PInv, PipelineTypeOK
  <2>2. \A q \in Readers : opening[q] # None => opening[q].id \in Items /\ Stored(opening[q].id)
    BY BatchTyped DEF PInv, Fetches
  <2>3. \A q \in Readers : opening[q] # None => items'[opening[q].id] # None
    BY <1>2, <2>2 DEF Stored
  <2> QED
    BY <2>1, <2>3 DEF Stored
<1>6. Fetches'
  BY <1>2, <1>5, BatchTyped DEF PInv, Fetches, OpenFinish, Refusing, Stored
<1>7. Passes' /\ ScoreAnswersItsProfile'
  BY <1>2, KeepsScores DEF OpenFinish
<1> QED
  BY <1>4, <1>6, <1>7 DEF PInv

LEMMA OpenTimeoutInv == ASSUME PInv, NEW r \in Readers, OpenTimeout(r) PROVE PInv'
<1>1. PipelineTypeOK'
  BY DEF PInv, PipelineTypeOK, OpenTimeout
<1>2. \A q \in Readers : opening'[q] # None => Stored(opening'[q].id)
  BY DEF PInv, PipelineTypeOK, Fetches, OpenTimeout
<1>3. Fetches'
  BY <1>2 DEF PInv, Fetches, OpenTimeout, Stored, Refusing
<1>4. Passes' /\ ScoreAnswersItsProfile'
  BY KeepsScores DEF PInv, PipelineTypeOK, OpenTimeout, Stored
<1> QED
  BY <1>1, <1>3, <1>4 DEF PInv
-----------------------------------------------------------------------------
LEMMA IdleTyped == IdleEnricher \in Enricher /\ IdleEnricher.batch = {}
BY PipelineAssumption DEF IdleEnricher, Enricher

\* Steps that touch neither the items nor what is fetched.
LEMMA KeepsItems ==
  ASSUME PInv, UNCHANGED <<items, extractor, refusals, opening>>
  PROVE  Fetches' /\ ScoreAnswersItsProfile'
BY DEF PInv, Fetches, ScoreAnswersItsProfile, Stored, Refusing

LEMMA EnrichLoadInv == ASSUME PInv, EnrichLoad PROVE PInv'
<1>1. /\ enricher' \in Enricher
      /\ enricher'.batch = {}
  BY DEF PInv, PipelineTypeOK, Passes, Enricher, EnrichLoad
<1>2. PipelineTypeOK'
  BY <1>1 DEF PInv, PipelineTypeOK, EnrichLoad
<1> QED
  BY <1>1, <1>2, KeepsItems DEF PInv, Passes, EnrichLoad

LEMMA EnrichListInv == ASSUME PInv, EnrichList PROVE PInv'
<1>1. PICK S \in SUBSET DueForEnrichment(enricher.profile) :
        enricher' = IF S = {} THEN IdleEnricher
                    ELSE [enricher EXCEPT !.stage = "asking",
                                          !.batch = {CandidateOf(i) : i \in S}]
  BY DEF EnrichList
<1>2. CASE S = {}
  BY <1>1, <1>2, IdleTyped, KeepsItems DEF PInv, PipelineTypeOK, Passes, EnrichList
<1>3. CASE S # {}
  <2>1. /\ enricher' = [enricher EXCEPT !.stage = "asking",
                                        !.batch = {CandidateOf(i) : i \in S}]
        /\ enricher'.batch = {CandidateOf(i) : i \in S}
        /\ enricher'.stage = "asking"
    BY <1>1, <1>3 DEF PInv, PipelineTypeOK, Enricher
  <2>2. \A i \in S : /\ i \in Items
                     /\ Stored(i)
                     /\ items[i].attempts < MaxEnrichAttempts
    BY DEF DueForEnrichment
  <2>3. \A i \in S : CandidateOf(i) \in Candidate /\ CandidateOf(i).id = i
    BY <2>2, RowTyped DEF PInv, CandidateOf, Candidate, Summarized
  <2>4. enricher' \in Enricher
    <3>1. {CandidateOf(i) : i \in S} \in SUBSET Candidate
      BY <2>3
    <3> QED
      BY <2>1, <3>1 DEF PInv, PipelineTypeOK, Enricher
  <2>5. PipelineTypeOK'
    BY <2>4 DEF PInv, PipelineTypeOK, EnrichList
  <2>6. \A c \in enricher'.batch : Stored(c.id) /\ items[c.id].attempts < MaxEnrichAttempts
    BY <2>1, <2>2, <2>3
  <2>7. \A c, d \in enricher'.batch : c.id = d.id => c = d
    BY <2>1, <2>3
  <2>8. Passes'
    BY <2>1, <2>6, <2>7 DEF Passes, EnrichList, Stored
  <2> QED
    BY <2>5, <2>8, KeepsItems DEF PInv, EnrichList
<1> QED
  BY <1>2, <1>3

LEMMA DoneTyped ==
  ASSUME PInv, NEW c \in enricher.batch, enricher' = Done(c)
  PROVE  /\ enricher' \in Enricher
         /\ enricher'.batch = enricher.batch \ {c}
         /\ enricher'.stage # "asking" => enricher'.batch = {}
         /\ \A d \in enricher'.batch : d \in enricher.batch /\ d.id # c.id
BY IdleTyped DEF PInv, PipelineTypeOK, Passes, Enricher, Done, IdleEnricher

\* A candidate's outcome changes the row of its item and no other.
LEMMA OutcomeInv ==
  ASSUME PInv, NEW c \in enricher.batch, NEW row \in ItemRow,
         items' = [items EXCEPT ![c.id] = row], enricher' = Done(c),
         row.scored # None => row.score = ScoreOf(row.scored),
         UNCHANGED <<agent, llm, profile, extractor, refusals, opening, edits, restarts,
                     charged>>
  PROVE  PInv'
<1>1. c.id \in Items /\ Stored(c.id)
  BY CandidateTyped DEF PInv, Passes
<1>2. items \in [Items -> ItemRow \cup {None}]
  BY DEF PInv, PipelineTypeOK
<1>3. items' \in [Items -> ItemRow \cup {None}] /\ items'[c.id] = row
  BY <1>1, <1>2
<1>4. \A i \in Items : i # c.id => items'[i] = items[i]
  BY <1>2
<1>5. \A i \in Items : Stored(i) => Stored(i)'
  BY <1>3, <1>4, RowStored DEF Stored
<1>6. PipelineTypeOK'
  BY <1>3, DoneTyped DEF PInv, PipelineTypeOK
<1>7. Fetches'
  BY <1>5, KeepsFetches
<1>8. Passes'
  BY <1>4, <1>5, DoneTyped, CandidateTyped DEF PInv, Passes
<1>9. ScoreAnswersItsProfile'
  BY <1>3, <1>4 DEF PInv, ScoreAnswersItsProfile, Stored, ScoreOf
<1> QED
  BY <1>6, <1>7, <1>8, <1>9 DEF PInv

LEMMA EnrichAnsweredInv ==
  ASSUME PInv, NEW c \in enricher.batch, EnrichAnswered(c)
  PROVE  /\ PInv'
         /\ \E row \in ItemRow : /\ items' = [items EXCEPT ![c.id] = row]
                                /\ row.extracted = items[c.id].extracted
                                /\ row.text = items[c.id].text
<1> DEFINE old == items[c.id]
           row == [old EXCEPT !.summary = IF c.rescore THEN old.summary ELSE c.text,
                              !.score = ScoreOf(enricher.profile),
                              !.scored = enricher.profile,
                              !.attempts = 0]
<1>1. c.id \in Items /\ old \in ItemRow /\ c.text \in Text
  BY CandidateTyped, RowTyped DEF PInv, Passes
<1>2. enricher.profile \in Profiles /\ 0 \in 0..MaxEnrichAttempts
  BY PipelineAssumption DEF PInv, PipelineTypeOK, Enricher
<1>3. /\ row \in ItemRow
      /\ row.scored = enricher.profile
      /\ row.score = ScoreOf(enricher.profile)
      /\ row.extracted = old.extracted /\ row.text = old.text
  BY <1>1, <1>2 DEF ItemRow, ScoreOf
<1>4. items' = [items EXCEPT ![c.id] = row]
  BY <1>1 DEF EnrichAnswered, PInv, PipelineTypeOK, ItemRow
<1> HIDE DEF row
<1> QED
  BY <1>3, <1>4, OutcomeInv DEF EnrichAnswered

LEMMA EnrichFailedInv ==
  ASSUME PInv, NEW c \in enricher.batch, EnrichFailed(c)
  PROVE  /\ PInv'
         /\ \E row \in ItemRow : /\ items' = [items EXCEPT ![c.id] = row]
                                /\ row.extracted = items[c.id].extracted
                                /\ row.text = items[c.id].text
<1> DEFINE old == items[c.id]
           row == [old EXCEPT !.attempts = old.attempts + 1]
<1>1. /\ c.id \in Items
      /\ Stored(c.id)
      /\ old \in ItemRow
      /\ old.attempts \in 0..MaxEnrichAttempts
      /\ old.attempts < MaxEnrichAttempts
  BY CandidateTyped, RowTyped DEF PInv, Passes
<1>2. old.attempts + 1 \in 0..MaxEnrichAttempts
  BY <1>1, PipelineAssumption
<1>3. /\ row \in ItemRow /\ row.scored = old.scored /\ row.score = old.score
      /\ row.extracted = old.extracted /\ row.text = old.text
  BY <1>1, <1>2 DEF ItemRow
<1>4. old.scored # None => old.score = ScoreOf(old.scored)
  BY <1>1 DEF PInv, ScoreAnswersItsProfile
<1>5. items' = [items EXCEPT ![c.id] = row]
  BY DEF EnrichFailed, PInv, PipelineTypeOK
<1> HIDE DEF row
<1> QED
  BY <1>3, <1>4, <1>5, OutcomeInv DEF EnrichFailed

LEMMA EnrichUnreachableInv ==
  ASSUME PInv, NEW c \in enricher.batch, EnrichUnreachable(c)
  PROVE  PInv'
<1>1. PipelineTypeOK'
  BY DoneTyped DEF PInv, PipelineTypeOK, EnrichUnreachable
<1>2. Passes'
  BY DoneTyped DEF PInv, Passes, EnrichUnreachable, Stored
<1> QED
  BY <1>1, <1>2, KeepsItems DEF PInv, EnrichUnreachable
-----------------------------------------------------------------------------
LEMMA SetAgentInv ==
  ASSUME PInv, NEW f \in Feeds, NEW a \in Agents, SetAgent(f, a)
  PROVE  /\ PInv'
         /\ \A i \in Items : Stored(i) => /\ Stored(i)'
                                          /\ items'[i].extracted = items[i].extracted
                                          /\ items'[i].text = items[i].text
         /\ \A i \in Items : ~Stored(i) => ~Stored(i)'
<1> DEFINE reset == {i \in Items : Stored(i) /\ FeedOf[i] = f /\ ~items[i].extracted}
           Row(i) == [[items[i] EXCEPT !.tries = 0] EXCEPT !.error = FALSE]
<1>1. /\ items' = [i \in Items |-> IF i \in reset THEN Row(i) ELSE items[i]]
      /\ charged' = [i \in Items |-> IF i \in reset THEN {} ELSE charged[i]]
  BY DEF SetAgent, PInv, PipelineTypeOK, ItemRow
<1>2. \A i \in reset : /\ Row(i) \in ItemRow
                       /\ Row(i).extracted = items[i].extracted
                       /\ Row(i).text = items[i].text
                       /\ Row(i).attempts = items[i].attempts
                       /\ Row(i).score = items[i].score
                       /\ Row(i).scored = items[i].scored
  BY RowTyped DEF PInv, ItemRow
<1>3. \A i \in reset : i \in Items /\ Stored(i) /\ Row(i) # None
  BY <1>2, RowStored
<1> HIDE DEF reset, Row
<1>4. items' \in [Items -> ItemRow \cup {None}]
  BY <1>1, <1>2 DEF PInv, PipelineTypeOK
<1>5. charged' \in [Items -> SUBSET (Agents \X BOOLEAN)]
  BY <1>1 DEF PInv, PipelineTypeOK
<1>6. PipelineTypeOK'
  BY <1>4, <1>5 DEF PInv, PipelineTypeOK, SetAgent
<1>7. /\ \A i \in Items : Stored(i) => /\ Stored(i)'
                                       /\ items'[i].extracted = items[i].extracted
                                       /\ items'[i].text = items[i].text
                                       /\ items'[i].attempts = items[i].attempts
                                       /\ items'[i].score = items[i].score
                                       /\ items'[i].scored = items[i].scored
      /\ \A i \in Items : ~Stored(i) => ~Stored(i)'
  BY <1>1, <1>2, <1>3 DEF Stored
<1>8. Passes' /\ ScoreAnswersItsProfile'
  BY <1>4, <1>7, KeepsScores DEF SetAgent
<1>9. Fetches'
  BY <1>7, KeepsFetches DEF SetAgent
<1> QED
  BY <1>6, <1>7, <1>8, <1>9 DEF PInv

LEMMA SetLlmInv ==
  ASSUME PInv, NEW f \in Feeds, NEW b \in BOOLEAN, SetLlm(f, b)
  PROVE  PInv'
<1>1. PipelineTypeOK'
  BY DEF PInv, PipelineTypeOK, SetLlm
<1>2. Passes'
  BY DEF PInv, Passes, SetLlm, Stored
<1> QED
  BY <1>1, <1>2, KeepsItems DEF PInv, SetLlm

LEMMA SaveProfileInv == ASSUME PInv, NEW p \in Profiles, SaveProfile(p) PROVE PInv'
<1>1. PipelineTypeOK'
  BY PipelineAssumption DEF PInv, PipelineTypeOK, SaveProfile
<1>2. Passes'
  BY DEF PInv, Passes, SaveProfile, Stored
<1> QED
  BY <1>1, <1>2, KeepsItems DEF PInv, SaveProfile

LEMMA RestartInv == ASSUME PInv, Restart PROVE PInv'
<1>1. PipelineTypeOK'
  BY IdleTyped, PipelineAssumption DEF PInv, PipelineTypeOK, Restart, IdleExtractor
<1>2. Fetches' /\ Passes' /\ ScoreAnswersItsProfile'
  BY DEF PInv, Fetches, Passes, ScoreAnswersItsProfile, Restart, IdleExtractor,
         IdleEnricher, Stored
<1> QED
  BY <1>1, <1>2 DEF PInv

LEMMA PipelineStep == PInv /\ [Next]_pipelineVars => PInv'
<1> SUFFICES ASSUME PInv, [Next]_pipelineVars PROVE PInv'
  OBVIOUS
<1>1. CASE \E i \in Items, a \in Arrival : Arrive(i, a)
  BY <1>1, ArriveInv
<1>2. CASE ExtractList
  BY <1>2, ExtractListInv
<1>3. CASE \E pending \in extractor.batch : ExtractSkip(pending) \/ ExtractFetch(pending)
  BY <1>3, ExtractSkipInv, ExtractFetchInv
<1>4. CASE \E outcome \in Outcome : ExtractFinish(outcome)
  BY <1>4, ExtractFinishInv
<1>5. CASE \E r \in Readers : \/ \E i \in Items : OpenStart(r, i)
                              \/ \E outcome \in Outcome : OpenFinish(r, outcome)
                              \/ OpenTimeout(r)
  BY <1>5, OpenStartInv, OpenFinishInv, OpenTimeoutInv
<1>6. CASE EnrichLoad \/ EnrichList
  BY <1>6, EnrichLoadInv, EnrichListInv
<1>7. CASE \E c \in enricher.batch :
             EnrichAnswered(c) \/ EnrichFailed(c) \/ EnrichUnreachable(c)
  BY <1>7, EnrichAnsweredInv, EnrichFailedInv, EnrichUnreachableInv
<1>8. CASE \E f \in Feeds : \/ \E a \in Agents : SetAgent(f, a)
                            \/ \E b \in BOOLEAN : SetLlm(f, b)
  BY <1>8, SetAgentInv, SetLlmInv
<1>9. CASE \E p \in Profiles : SaveProfile(p)
  BY <1>9, SaveProfileInv
<1>10. CASE Restart
  BY <1>10, RestartInv
<1>11. CASE UNCHANGED pipelineVars
  BY <1>11 DEF pipelineVars, PInv, PipelineTypeOK, Fetches, Passes,
               ScoreAnswersItsProfile, Stored, Refusing
<1> QED
  BY <1>1, <1>2, <1>3, <1>4, <1>5, <1>6, <1>7, <1>8, <1>9, <1>10, <1>11 DEF Next

\* The columns keep their ranges: no item is charged more failures than
\* MAX_ATTEMPTS of enrich.rs, and no host counts more refusals than
\* MAX_HOST_REFUSALS.
THEOREM PipelineTypes == Spec => []PipelineTypeOK
<1>1. PInv => PipelineTypeOK
  BY DEF PInv
<1> QED
  BY PipelineInit, PipelineStep, <1>1, PTL DEF Spec

\* A score was always given for the profile the row names, although the profile
\* may be edited while the model answers.
THEOREM ScoresAnswer == Spec => []ScoreAnswersItsProfile
<1>1. PInv => ScoreAnswersItsProfile
  BY DEF PInv
<1> QED
  BY PipelineInit, PipelineStep, <1>1, PTL DEF Spec
-----------------------------------------------------------------------------
(* How often an item is charged.  An item that has failures left is fetched   *)
(* by the worker once and by each request once; from then on every failure    *)
(* that is recorded is one of those that were under way.                      *)

\* The worker has one charge for an item: in its batch, or at the page.
WorkerOnce ==
  /\ \A p, q \in extractor.batch : p.id = q.id => p = q
  /\ extractor.page # None => \A p \in extractor.batch : p.id # extractor.page.id

Works(i) ==
  \/ \E p \in extractor.batch : p.id = i
  \/ extractor.page # None /\ extractor.page.id = i

Fetchers(f, i) == {r \in Readers : f[r] # None /\ f[r].id = i}

UnderWay(i) == Cardinality(Fetchers(opening, i)) + (IF Works(i) THEN 1 ELSE 0)

Charges ==
  \A i \in Items :
    Stored(i) => items[i].tries + UnderWay(i) <= MaxExtractAttempts + Cardinality(Readers)

BInv == PInv /\ WorkerOnce /\ Charges

LEMMA FetchersTyped ==
  ASSUME NEW f, NEW i
  PROVE  /\ IsFiniteSet(Fetchers(f, i))
         /\ Cardinality(Fetchers(f, i)) \in Nat /\ Cardinality(Readers) \in Nat
         /\ Cardinality(Fetchers(f, i)) <= Cardinality(Readers)
<1>1. IsFiniteSet(Readers) /\ Fetchers(f, i) \in SUBSET Readers
  BY PipelineAssumption DEF Fetchers
<1> QED
  BY <1>1, FS_Subset, FS_CardinalityType

\* Dropping one of them makes one less, dropping any makes no more.
LEMMA FetchersDrop ==
  ASSUME NEW f, NEW g, NEW i
  PROVE  /\ Fetchers(g, i) \subseteq Fetchers(f, i)
              => Cardinality(Fetchers(g, i)) <= Cardinality(Fetchers(f, i))
         /\ \A r \in Fetchers(f, i) :
              Fetchers(g, i) = Fetchers(f, i) \ {r}
                => Cardinality(Fetchers(g, i)) = Cardinality(Fetchers(f, i)) - 1
<1>1. IsFiniteSet(Fetchers(f, i))
  BY FetchersTyped
<1> QED
  BY <1>1, FS_Subset, FS_RemoveElement

\* What may become of each row and of what is under way for it.
LEMMA ChargesKept ==
  ASSUME BInv,
         \A i \in Items : items'[i] # None =>
           \/ items'[i].tries \in Nat /\ items'[i].tries < MaxExtractAttempts
           \/ items'[i].tries = MaxExtractAttempts /\ UnderWay(i)' <= Cardinality(Readers)
           \/ /\ Stored(i) /\ items'[i].tries \in Nat
              /\ items'[i].tries + UnderWay(i)' <= items[i].tries + UnderWay(i)
  PROVE  Charges'
<1> SUFFICES ASSUME NEW i \in Items, items'[i] # None
             PROVE  items'[i].tries + UnderWay(i)' <= MaxExtractAttempts + Cardinality(Readers)
  BY DEF Charges, Stored
<1> DEFINE a == Cardinality(Fetchers(opening, i))
           b == Cardinality(Fetchers(opening', i))
<1>1. a \in Nat /\ b \in Nat /\ Cardinality(Readers) \in Nat /\ b <= Cardinality(Readers)
  BY FetchersTyped
<1>2. MaxExtractAttempts \in Nat
  BY PipelineAssumption
<1>3. /\ UnderWay(i) = a + (IF Works(i) THEN 1 ELSE 0)
      /\ UnderWay(i)' = b + (IF Works(i)' THEN 1 ELSE 0)
  BY DEF UnderWay
<1>4. Stored(i) => /\ items[i].tries \in Nat
                   /\ items[i].tries + UnderWay(i) <= MaxExtractAttempts + Cardinality(Readers)
  BY RowTyped DEF BInv, PInv, Charges
<1> HIDE DEF a, b
<1>5. CASE items'[i].tries \in Nat /\ items'[i].tries < MaxExtractAttempts
  BY <1>1, <1>2, <1>3, <1>5
<1>6. CASE items'[i].tries = MaxExtractAttempts /\ UnderWay(i)' <= Cardinality(Readers)
  BY <1>1, <1>2, <1>3, <1>6
<1>7. CASE /\ Stored(i) /\ items'[i].tries \in Nat
           /\ items'[i].tries + UnderWay(i)' <= items[i].tries + UnderWay(i)
  BY <1>1, <1>2, <1>3, <1>4, <1>7
<1> QED
  BY <1>5, <1>6, <1>7

\* Steps that charge nothing and start nothing.
LEMMA ChargesIdle ==
  ASSUME BInv, UNCHANGED extractor,
         \A i \in Items : items'[i] # None =>
           \/ items'[i].tries = 0
           \/ Stored(i) /\ items'[i].tries = items[i].tries,
         \A i \in Items : Fetchers(opening', i) \subseteq Fetchers(opening, i)
  PROVE  Charges'
<1> SUFFICES ASSUME NEW i \in Items, items'[i] # None
             PROVE  \/ items'[i].tries \in Nat /\ items'[i].tries < MaxExtractAttempts
                    \/ /\ Stored(i) /\ items'[i].tries \in Nat
                       /\ items'[i].tries + UnderWay(i)' <= items[i].tries + UnderWay(i)
  BY ChargesKept
<1>1. CASE items'[i].tries = 0
  BY <1>1, PipelineAssumption
<1>2. CASE Stored(i) /\ items'[i].tries = items[i].tries
  <2> DEFINE a == Cardinality(Fetchers(opening, i))
             b == Cardinality(Fetchers(opening', i))
  <2>1. a \in Nat /\ b \in Nat /\ b <= a
    BY FetchersTyped, FetchersDrop
  <2>2. Works(i)' = Works(i)
    BY DEF Works
  <2>3. /\ UnderWay(i) = a + (IF Works(i) THEN 1 ELSE 0)
        /\ UnderWay(i)' = b + (IF Works(i) THEN 1 ELSE 0)
    BY <2>2 DEF UnderWay
  <2>4. items[i].tries \in Nat
    BY <1>2, RowTyped DEF BInv, PInv
  <2> HIDE DEF a, b
  <2> QED
    BY <1>2, <2>1, <2>3, <2>4
<1> QED
  BY <1>1, <1>2

\* What an outcome of a fetch does to the count of its item.
LEMMA RunOneTries ==
  ASSUME PInv, NEW p \in Pending, Stored(p.id), NEW outcome \in Outcome, RunOne(p, outcome)
  PROVE  items'[p.id].tries \in {0, items[p.id].tries + 1, MaxExtractAttempts}
<1>1. /\ p.id \in Items /\ items \in [Items -> ItemRow \cup {None}]
      /\ items[p.id] \in ItemRow /\ items[p.id].tries \in Nat
  BY RowTyped DEF PInv, PipelineTypeOK, Pending
<1> DEFINE i == p.id
<1>2. CASE outcome = "extracted"
  <2> DEFINE r == [[[[items[i] EXCEPT !.text = "article"] EXCEPT !.extracted = TRUE]
                      EXCEPT !.error = FALSE] EXCEPT !.tries = 0]
  <2>1. items' = [items EXCEPT ![i] = r]
    BY <1>1, <1>2 DEF RunOne, RecordExtraction, ItemRow
  <2>2. r.tries = 0
    BY <1>1 DEF ItemRow
  <2> QED
    BY <1>1, <2>1, <2>2
<1>3. CASE outcome # "extracted"
  <2>1. PICK terminal \in BOOLEAN : RecordExtractionFailure(p, terminal)
    BY <1>3 DEF RunOne, Outcome
  <2> DEFINE n == AtLeast(items[i].tries + 1, IF terminal THEN MaxExtractAttempts ELSE 0)
             r == [[items[i] EXCEPT !.error = TRUE] EXCEPT !.tries = n]
  <2>2. n \in {items[i].tries + 1, MaxExtractAttempts}
    BY <1>1, PipelineAssumption DEF AtLeast
  <2>3. items' = [items EXCEPT ![i] = r]
    BY <1>1, <2>1 DEF RecordExtractionFailure, ItemRow
  <2> HIDE DEF n
  <2>4. r.tries = n
    BY <1>1 DEF ItemRow
  <2> QED
    BY <1>1, <2>2, <2>3, <2>4
<1> QED
  BY <1>2, <1>3

\* A fetch of p ends that was under way for its item, and what is under way for
\* the others stays.
LEMMA ChargesEnd ==
  ASSUME BInv, NEW p \in Pending, Stored(p.id), NEW outcome \in Outcome, RunOne(p, outcome),
         UnderWay(p.id)' <= UnderWay(p.id) - 1, UnderWay(p.id)' <= Cardinality(Readers),
         UnderWay(p.id) \in Nat, UnderWay(p.id)' \in Nat,
         \A i \in Items \ {p.id} : UnderWay(i)' = UnderWay(i)
  PROVE  Charges'
<1>1. PInv
  BY DEF BInv
<1>2. /\ \A i \in Items : i # p.id => items'[i] = items[i]
      /\ items'[p.id].tries \in {0, items[p.id].tries + 1, MaxExtractAttempts}
  BY <1>1, RunOneRow, RunOneTries
<1>3. p.id \in Items /\ items[p.id].tries \in Nat
  BY <1>1, RowTyped DEF Pending, PInv
<1> SUFFICES ASSUME NEW i \in Items, items'[i] # None
             PROVE  \/ items'[i].tries \in Nat /\ items'[i].tries < MaxExtractAttempts
                    \/ items'[i].tries = MaxExtractAttempts /\ UnderWay(i)' <= Cardinality(Readers)
                    \/ /\ Stored(i) /\ items'[i].tries \in Nat
                       /\ items'[i].tries + UnderWay(i)' <= items[i].tries + UnderWay(i)
  BY ChargesKept
<1>4. CASE i = p.id
  BY <1>2, <1>3, <1>4, PipelineAssumption
<1>5. CASE i # p.id
  <2>1. Stored(i) /\ items'[i] = items[i] /\ items[i].tries \in Nat
    BY <1>1, <1>2, <1>5, RowTyped DEF PInv, Stored
  <2>2. UnderWay(i)' = UnderWay(i) /\ UnderWay(i) \in Nat
    BY <1>5, FetchersTyped DEF UnderWay
  <2> QED
    BY <2>1, <2>2
<1> QED
  BY <1>4, <1>5

LEMMA ExtractListCharges == ASSUME BInv, ExtractList PROVE WorkerOnce' /\ Charges'
<1>1. PInv /\ extractor = IdleExtractor
  BY DEF BInv, ExtractList
<1>2. PICK S \in SUBSET Items :
        /\ \A i \in S : PendingExtraction(i)
        /\ extractor' = [extractor EXCEPT !.batch = {PendingOf(i) : i \in S}]
  BY DEF ExtractList
<1>3. /\ extractor'.batch = {PendingOf(i) : i \in S} /\ extractor'.page = None
      /\ \A i \in S : PendingOf(i).id = i
      /\ UNCHANGED <<items, opening>>
  BY <1>1, <1>2 DEF IdleExtractor, PendingOf, ExtractList
<1>4. WorkerOnce'
  BY <1>3 DEF WorkerOnce
<1>5. ASSUME NEW i \in Items, items'[i] # None
      PROVE  \/ items'[i].tries \in Nat /\ items'[i].tries < MaxExtractAttempts
             \/ /\ Stored(i) /\ items'[i].tries \in Nat
                /\ items'[i].tries + UnderWay(i)' <= items[i].tries + UnderWay(i)
  <2>1. Stored(i) /\ items[i].tries \in Nat
    BY <1>1, <1>3, <1>5, RowTyped DEF PInv, Stored
  <2>2. CASE i \in S
    BY <1>2, <1>3, <2>1, <2>2 DEF PendingExtraction
  <2>3. CASE i \notin S
    <3>1. ~Works(i)'
      BY <1>3, <2>3 DEF Works
    <3>2. Cardinality(Fetchers(opening, i)) \in Nat
      BY FetchersTyped
    <3>3. UnderWay(i)' <= UnderWay(i) /\ UnderWay(i) \in Nat /\ UnderWay(i)' \in Nat
      BY <1>3, <3>1, <3>2 DEF UnderWay
    <3> QED
      BY <1>3, <2>1, <3>3
  <2> QED
    BY <2>2, <2>3
<1> QED
  BY <1>4, <1>5, ChargesKept

LEMMA ExtractSkipCharges ==
  ASSUME BInv, NEW p \in extractor.batch, ExtractSkip(p) PROVE WorkerOnce' /\ Charges'
<1>1. p \in Pending /\ Stored(p.id) /\ RunOne(p, "refused") /\ "refused" \in Outcome
  BY BatchTyped DEF BInv, PInv, Fetches, ExtractSkip, RunOne, Outcome
<1>2. /\ extractor'.batch = extractor.batch \ {p} /\ extractor'.page = None
      /\ extractor.page = None /\ opening' = opening
  BY DEF BInv, PInv, PipelineTypeOK, ExtractSkip
<1>3. WorkerOnce'
  BY <1>2 DEF BInv, WorkerOnce
<1>4. Works(p.id) /\ ~Works(p.id)' /\ \A i \in Items \ {p.id} : Works(i)' = Works(i)
  BY <1>2 DEF BInv, WorkerOnce, Works
<1>5. \A i : /\ Cardinality(Fetchers(opening, i)) \in Nat
             /\ Cardinality(Fetchers(opening, i)) <= Cardinality(Readers)
  BY FetchersTyped
<1>6. Cardinality(Readers) \in Nat
  BY FetchersTyped
<1>7. /\ UnderWay(p.id)' <= UnderWay(p.id) - 1 /\ UnderWay(p.id)' <= Cardinality(Readers)
      /\ UnderWay(p.id) \in Nat /\ UnderWay(p.id)' \in Nat
      /\ \A i \in Items \ {p.id} : UnderWay(i)' = UnderWay(i)
  BY <1>2, <1>4, <1>5, <1>6 DEF UnderWay
<1> QED
  BY <1>1, <1>3, <1>7, ChargesEnd

LEMMA ExtractFetchCharges ==
  ASSUME BInv, NEW p \in extractor.batch, ExtractFetch(p) PROVE WorkerOnce' /\ Charges'
<1>1. PInv /\ p # None
  BY BatchTyped, PipelineNone DEF BInv, PInv
<1>2. /\ extractor'.batch = extractor.batch \ {p} /\ extractor'.page = p
      /\ extractor.page = None /\ UNCHANGED <<items, opening>>
  BY DEF ExtractFetch
<1>3. WorkerOnce'
  BY <1>2 DEF BInv, WorkerOnce
<1>4. \A i \in Items : Works(i)' = Works(i)
  BY <1>1, <1>2 DEF Works
<1>5. ASSUME NEW i \in Items, items'[i] # None
      PROVE  /\ Stored(i) /\ items'[i].tries \in Nat
             /\ items'[i].tries + UnderWay(i)' <= items[i].tries + UnderWay(i)
  <2>1. Stored(i) /\ items'[i].tries = items[i].tries /\ items[i].tries \in Nat
    BY <1>1, <1>2, <1>5, RowTyped DEF PInv, Stored
  <2>2. UnderWay(i)' = UnderWay(i) /\ UnderWay(i) \in Nat
    BY <1>2, <1>4, FetchersTyped DEF UnderWay
  <2> QED
    BY <2>1, <2>2
<1> QED
  BY <1>3, <1>5, ChargesKept

LEMMA ExtractFinishCharges ==
  ASSUME BInv, NEW outcome \in Outcome, ExtractFinish(outcome) PROVE WorkerOnce' /\ Charges'
<1>1. PICK p \in Pending : p = extractor.page
  BY BatchTyped DEF BInv, PInv, ExtractFinish
<1>2. Stored(p.id) /\ RunOne(p, outcome) /\ extractor.page # None
  BY <1>1 DEF BInv, PInv, Fetches, ExtractFinish
<1>3. /\ extractor'.batch = extractor.batch /\ extractor'.page = None /\ opening' = opening
  BY DEF BInv, PInv, PipelineTypeOK, ExtractFinish
<1>4. WorkerOnce'
  BY <1>3 DEF BInv, WorkerOnce
<1>5. Works(p.id) /\ (\A i : Works(i)' <=> Works(i) /\ i # p.id)
  BY <1>1, <1>2, <1>3 DEF BInv, WorkerOnce, Works
<1>6. \A i : /\ Cardinality(Fetchers(opening, i)) \in Nat
             /\ Cardinality(Fetchers(opening, i)) <= Cardinality(Readers)
  BY FetchersTyped
<1>7. Cardinality(Readers) \in Nat
  BY FetchersTyped
<1>8. \A i : UnderWay(i)' = Cardinality(Fetchers(opening, i)) + (IF Works(i)' THEN 1 ELSE 0)
  BY <1>3 DEF UnderWay
<1>9. /\ UnderWay(p.id)' <= UnderWay(p.id) - 1 /\ UnderWay(p.id)' <= Cardinality(Readers)
      /\ UnderWay(p.id) \in Nat /\ UnderWay(p.id)' \in Nat
      /\ \A i \in Items \ {p.id} : UnderWay(i)' = UnderWay(i)
  BY <1>5, <1>6, <1>7, <1>8 DEF UnderWay
<1> QED
  BY <1>2, <1>4, <1>9, ChargesEnd

LEMMA OpenStartCharges ==
  ASSUME BInv, NEW r \in Readers, NEW i \in Items, OpenStart(r, i) PROVE Charges'
<1>1. /\ PInv /\ PendingExtraction(i) /\ PendingOf(i).id = i
      /\ opening' = [opening EXCEPT ![r] = PendingOf(i)] /\ opening[r] = None
      /\ UNCHANGED <<items, extractor>>
  BY DEF BInv, OpenStart, PendingOf
<1>2. opening \in [Readers -> Pending \cup {None}]
  BY <1>1 DEF PInv, PipelineTypeOK
<1>3. ASSUME NEW j \in Items, items'[j] # None
      PROVE  \/ items'[j].tries \in Nat /\ items'[j].tries < MaxExtractAttempts
             \/ /\ Stored(j) /\ items'[j].tries \in Nat
                /\ items'[j].tries + UnderWay(j)' <= items[j].tries + UnderWay(j)
  <2>1. Stored(j) /\ items[j].tries \in Nat /\ items'[j] = items[j]
    BY <1>1, <1>3, RowTyped DEF PInv, Stored
  <2>2. CASE j = i
    BY <1>1, <2>1, <2>2 DEF PendingExtraction
  <2>3. CASE j # i
    <3>1. Fetchers(opening', j) = Fetchers(opening, j)
      BY <1>1, <1>2, <2>3 DEF Fetchers
    <3>2. UnderWay(j)' = UnderWay(j) /\ UnderWay(j) \in Nat
      BY <1>1, <3>1, FetchersTyped DEF UnderWay, Works
    <3> QED
      BY <2>1, <3>2
  <2> QED
    BY <2>2, <2>3
<1> QED
  BY <1>3, ChargesKept

LEMMA OpenFinishCharges ==
  ASSUME BInv, NEW r \in Readers, NEW outcome \in Outcome, OpenFinish(r, outcome)
  PROVE  Charges'
<1>1. PICK p \in Pending : p = opening[r]
  BY BatchTyped DEF BInv, PInv, OpenFinish
<1>2. Stored(p.id) /\ RunOne(p, outcome) /\ opening[r] # None
  BY <1>1 DEF BInv, PInv, Fetches, OpenFinish
<1>3. /\ opening \in [Readers -> Pending \cup {None}]
      /\ opening' = [opening EXCEPT ![r] = None] /\ extractor' = extractor
  BY DEF BInv, PInv, PipelineTypeOK, OpenFinish
<1>4. /\ r \in Fetchers(opening, p.id)
      /\ Fetchers(opening', p.id) = Fetchers(opening, p.id) \ {r}
      /\ \A i \in Items \ {p.id} : Fetchers(opening', i) = Fetchers(opening, i)
  BY <1>1, <1>2, <1>3 DEF Fetchers
<1>5. \A i : Works(i)' <=> Works(i)
  BY <1>3 DEF Works
<1> DEFINE a == Cardinality(Fetchers(opening, p.id))
           b == Cardinality(Fetchers(opening', p.id))
<1>6. a \in Nat /\ b \in Nat /\ b = a - 1 /\ a <= Cardinality(Readers)
      /\ Cardinality(Readers) \in Nat
  BY <1>4, FetchersTyped, FetchersDrop
<1>7. /\ UnderWay(p.id) = a + (IF Works(p.id) THEN 1 ELSE 0)
      /\ UnderWay(p.id)' = b + (IF Works(p.id) THEN 1 ELSE 0)
      /\ \A i \in Items \ {p.id} : UnderWay(i)' = UnderWay(i)
  BY <1>4, <1>5 DEF UnderWay
<1> HIDE DEF a, b
<1>8. /\ UnderWay(p.id)' <= UnderWay(p.id) - 1 /\ UnderWay(p.id)' <= Cardinality(Readers)
      /\ UnderWay(p.id) \in Nat /\ UnderWay(p.id)' \in Nat
  BY <1>6, <1>7
<1> QED
  BY <1>2, <1>7, <1>8, ChargesEnd

\* The rows a step of the reader or of enrichment writes keep their count, or
\* start over.
LEMMA RestIdle ==
  ASSUME BInv, [Next]_pipelineVars, UNCHANGED <<extractor, opening>>
  PROVE  \A i \in Items : items'[i] # None =>
           items'[i].tries = 0 \/ (Stored(i) /\ items'[i].tries = items[i].tries)
<1>1. PInv /\ items \in [Items -> ItemRow \cup {None}]
  BY DEF BInv, PInv, PipelineTypeOK
<1> SUFFICES ASSUME NEW i \in Items, items'[i] # None
             PROVE  items'[i].tries = 0 \/ (Stored(i) /\ items'[i].tries = items[i].tries)
  OBVIOUS
<1>2. CASE items' = items
  BY <1>2 DEF Stored
<1>3. CASE \E j \in Items, a \in Arrival : Arrive(j, a)
  BY <1>1, <1>3 DEF Arrive, Stored
<1>4. CASE \E c \in enricher.batch : EnrichAnswered(c) \/ EnrichFailed(c)
  <2>1. PICK c \in enricher.batch : EnrichAnswered(c) \/ EnrichFailed(c)
    BY <1>4
  <2>2. c.id \in Items /\ Stored(c.id)
    BY <1>1, CandidateTyped DEF PInv, Passes
  <2>3. items[c.id] \in ItemRow
    BY <1>1, <2>2, RowTyped DEF PInv
  <2>4. items'[c.id].tries = items[c.id].tries
    <3>1. CASE EnrichAnswered(c)
      <4> DEFINE r == [[[[items[c.id] EXCEPT
                            !.summary = IF c.rescore THEN items[c.id].summary ELSE c.text]
                          EXCEPT !.score = ScoreOf(enricher.profile)]
                         EXCEPT !.scored = enricher.profile] EXCEPT !.attempts = 0]
      <4>1. items' = [items EXCEPT ![c.id] = r]
        BY <1>1, <2>2, <2>3, <3>1 DEF EnrichAnswered, ItemRow
      <4>2. r.tries = items[c.id].tries
        BY <2>3 DEF ItemRow
      <4> QED
        BY <1>1, <2>2, <4>1, <4>2
    <3>2. CASE EnrichFailed(c)
      BY <1>1, <2>2, <2>3, <3>2 DEF EnrichFailed, ItemRow
    <3> QED
      BY <2>1, <3>1, <3>2
  <2>5. i # c.id => items'[i] = items[i]
    BY <1>1, <2>1 DEF EnrichAnswered, EnrichFailed
  <2> QED
    BY <2>2, <2>4, <2>5 DEF Stored
<1>5. CASE \E f \in Feeds, a \in Agents : SetAgent(f, a)
  <2>1. PICK f \in Feeds, a \in Agents : SetAgent(f, a)
    BY <1>5
  <2>2. \/ items'[i] = items[i]
        \/ Stored(i) /\ items'[i] = [items[i] EXCEPT !.tries = 0, !.error = FALSE]
    BY <2>1 DEF SetAgent
  <2>3. CASE items'[i] = items[i]
    BY <2>3 DEF Stored
  <2>4. CASE Stored(i) /\ items'[i] = [items[i] EXCEPT !.tries = 0, !.error = FALSE]
    BY <1>1, <2>4, RowTyped DEF PInv, ItemRow
  <2> QED
    BY <2>2, <2>3, <2>4
<1>6. CASE \E p \in extractor.batch : ExtractSkip(p)
  BY <1>1, <1>6 DEF PInv, PipelineTypeOK, ExtractSkip
<1>7. CASE \E outcome \in Outcome : ExtractFinish(outcome)
  BY <1>1, <1>7 DEF PInv, PipelineTypeOK, ExtractFinish
<1>8. CASE \E r \in Readers, outcome \in Outcome : OpenFinish(r, outcome)
  BY <1>1, <1>8 DEF PInv, PipelineTypeOK, OpenFinish
<1> QED
  BY <1>2, <1>3, <1>4, <1>5, <1>6, <1>7, <1>8
     DEF Next, pipelineVars, ExtractList, ExtractFetch, OpenStart, OpenTimeout, EnrichLoad,
         EnrichList, EnrichUnreachable, SetLlm, SaveProfile, Restart

LEMMA BoundedInit == Init => BInv
<1> SUFFICES ASSUME Init PROVE WorkerOnce /\ Charges
  BY PipelineInit DEF BInv
<1> QED
  BY DEF Init, WorkerOnce, Charges, Stored, IdleExtractor

LEMMA BoundedStep == ASSUME BInv, [Next]_pipelineVars PROVE BInv'
<1>1. PInv'
  BY PipelineStep DEF BInv
<1>2. WorkerOnce' /\ Charges'
  <2>1. CASE ExtractList
    BY <2>1, ExtractListCharges
  <2>2. CASE \E p \in extractor.batch : ExtractSkip(p) \/ ExtractFetch(p)
    BY <2>2, ExtractSkipCharges, ExtractFetchCharges
  <2>3. CASE \E outcome \in Outcome : ExtractFinish(outcome)
    BY <2>3, ExtractFinishCharges
  <2>4. CASE \E r \in Readers, i \in Items : OpenStart(r, i)
    <3>1. Charges'
      BY <2>4, OpenStartCharges
    <3> QED
      BY <2>4, <3>1 DEF BInv, WorkerOnce, OpenStart
  <2>5. CASE \E r \in Readers, outcome \in Outcome : OpenFinish(r, outcome)
    <3>1. Charges'
      BY <2>5, OpenFinishCharges
    <3> QED
      BY <2>5, <3>1 DEF BInv, WorkerOnce, OpenFinish
  <2>6. CASE \E r \in Readers : OpenTimeout(r)
    <3>1. PICK r \in Readers : OpenTimeout(r)
      BY <2>6
    <3>2. \A i \in Items : Fetchers(opening', i) \subseteq Fetchers(opening, i)
      BY <3>1 DEF OpenTimeout, BInv, PInv, PipelineTypeOK, Fetchers
    <3>3. Charges'
      BY <3>1, <3>2, ChargesIdle DEF OpenTimeout, Stored
    <3> QED
      BY <3>1, <3>3 DEF BInv, WorkerOnce, OpenTimeout
  <2>7. CASE Restart
    <3>1. /\ items' = items /\ extractor' = IdleExtractor
          /\ opening' = [r \in Readers |-> None]
      BY <2>7 DEF Restart
    <3>2. WorkerOnce'
      BY <3>1 DEF WorkerOnce, IdleExtractor
    <3>3. \A i : ~Works(i)' /\ Fetchers(opening', i) = {}
      BY <3>1 DEF Works, Fetchers, IdleExtractor
    <3>4. \A i : UnderWay(i)' = 0
      BY <3>3, FS_EmptySet DEF UnderWay
    <3>5. ASSUME NEW i \in Items, items'[i] # None
          PROVE  /\ Stored(i) /\ items'[i].tries \in Nat
                 /\ items'[i].tries + UnderWay(i)' <= items[i].tries + UnderWay(i)
      <4>1. Stored(i) /\ items[i].tries \in Nat
        BY <3>1, <3>5, RowTyped DEF BInv, PInv, Stored
      <4>2. UnderWay(i) \in Nat
        BY FetchersTyped DEF UnderWay
      <4> QED
        BY <3>1, <3>4, <4>1, <4>2
    <3> QED
      BY <3>2, <3>5, ChargesKept
  <2>8. CASE UNCHANGED <<extractor, opening>>
    <3>1. Charges'
      BY <2>8, RestIdle, ChargesIdle
    <3> QED
      BY <2>8, <3>1 DEF BInv, WorkerOnce
  <2> QED
    BY <2>1, <2>2, <2>3, <2>4, <2>5, <2>6, <2>7, <2>8
       DEF Next, pipelineVars, Arrive, EnrichLoad, EnrichList, EnrichAnswered, EnrichFailed,
           EnrichUnreachable, SetAgent, SetLlm, SaveProfile
<1> QED
  BY <1>1, <1>2 DEF BInv

\* extract.rs: an item whose attempts have run out is charged once more for each
\* request that was fetching it then, and never again.
THEOREM AttemptsAreBounded == Spec => []AttemptsBounded
<1>1. BInv => AttemptsBounded
  <2> SUFFICES ASSUME BInv, NEW i \in Items, Stored(i)
               PROVE  items[i].tries <= MaxExtractAttempts + Cardinality(Readers)
    BY DEF AttemptsBounded
  <2>1. items[i].tries \in Nat
    BY RowTyped DEF BInv, PInv
  <2>2. UnderWay(i) \in Nat
    BY FetchersTyped DEF UnderWay
  <2>3. items[i].tries + UnderWay(i) <= MaxExtractAttempts + Cardinality(Readers)
    BY DEF BInv, Charges
  <2>4. MaxExtractAttempts \in Nat /\ Cardinality(Readers) \in Nat
    BY PipelineAssumption, FetchersTyped
  <2> QED
    BY <2>1, <2>2, <2>3, <2>4
<1> QED
  BY <1>1, BoundedInit, BoundedStep, PTL DEF Spec

-----------------------------------------------------------------------------
(* The article, however many paths fetch it. *)

\* What an item that has its article keeps, and a step that keeps it, for one row.
HasArticle(row) == row.extracted => row.text = "article"

Keeps(old, row) == \/ row.extracted /\ row.text = "article"
                   \/ row.extracted = old.extracted /\ row.text = old.text

HaveArticles == \A i \in Items : Stored(i) => HasArticle(items[i])

\* No step takes an article away or marks an item extracted without one.
LEMMA ArticleStep ==
  ASSUME PInv, [Next]_pipelineVars, NEW i \in Items
  PROVE  /\ Stored(i) => Stored(i)' /\ Keeps(items[i], items'[i])
         /\ ~Stored(i) /\ Stored(i)' => HasArticle(items'[i])
<1>1. PICK t \in [Items -> ItemRow \cup {None}] : t = items
  BY DEF PInv, PipelineTypeOK
<1>2. \A row \in ItemRow : row # None
  BY RowStored
<1>3. Stored(i) => items[i] \in ItemRow
  BY RowTyped DEF PInv
<1>4. CASE \E j \in Items, a \in Arrival : Arrive(j, a)
  <2>1. PICK j \in Items, a \in Arrival : Arrive(j, a)
    BY <1>4
  <2>2. CASE j = i
    <3>1. ~Stored(i) /\ ~items'[i].extracted
      BY <2>1, <2>2, <1>1 DEF Arrive
    <3> QED
      BY <3>1 DEF HasArticle
  <2>3. CASE j # i
    BY <2>1, <2>3, <1>1 DEF Arrive, Stored, Keeps
  <2> QED
    BY <2>2, <2>3
<1>5. ASSUME NEW p \in Pending, NEW outcome \in Outcome, Stored(p.id), RunOne(p, outcome)
      PROVE  /\ Stored(i) => Stored(i)' /\ Keeps(items[i], items'[i])
             /\ ~Stored(i) => ~Stored(i)'
  <2>1. p.id \in Items
    BY DEF Pending
  <2>2. /\ Stored(i) => Stored(i)'
        /\ ~Stored(i) => ~Stored(i)'
        /\ i # p.id => items'[i] = items[i]
    BY <1>5, RunOneRow
  <2>3. ASSUME i = p.id  PROVE Keeps(items[i], items'[i])
    <3>1. items[i] \in ItemRow
      BY <1>3, <1>5, <2>3
    <3>2. CASE outcome = "extracted"
      <4>1. items'[i].extracted /\ items'[i].text = "article"
        BY <1>1, <1>5, <2>3, <3>1, <3>2 DEF RunOne, RecordExtraction, ItemRow
      <4> QED
        BY <4>1 DEF Keeps
    <3>3. CASE outcome # "extracted"
      <4>1. PICK terminal \in BOOLEAN : RecordExtractionFailure(p, terminal)
        BY <1>5, <3>3 DEF RunOne, Outcome
      <4>2. items'[i].extracted = items[i].extracted /\ items'[i].text = items[i].text
        BY <1>1, <2>3, <3>1, <4>1 DEF RecordExtractionFailure, ItemRow
      <4> QED
        BY <4>2 DEF Keeps
    <3> QED
      BY <3>2, <3>3
  <2>4. i # p.id => Keeps(items[i], items'[i])
    BY <2>2 DEF Keeps
  <2> QED
    BY <2>2, <2>3, <2>4
<1>6. CASE \E p \in extractor.batch : ExtractSkip(p)
  <2>1. PICK p \in extractor.batch : RecordExtractionFailure(p, TRUE)
    BY <1>6 DEF ExtractSkip
  <2>2. p \in Pending /\ Stored(p.id) /\ RunOne(p, "refused") /\ "refused" \in Outcome
    BY <2>1, BatchTyped DEF PInv, Fetches, RunOne, Outcome
  <2> QED
    BY <1>5, <2>2
<1>7. CASE \E outcome \in Outcome : ExtractFinish(outcome)
  BY <1>5, <1>7, BatchTyped DEF PInv, Fetches, ExtractFinish
<1>8. CASE \E r \in Readers, outcome \in Outcome : OpenFinish(r, outcome)
  BY <1>5, <1>8, BatchTyped DEF PInv, Fetches, OpenFinish
<1>9. CASE \E c \in enricher.batch : EnrichAnswered(c) \/ EnrichFailed(c)
  <2>1. PICK c \in enricher.batch, row \in ItemRow :
          /\ items' = [items EXCEPT ![c.id] = row]
          /\ row.extracted = items[c.id].extracted
          /\ row.text = items[c.id].text
    BY <1>9, EnrichAnsweredInv, EnrichFailedInv
  <2>2. c.id \in Items /\ Stored(c.id)
    BY CandidateTyped DEF PInv, Passes
  <2>3. CASE c.id = i
    <3>1. items'[i] = row /\ row # None
      BY <1>1, <1>2, <2>1, <2>2, <2>3
    <3> QED
      BY <2>1, <2>2, <2>3, <3>1 DEF Stored, Keeps
  <2>4. CASE c.id # i
    <3>1. items'[i] = items[i]
      BY <1>1, <2>1, <2>4
    <3> QED
      BY <3>1 DEF Stored, Keeps
  <2> QED
    BY <2>3, <2>4
<1>10. CASE \E f \in Feeds, a \in Agents : SetAgent(f, a)
  BY <1>10, SetAgentInv DEF Keeps
<1>11. CASE UNCHANGED items
  BY <1>11 DEF Stored, Keeps
<1> QED
  BY <1>4, <1>6, <1>7, <1>8, <1>9, <1>10, <1>11
  DEF Next, ExtractList, ExtractFetch, OpenStart, OpenTimeout, EnrichLoad, EnrichList,
      EnrichUnreachable, SetLlm, SaveProfile, Restart, pipelineVars

\* However many requests and the worker fetch one page, in whatever order they
\* succeed and fail, and whatever the reader changes meanwhile, an item that has its
\* article keeps it and stays out of extraction (record_extraction_failure).
THEOREM ArticlesStay == Spec => ArticleStays
<1>1. Init => PInv /\ HaveArticles
  BY PipelineInit DEF Init, HaveArticles, Stored
<1>2. PInv /\ HaveArticles /\ [Next]_pipelineVars => HaveArticles'
  <2> SUFFICES ASSUME PInv, HaveArticles, [Next]_pipelineVars, NEW i \in Items, Stored(i)'
               PROVE  HasArticle(items'[i])
    BY DEF HaveArticles
  <2> QED
    BY ArticleStep DEF HaveArticles, HasArticle, Keeps
<1>3. PInv /\ HaveArticles /\ [Next]_pipelineVars =>
        [\A i \in Items : Stored(i) /\ items[i].extracted =>
           items'[i].extracted /\ items'[i].text = "article"]_pipelineVars
  BY ArticleStep DEF HaveArticles, HasArticle, Keeps
<1>4. Spec => [](PInv /\ HaveArticles)
  BY <1>1, <1>2, PipelineStep, PTL DEF Spec
<1> QED
  BY <1>3, <1>4, PTL DEF Spec, ArticleStays
-----------------------------------------------------------------------------
(* The two workers are in step while nobody else fetches pages and no agent  *)
(* is changed.  (One request that opens an item is enough to break each of   *)
(* these; PipelineTeaser.cfg shows it for the first.)                        *)

Alone == Readers = {} /\ Patches \subseteq {"llm"}

\* What is listed or fetched is pending, once.
Waiting ==
  /\ \A p \in extractor.batch : PendingExtraction(p.id)
  /\ extractor.page # None => PendingExtraction(extractor.page.id)
  /\ \A p, q \in extractor.batch : p.id = q.id => p = q
  /\ extractor.page # None => \A p \in extractor.batch : p.id # extractor.page.id

\* What is summarized, or about to be, is pending no more.
Settled ==
  /\ \A i \in Items : Stored(i) /\ Summarized(i) => ~PendingExtraction(i)
  /\ \A c \in enricher.batch : ~PendingExtraction(c.id)

\* A candidate's text is still the item's.
Fresh == \A c \in enricher.batch : ~c.rescore => c.text = items[c.id].text

\* A refusal spends every attempt, and only stored items are charged.
Retired ==
  \A i \in Items, a \in Agents :
    <<a, TRUE>> \in charged[i] => Stored(i) /\ items[i].tries >= MaxExtractAttempts

StepInv == Waiting /\ Settled /\ Fresh /\ SummaryOfStoredText /\ Retired

AInv == PInv /\ StepInv

LEMMA AloneInit == Init => AInv
<1> SUFFICES ASSUME Init PROVE AInv
  OBVIOUS
<1>1. StepInv
  BY DEF Init, StepInv, Waiting, Settled, Fresh, SummaryOfStoredText, Retired, IdleExtractor,
         IdleEnricher, Stored
<1> QED
  BY <1>1, PipelineInit DEF AInv

\* Whether an item is pending depends on four columns.
LEMMA SamePending ==
  ASSUME NEW i \in Items, Stored(i), Stored(i)',
         items'[i].url = items[i].url, items'[i].extracted = items[i].extracted,
         items'[i].truncated = items[i].truncated, items'[i].tries = items[i].tries
  PROVE  PendingExtraction(i)' <=> PendingExtraction(i)
BY DEF PendingExtraction

\* An item that is pending has been refused by no agent.
LEMMA NotRefused ==
  ASSUME AInv, NEW i \in Items, NEW a \in Agents, PendingExtraction(i)
  PROVE  <<a, TRUE>> \notin charged[i]
<1>1. items[i].tries \in Nat /\ items[i].tries < MaxExtractAttempts
  BY RowTyped DEF AInv, PInv, PendingExtraction
<1>2. SUFFICES ASSUME <<a, TRUE>> \in charged[i] PROVE FALSE
  OBVIOUS
<1>3. items[i].tries >= MaxExtractAttempts
  BY <1>2 DEF AInv, StepInv, Retired
<1>4. MaxExtractAttempts \in Nat
  BY PipelineAssumption
<1> QED
  BY <1>1, <1>3, <1>4

LEMMA ArriveStep ==
  ASSUME AInv, NEW i \in Items, NEW a \in Arrival, Arrive(i, a)
  PROVE  StepInv'
<1>1. /\ ~Stored(i)
      /\ items'[i].summary = "none"
      /\ items'[i].tries = 0
      /\ \A j \in Items : j # i => items'[j] = items[j]
      /\ charged' = charged /\ extractor' = extractor /\ enricher' = enricher
  BY DEF Arrive, AInv, PInv, PipelineTypeOK
<1>2. \A p \in extractor.batch : p.id \in Items /\ p.id # i
  BY <1>1, BatchTyped DEF AInv, PInv, Fetches
<1>3. extractor.page # None => extractor.page.id \in Items /\ extractor.page.id # i
  BY <1>1, BatchTyped DEF AInv, PInv, Fetches
<1>4. \A c \in enricher.batch : c.id \in Items /\ c.id # i
  BY <1>1, CandidateTyped DEF AInv, PInv, Passes
<1>5. \A j \in Items : j # i => (Stored(j)' <=> Stored(j))
                                /\ (PendingExtraction(j)' <=> PendingExtraction(j))
                                /\ (Stored(j) => (Summarized(j)' <=> Summarized(j)))
  BY <1>1 DEF Stored, PendingExtraction, Summarized
<1>6. Waiting'
  BY <1>1, <1>2, <1>3, <1>5 DEF AInv, StepInv, Waiting
<1>7. Settled'
  BY <1>1, <1>4, <1>5 DEF AInv, StepInv, Settled, Summarized
<1>8. Fresh'
  BY <1>1, <1>4 DEF AInv, StepInv, Fresh
<1>9. SummaryOfStoredText'
  BY <1>1, <1>5 DEF AInv, StepInv, SummaryOfStoredText, Summarized
<1>10. Retired'
  BY <1>1, <1>5 DEF AInv, StepInv, Retired
<1> QED
  BY <1>6, <1>7, <1>8, <1>9, <1>10 DEF StepInv

LEMMA ExtractListStep == ASSUME AInv, ExtractList PROVE StepInv'
<1>1. PICK S \in SUBSET {i \in Items : PendingExtraction(i)} :
        extractor' = [extractor EXCEPT !.batch = {PendingOf(i) : i \in S}]
  BY DEF ExtractList
<1>2. extractor'.batch = {PendingOf(i) : i \in S} /\ extractor'.page = None
  BY <1>1 DEF ExtractList, IdleExtractor
<1>3. \A i \in S : PendingOf(i).id = i /\ PendingExtraction(i)
  BY DEF PendingOf
<1>4. UNCHANGED <<items, charged, enricher>>
  BY DEF ExtractList
<1>5. Waiting'
  BY <1>2, <1>3, <1>4 DEF Waiting, PendingExtraction, Stored
<1>6. Settled' /\ Fresh' /\ SummaryOfStoredText' /\ Retired'
  BY <1>4 DEF AInv, StepInv, Settled, Fresh, SummaryOfStoredText, Retired,
              PendingExtraction, Summarized, Stored
<1> QED
  BY <1>5, <1>6 DEF StepInv

\* An outcome concerns an item that is pending, and so neither summarized nor
\* about to be.
LEMMA RunOneStep ==
  ASSUME AInv, NEW p \in Pending, Stored(p.id), PendingExtraction(p.id),
         NEW outcome \in Outcome, RunOne(p, outcome), enricher' = enricher,
         extractor'.batch \subseteq extractor.batch,
         \A q \in extractor'.batch : q.id # p.id,
         extractor'.page = None
  PROVE  StepInv'
<1>1. p.id \in Items /\ p.agent \in Agents
  BY DEF Pending
<1>2. /\ \A i \in Items : i # p.id => items'[i] = items[i]
      /\ items'[p.id].summary = items[p.id].summary
      /\ Stored(p.id)'
  BY <1>1, RunOneRow DEF AInv
<1>3. \A i \in Items : i # p.id => (Stored(i)' <=> Stored(i))
                                   /\ (PendingExtraction(i)' <=> PendingExtraction(i))
                                   /\ (Stored(i) => (Summarized(i)' <=> Summarized(i)))
  BY <1>2 DEF Stored, PendingExtraction, Summarized
<1>4. ~Summarized(p.id)'
  BY <1>1, <1>2 DEF AInv, StepInv, Settled, Summarized
<1>5. \A c \in enricher.batch : c.id \in Items /\ c.id # p.id
  BY CandidateTyped DEF AInv, PInv, StepInv, Settled
<1>6. \A q \in extractor.batch : q.id \in Items
  BY BatchTyped DEF AInv, PInv
<1>7. Waiting'
  BY <1>3, <1>6 DEF AInv, StepInv, Waiting
<1>8. Settled'
  BY <1>3, <1>4, <1>5 DEF AInv, StepInv, Settled
<1>9. Fresh'
  BY <1>2, <1>5 DEF AInv, StepInv, Fresh
<1>10. SummaryOfStoredText'
  BY <1>2, <1>3, <1>4 DEF AInv, StepInv, SummaryOfStoredText
<1>11. Retired'
  <2>1. \A i \in Items : i # p.id => charged'[i] = charged[i]
    BY <1>1 DEF AInv, PInv, PipelineTypeOK, RunOne, RecordExtraction, RecordExtractionFailure
  <2>2. ASSUME NEW a \in Agents, <<a, TRUE>> \in charged'[p.id]
        PROVE  items'[p.id].tries >= MaxExtractAttempts
    <3>1. <<a, TRUE>> \notin charged[p.id]
      BY <1>1, NotRefused
    <3>2. charged[p.id] \in SUBSET (Agents \X BOOLEAN)
      BY <1>1 DEF AInv, PInv, PipelineTypeOK
    <3>3. ~RecordExtraction(p.id)
      BY <1>1, <2>2 DEF RecordExtraction, AInv, PInv, PipelineTypeOK
    <3>4. ~RecordExtractionFailure(p, FALSE)
      <4>1. RecordExtractionFailure(p, FALSE)
              => charged'[p.id] = charged[p.id] \cup {<<p.agent, FALSE>>}
        BY <1>1 DEF RecordExtractionFailure, AInv, PInv, PipelineTypeOK
      <4>2. <<a, TRUE>> # <<p.agent, FALSE>>
        OBVIOUS
      <4> QED
        BY <2>2, <3>1, <4>1, <4>2
    <3>5. RecordExtractionFailure(p, TRUE)
      BY <3>3, <3>4 DEF RunOne
    <3> DEFINE n == AtLeast(items[p.id].tries + 1, MaxExtractAttempts)
    <3>6. items'[p.id].tries = n
      <4>1. items[p.id] \in ItemRow
        BY <1>1, RowTyped DEF AInv, PInv
      <4> QED
        BY <1>1, <3>5, <4>1 DEF RecordExtractionFailure, AInv, PInv, PipelineTypeOK, ItemRow
    <3>7. n >= MaxExtractAttempts
      <4>1. items[p.id].tries \in Nat
        BY <1>1, RowTyped DEF AInv, PInv
      <4> QED
        BY <4>1, PipelineAssumption DEF AtLeast
    <3> QED
      BY <3>6, <3>7
  <2> QED
    BY <1>2, <1>3, <2>1, <2>2 DEF AInv, StepInv, Retired
<1> QED
  BY <1>7, <1>8, <1>9, <1>10, <1>11 DEF StepInv

LEMMA ExtractSkipStep ==
  ASSUME AInv, NEW p \in extractor.batch, ExtractSkip(p)
  PROVE  StepInv'
<1>1. p \in Pending /\ Stored(p.id) /\ PendingExtraction(p.id)
  BY BatchTyped DEF AInv, PInv, Fetches, StepInv, Waiting
<1>2. RunOne(p, "refused") /\ "refused" \in Outcome
  BY DEF ExtractSkip, RunOne, Outcome
<1>3. extractor'.batch = extractor.batch \ {p} /\ extractor'.page = None
  BY DEF ExtractSkip, AInv, PInv, PipelineTypeOK
<1>4. \A q \in extractor'.batch : q.id # p.id
  BY <1>3 DEF AInv, StepInv, Waiting
<1> QED
  BY <1>1, <1>2, <1>3, <1>4, RunOneStep DEF ExtractSkip

LEMMA ExtractFetchStep ==
  ASSUME AInv, NEW p \in extractor.batch, ExtractFetch(p)
  PROVE  StepInv'
<1>1. extractor'.batch = extractor.batch \ {p} /\ extractor'.page = p
  BY DEF ExtractFetch
<1>2. UNCHANGED <<items, charged, enricher>>
  BY DEF ExtractFetch
<1>3. Waiting'
  BY <1>1, <1>2 DEF AInv, StepInv, Waiting, PendingExtraction, Stored
<1>4. Settled' /\ Fresh' /\ SummaryOfStoredText' /\ Retired'
  BY <1>2 DEF AInv, StepInv, Settled, Fresh, SummaryOfStoredText, Retired,
              PendingExtraction, Summarized, Stored
<1> QED
  BY <1>3, <1>4 DEF StepInv

LEMMA ExtractFinishStep ==
  ASSUME AInv, NEW outcome \in Outcome, ExtractFinish(outcome)
  PROVE  StepInv'
<1>1. /\ extractor.page \in Pending
      /\ Stored(extractor.page.id)
      /\ PendingExtraction(extractor.page.id)
      /\ RunOne(extractor.page, outcome)
  BY BatchTyped DEF AInv, PInv, Fetches, StepInv, Waiting, ExtractFinish
<1>2. extractor'.batch = extractor.batch /\ extractor'.page = None
  BY DEF ExtractFinish, AInv, PInv, PipelineTypeOK
<1>3. \A q \in extractor'.batch : q.id # extractor.page.id
  BY <1>2 DEF AInv, StepInv, Waiting, ExtractFinish
<1> QED
  BY <1>1, <1>2, <1>3, RunOneStep DEF ExtractFinish
-----------------------------------------------------------------------------
LEMMA EnrichListStep == ASSUME AInv, EnrichList PROVE StepInv'
<1>1. UNCHANGED <<items, charged, extractor>>
  BY DEF EnrichList
<1>2. Waiting' /\ SummaryOfStoredText' /\ Retired'
  BY <1>1 DEF AInv, StepInv, Waiting, SummaryOfStoredText, Retired, PendingExtraction,
              Summarized, Stored
<1>3. \A c \in enricher'.batch : /\ ~PendingExtraction(c.id)
                                 /\ c.text = items[c.id].text
  <2>1. PICK S \in SUBSET DueForEnrichment(enricher.profile) :
          enricher' = IF S = {} THEN IdleEnricher
                      ELSE [enricher EXCEPT !.stage = "asking",
                                            !.batch = {CandidateOf(i) : i \in S}]
    BY DEF EnrichList
  <2>2. \A i \in S : ~PendingExtraction(i)
    BY DEF DueForEnrichment, AInv, StepInv, Settled
  <2>3. \A i \in S : CandidateOf(i).id = i /\ CandidateOf(i).text = items[i].text
    BY DEF CandidateOf
  <2>4. enricher'.batch \subseteq {CandidateOf(i) : i \in S}
    BY <2>1, IdleTyped DEF AInv, PInv, PipelineTypeOK, Enricher
  <2> QED
    BY <2>2, <2>3, <2>4
<1>4. Settled' /\ Fresh'
  BY <1>1, <1>3 DEF AInv, StepInv, Settled, Fresh, PendingExtraction, Summarized, Stored
<1> QED
  BY <1>2, <1>4 DEF StepInv

\* Steps of a pass that write no row.
LEMMA PassStep ==
  ASSUME AInv, UNCHANGED <<items, charged, extractor>>,
         enricher'.batch \subseteq enricher.batch
  PROVE  StepInv'
BY DEF AInv, StepInv, Waiting, Settled, Fresh, SummaryOfStoredText, Retired,
       PendingExtraction, Summarized, Stored

\* Outcomes of a pass: the columns of extraction stay.
LEMMA OutcomeStep ==
  ASSUME AInv, NEW c \in enricher.batch, enricher' = Done(c),
         UNCHANGED <<charged, extractor>>,
         \A i \in Items : i # c.id => items'[i] = items[i],
         Stored(c.id)',
         items'[c.id].url = items[c.id].url,
         items'[c.id].extracted = items[c.id].extracted,
         items'[c.id].truncated = items[c.id].truncated,
         items'[c.id].tries = items[c.id].tries,
         items'[c.id].text = items[c.id].text,
         items'[c.id].summary \in {items[c.id].summary, items[c.id].text}
  PROVE  StepInv'
<1>1. c.id \in Items /\ Stored(c.id) /\ ~PendingExtraction(c.id)
  BY CandidateTyped DEF AInv, PInv, Passes, StepInv, Settled
<1>2. \A i \in Items : (Stored(i)' <=> Stored(i))
                        /\ (PendingExtraction(i)' <=> PendingExtraction(i))
  <2>1. PendingExtraction(c.id)' <=> PendingExtraction(c.id)
    BY <1>1, SamePending
  <2>2. ASSUME NEW i \in Items, i # c.id
        PROVE  (Stored(i)' <=> Stored(i)) /\ (PendingExtraction(i)' <=> PendingExtraction(i))
    BY <2>2 DEF Stored, PendingExtraction
  <2> QED
    BY <1>1, <2>1, <2>2
<1>3. \A i \in Items : i # c.id /\ Stored(i) => (Summarized(i)' <=> Summarized(i))
  BY DEF Summarized
<1>4. \A d \in enricher'.batch : d \in enricher.batch /\ d.id # c.id /\ d.id \in Items
  BY DoneTyped, CandidateTyped DEF AInv, PInv
<1>5. Waiting'
  BY <1>2, BatchTyped DEF AInv, PInv, StepInv, Waiting
<1>6. Settled'
  BY <1>1, <1>2, <1>3, <1>4 DEF AInv, StepInv, Settled
<1>7. Fresh'
  BY <1>4 DEF AInv, StepInv, Fresh
<1>8. SummaryOfStoredText'
  BY <1>1, <1>2, <1>3 DEF AInv, StepInv, SummaryOfStoredText, Summarized
<1>9. Retired'
  BY <1>1, <1>2 DEF AInv, StepInv, Retired
<1> QED
  BY <1>5, <1>6, <1>7, <1>8, <1>9 DEF StepInv

LEMMA EnrichAnsweredStep ==
  ASSUME AInv, NEW c \in enricher.batch, EnrichAnswered(c)
  PROVE  StepInv'
<1> DEFINE old == items[c.id]
           row == [old EXCEPT !.summary = IF c.rescore THEN old.summary ELSE c.text,
                              !.score = ScoreOf(enricher.profile),
                              !.scored = enricher.profile,
                              !.attempts = 0]
<1>1. /\ c.id \in Items
      /\ old \in ItemRow
      /\ c.rescore \in BOOLEAN
      /\ ~c.rescore => c.text = old.text
  BY CandidateTyped, RowTyped DEF AInv, PInv, Passes, StepInv, Fresh
<1>2. items' = [items EXCEPT ![c.id] = row]
  BY <1>1 DEF EnrichAnswered, AInv, PInv, PipelineTypeOK, ItemRow
<1>3. /\ row.url = old.url /\ row.extracted = old.extracted
      /\ row.truncated = old.truncated /\ row.tries = old.tries /\ row.text = old.text
      /\ row.summary \in {old.summary, old.text}
  BY <1>1 DEF ItemRow
<1>4. row \in ItemRow
  <2>1. enricher.profile \in Profiles /\ 0 \in 0..MaxEnrichAttempts
    BY PipelineAssumption DEF AInv, PInv, PipelineTypeOK, Enricher
  <2>2. c.text \in Text
    BY CandidateTyped DEF AInv, PInv
  <2> QED
    BY <1>1, <2>1, <2>2 DEF ItemRow, ScoreOf
<1> HIDE DEF row
<1>5. items'[c.id] = row /\ \A i \in Items : i # c.id => items'[i] = items[i]
  BY <1>1, <1>2 DEF AInv, PInv, PipelineTypeOK
<1>6. Stored(c.id)'
  BY <1>4, <1>5, RowStored DEF Stored
<1> QED
  BY <1>3, <1>5, <1>6, OutcomeStep DEF EnrichAnswered

LEMMA EnrichFailedStep ==
  ASSUME AInv, NEW c \in enricher.batch, EnrichFailed(c)
  PROVE  StepInv'
<1> DEFINE old == items[c.id]
           row == [old EXCEPT !.attempts = old.attempts + 1]
<1>1. /\ c.id \in Items
      /\ old \in ItemRow
      /\ old.attempts \in 0..MaxEnrichAttempts
      /\ old.attempts < MaxEnrichAttempts
  BY CandidateTyped, RowTyped DEF AInv, PInv, Passes
<1>2. items' = [items EXCEPT ![c.id] = row]
  BY <1>1 DEF EnrichFailed, AInv, PInv, PipelineTypeOK
<1>3. /\ row.url = old.url /\ row.extracted = old.extracted
      /\ row.truncated = old.truncated /\ row.tries = old.tries /\ row.text = old.text
      /\ row.summary = old.summary
  BY <1>1 DEF ItemRow
<1>4. row \in ItemRow
  <2>1. old.attempts + 1 \in 0..MaxEnrichAttempts
    BY <1>1, PipelineAssumption
  <2> QED
    BY <1>1, <2>1 DEF ItemRow
<1> HIDE DEF row
<1>5. items'[c.id] = row /\ \A i \in Items : i # c.id => items'[i] = items[i]
  BY <1>1, <1>2 DEF AInv, PInv, PipelineTypeOK
<1>6. Stored(c.id)'
  BY <1>4, <1>5, RowStored DEF Stored
<1> QED
  BY <1>3, <1>5, <1>6, OutcomeStep DEF EnrichFailed
-----------------------------------------------------------------------------
LEMMA AloneStep == Alone /\ AInv /\ [Next]_pipelineVars => AInv'
<1> SUFFICES ASSUME Alone, AInv, [Next]_pipelineVars PROVE StepInv'
  BY PipelineStep DEF AInv
<1>1. CASE \E i \in Items, a \in Arrival : Arrive(i, a)
  BY <1>1, ArriveStep
<1>2. CASE ExtractList
  BY <1>2, ExtractListStep
<1>3. CASE \E pending \in extractor.batch : ExtractSkip(pending) \/ ExtractFetch(pending)
  BY <1>3, ExtractSkipStep, ExtractFetchStep
<1>4. CASE \E outcome \in Outcome : ExtractFinish(outcome)
  BY <1>4, ExtractFinishStep
<1>5. CASE EnrichLoad
  BY <1>5, PassStep DEF EnrichLoad, AInv, PInv, PipelineTypeOK, Enricher
<1>6. CASE EnrichList
  BY <1>6, EnrichListStep
<1>7. CASE \E c \in enricher.batch :
             EnrichAnswered(c) \/ EnrichFailed(c) \/ EnrichUnreachable(c)
  <2>1. \A c \in enricher.batch : EnrichUnreachable(c) => StepInv'
    BY DoneTyped, PassStep DEF EnrichUnreachable, AInv
  <2> QED
    BY <1>7, <2>1, EnrichAnsweredStep, EnrichFailedStep
<1>8. CASE \E f \in Feeds : \/ \E a \in Agents : SetAgent(f, a)
                            \/ \E b \in BOOLEAN : SetLlm(f, b)
  <2>1. PICK f \in Feeds, b \in BOOLEAN : SetLlm(f, b)
    BY <1>8 DEF Alone, SetAgent
  <2> QED
    BY <2>1, PassStep DEF SetLlm
<1>9. CASE \E p \in Profiles : SaveProfile(p)
  BY <1>9, PassStep DEF SaveProfile
<1>10. CASE Restart
  BY <1>10 DEF Restart, AInv, StepInv, Waiting, Settled, Fresh, SummaryOfStoredText, Retired,
               IdleExtractor, IdleEnricher, PendingExtraction, Summarized, Stored
<1>11. CASE UNCHANGED pipelineVars
  BY <1>11, PassStep DEF pipelineVars
<1> QED
  BY <1>1, <1>2, <1>3, <1>4, <1>5, <1>6, <1>7, <1>8, <1>9, <1>10, <1>11 DEF Next, Alone

\* While only the worker fetches, under one agent, a summary is always of the
\* text the item has: enrichment waits until extraction is over.
THEOREM SummariesMatch ==
  ASSUME Alone
  PROVE  Spec => []SummaryOfStoredText
<1>1. AInv => SummaryOfStoredText
  BY DEF AInv, StepInv
<1> QED
  BY AloneInit, AloneStep, <1>1, PTL DEF Spec

\* Under the same conditions a page that refused is not asked again.
THEOREM RefusalsAreFinal ==
  ASSUME Alone
  PROVE  Spec => RefusalIsFinal
<1>1. AInv /\ AInv' /\ [Next]_pipelineVars =>
        [\A p \in Fetching' \ Fetching :
           p # None => <<p.agent, TRUE>> \notin charged[p.id]]_pipelineVars
  <2> SUFFICES ASSUME AInv, AInv', Next, NEW p \in Fetching' \ Fetching, p # None
               PROVE  <<p.agent, TRUE>> \notin charged[p.id]
    BY DEF pipelineVars
  <2>1. Fetching = {extractor.page} /\ Fetching' = {extractor'.page}
    BY DEF Fetching, Alone
  <2>2. \/ \E q \in extractor.batch : ExtractFetch(q)
        \/ extractor'.page \in {extractor.page, None}
    <3>1. ExtractList => extractor'.page = None
      BY DEF ExtractList, IdleExtractor
    <3>2. \A q \in extractor.batch : ExtractSkip(q) => extractor'.page = extractor.page
      BY DEF ExtractSkip, AInv, PInv, PipelineTypeOK
    <3>3. \A outcome \in Outcome : ExtractFinish(outcome) => extractor'.page = None
      BY DEF ExtractFinish, AInv, PInv, PipelineTypeOK
    <3>4. Restart => extractor'.page = None
      BY DEF Restart, IdleExtractor
    <3>5. ~\E r \in Readers : TRUE
      BY DEF Alone
    <3> QED
      BY <3>1, <3>2, <3>3, <3>4, <3>5
      DEF Next, Arrive, EnrichLoad, EnrichList, EnrichAnswered, EnrichFailed,
          EnrichUnreachable, SetAgent, SetLlm, SaveProfile
  <2>3. PICK q \in extractor.batch : ExtractFetch(q)
    BY <2>1, <2>2
  <2>4. p = q
    BY <2>1, <2>3 DEF ExtractFetch
  <2>5. p.id \in Items /\ p.agent \in Agents /\ PendingExtraction(p.id)
    BY <2>3, <2>4, BatchTyped DEF AInv, PInv, StepInv, Waiting
  <2> QED
    BY <2>5, NotRefused
<1> QED
  BY AloneInit, AloneStep, <1>1, PTL DEF Spec, RefusalIsFinal
=============================================================================
