---------------------------- MODULE ItemPipeline ----------------------------
(***************************************************************************)
(* What happens to an item between its arrival and its score.              *)
(*                                                                         *)
(* A feed may ship a teaser.  Two paths fetch the article: a worker that   *)
(* drains the backlog in batches and the request that opens an item        *)
(* (extract.rs).  A second worker summarizes and scores (llm/enrich.rs); it*)
(* waits until extraction has succeeded or given up, and scores again when *)
(* the interest profile is edited.  Both workers derive their work from    *)
(* row state, list a batch, and record outcomes of the items listed long   *)
(* after the rows were read; meanwhile the reader opens items, changes a   *)
(* feed's User-Agent, opts a feed out, or edits the profile.               *)
(***************************************************************************)
EXTENDS Integers, FiniteSets

CONSTANTS
  Items,              \* item ids
  Feeds,              \* subscriptions
  FeedOf,             \* the feed of an item
  Hosts,              \* hosts of article pages
  HostOf,             \* the host of an item's page
  Agents,             \* User-Agents a feed may be fetched with
  HouseAgent,         \* rosso's own: the feed has no override
  Profiles,           \* interest profiles, by fingerprint
  NoProfile,          \* the blank one: scoring is off
  Readers,            \* requests that open items
  ExtractEnabled,     \* cfg.extract_enabled: ROSSO_EXTRACT is not 0
  Patches,            \* what the reader changes of a feed: "agent", "llm"
  MaxExtractAttempts, \* MAX_ATTEMPTS of extract.rs
  MaxEnrichAttempts,  \* MAX_ATTEMPTS of enrich.rs
  MaxHostRefusals,    \* MAX_HOST_REFUSALS
  ExtractBatch,       \* the limit of due_for_extraction
  EnrichBatch,        \* BATCH of enrich.rs
  MaxEdits,           \* bound: edits of the profile
  MaxRestarts,        \* bound: restarts
  None

ASSUME PipelineAssumption ==
  /\ FeedOf \in [Items -> Feeds]
  /\ HostOf \in [Items -> Hosts]
  /\ HouseAgent \in Agents
  /\ IsFiniteSet(Readers)
  /\ NoProfile \in Profiles
  /\ None \notin Profiles
  /\ ExtractEnabled \in BOOLEAN
  /\ Patches \subseteq {"agent", "llm"}
  /\ MaxExtractAttempts \in Nat \ {0}
  /\ MaxEnrichAttempts \in Nat \ {0}
  /\ MaxHostRefusals \in Nat \ {0}
  /\ ExtractBatch \in Nat \ {0}
  /\ EnrichBatch \in Nat \ {0}
  /\ MaxEdits \in Nat
  /\ MaxRestarts \in Nat

VARIABLES
  items,      \* the items table
  agent,      \* feeds.user_agent
  llm,        \* feeds.llm_enabled
  profile,    \* settings.interest_profile
  extractor,  \* the extraction worker: what is left of its batch, the page it fetches
  refusals,   \* its count of refusals by host and agent
  opening,    \* opening[r]: the page request r is fetching
  enricher,   \* the enrichment worker: its stage, profile and batch
  edits,      \* edits of the profile so far
  restarts,   \* restarts so far
  charged     \* history: the failures counted against an item, by the agent
              \* that met them and whether they were refusals

pipelineVars == <<items, agent, llm, profile, extractor, refusals, opening,
                  enricher, edits, restarts, charged>>

\* content_text: nothing, a teaser, or the article.
Text == {"none", "teaser", "article"}

\* `summary` is the text the summary is of, "none" while enriched_at is NULL;
\* `score` is the profile the score answers, `scored` is scored_profile.
ItemRow == [text : Text, truncated : BOOLEAN, url : BOOLEAN, extracted : BOOLEAN,
            tries : Nat, error : BOOLEAN, summary : Text,
            score : Profiles \cup {None}, scored : Profiles \cup {None},
            attempts : 0..MaxEnrichAttempts]

\* PendingExtraction: the agent is the feed's when the row was read.
Pending == [id : Items, agent : Agents]

\* EnrichCandidate: a summary to write of `text`, or a score to redo.
Candidate == [id : Items, rescore : BOOLEAN, text : Text]

Enricher == [stage : {"idle", "loaded", "asking"}, profile : Profiles,
             batch : SUBSET Candidate]

ASSUME PipelineNone == None \notin ItemRow \cup Pending

PipelineTypeOK ==
  /\ items \in [Items -> ItemRow \cup {None}]
  /\ agent \in [Feeds -> Agents]
  /\ llm \in [Feeds -> BOOLEAN]
  /\ profile \in Profiles
  /\ extractor \in [batch : SUBSET Pending, page : Pending \cup {None}]
  /\ refusals \in [Hosts \X Agents -> 0..MaxHostRefusals]
  /\ opening \in [Readers -> Pending \cup {None}]
  /\ enricher \in Enricher
  /\ edits \in 0..MaxEdits
  /\ restarts \in 0..MaxRestarts
  /\ charged \in [Items -> SUBSET (Agents \X BOOLEAN)]

IdleExtractor == [batch |-> {}, page |-> None]
IdleEnricher == [stage |-> "idle", profile |-> NoProfile, batch |-> {}]

Init ==
  /\ items = [i \in Items |-> None]
  /\ agent = [f \in Feeds |-> HouseAgent]
  /\ llm = [f \in Feeds |-> TRUE]
  /\ profile = NoProfile
  /\ extractor = IdleExtractor
  /\ refusals = [key \in Hosts \X Agents |-> 0]
  /\ opening = [r \in Readers |-> None]
  /\ enricher = IdleEnricher
  /\ edits = 0
  /\ restarts = 0
  /\ charged = [i \in Items |-> {}]
-----------------------------------------------------------------------------
Stored(i) == items[i] # None

AtMost(a, b) == IF a <= b THEN a ELSE b
AtLeast(a, b) == IF a >= b THEN a ELSE b

\* parse.rs: a body that is not truncated is the article, and only a truncated
\* one may be empty or a teaser.
Arrival == {a \in [text : Text, truncated : BOOLEAN, url : BOOLEAN] :
              a.truncated <=> a.text # "article"}

Arrive(i, a) ==
  /\ ~Stored(i)
  /\ items' = [items EXCEPT ![i] =
       [text |-> a.text, truncated |-> a.truncated, url |-> a.url,
        extracted |-> FALSE, tries |-> 0, error |-> FALSE, summary |-> "none",
        score |-> None, scored |-> None, attempts |-> 0]]
  /\ UNCHANGED <<agent, llm, profile, extractor, refusals, opening, enricher, edits,
                 restarts, charged>>
-----------------------------------------------------------------------------
(* Extraction. *)

\* Mutant: attempts do not run out.
PendingExtractionForever(i) ==
  /\ Stored(i)
  /\ items[i].url
  /\ ~items[i].extracted
  /\ items[i].truncated

\* PENDING_EXTRACTION_WHERE.
PendingExtraction(i) ==
  /\ Stored(i)
  /\ items[i].url
  /\ ~items[i].extracted
  /\ items[i].truncated
  /\ items[i].tries < MaxExtractAttempts

PendingOf(i) == [id |-> i, agent |-> agent[FeedOf[i]]]

RecordExtraction(i) ==
  /\ items' = [items EXCEPT ![i].text = "article", ![i].extracted = TRUE,
                            ![i].error = FALSE, ![i].tries = 0]
  /\ charged' = [charged EXCEPT ![i] = {}]

\* Mutant: a refusal is counted like any failure.
RecordExtractionFailureFlat(pending, terminal) ==
  LET i == pending.id
  IN /\ items' = [items EXCEPT ![i].error = TRUE, ![i].tries = @ + 1]
     /\ charged' = [charged EXCEPT ![i] = @ \cup {<<pending.agent, terminal>>}]

\* Mutant: a failure takes the item up again, also one that has its article.
RecordExtractionFailureReopening(pending, terminal) ==
  LET i == pending.id
  IN /\ items' = [items EXCEPT
            ![i].error = TRUE, ![i].extracted = FALSE,
            ![i].tries = AtLeast(@ + 1, IF terminal THEN MaxExtractAttempts ELSE 0)]
     /\ charged' = [charged EXCEPT ![i] = @ \cup {<<pending.agent, terminal>>}]

\* record_extraction_failure: a terminal failure spends every attempt at once.
RecordExtractionFailure(pending, terminal) ==
  LET i == pending.id
  IN /\ items' = [items EXCEPT
            ![i].error = TRUE,
            ![i].tries = AtLeast(@ + 1, IF terminal THEN MaxExtractAttempts ELSE 0)]
     /\ charged' = [charged EXCEPT ![i] = @ \cup {<<pending.agent, terminal>>}]

\* run_one, from the page's answer on.
RunOne(pending, outcome) ==
  \/ outcome = "extracted" /\ RecordExtraction(pending.id)
  \/ outcome = "failed" /\ RecordExtractionFailure(pending, FALSE)
  \/ outcome = "refused" /\ RecordExtractionFailure(pending, TRUE)

Outcome == {"extracted", "failed", "refused"}

KeyOf(pending) == <<HostOf[pending.id], pending.agent>>

Refusing(pending) == refusals[KeyOf(pending)] >= MaxHostRefusals

\* run, if it is on at all: due_for_extraction.
ExtractList ==
  /\ ExtractEnabled
  /\ extractor = IdleExtractor
  /\ LET due == {i \in Items : PendingExtraction(i)}
     IN \E S \in SUBSET due :
          /\ S # {}
          /\ Cardinality(S) = AtMost(ExtractBatch, Cardinality(due))
          /\ extractor' = [extractor EXCEPT !.batch = {PendingOf(i) : i \in S}]
  /\ UNCHANGED <<items, agent, llm, profile, refusals, opening, enricher, edits,
                 restarts, charged>>

\* A host that has refused often enough is not asked: the item is retired.
ExtractSkip(pending) ==
  /\ extractor.page = None
  /\ pending \in extractor.batch
  /\ Refusing(pending)
  /\ RecordExtractionFailure(pending, TRUE)
  /\ extractor' = [extractor EXCEPT !.batch = @ \ {pending}]
  /\ UNCHANGED <<agent, llm, profile, refusals, opening, enricher, edits, restarts>>

ExtractFetch(pending) ==
  /\ extractor.page = None
  /\ pending \in extractor.batch
  /\ ~Refusing(pending)
  /\ extractor' = [batch |-> extractor.batch \ {pending}, page |-> pending]
  /\ UNCHANGED <<items, agent, llm, profile, refusals, opening, enricher, edits,
                 restarts, charged>>

\* The page answers; a success clears the host's refusals.
ExtractFinish(outcome) ==
  /\ extractor.page # None
  /\ RunOne(extractor.page, outcome)
  /\ refusals' = [refusals EXCEPT ![KeyOf(extractor.page)] =
       CASE outcome = "refused"   -> @ + 1
         [] outcome = "extracted" -> 0
         [] OTHER                 -> @]
  /\ extractor' = [extractor EXCEPT !.page = None]
  /\ UNCHANGED <<agent, llm, profile, opening, enricher, edits, restarts>>

\* get_item of an item that is pending.
OpenStart(r, i) ==
  /\ ExtractEnabled
  /\ opening[r] = None
  /\ PendingExtraction(i)
  /\ opening' = [opening EXCEPT ![r] = PendingOf(i)]
  /\ UNCHANGED <<items, agent, llm, profile, extractor, refusals, enricher, edits,
                 restarts, charged>>

OpenFinish(r, outcome) ==
  /\ opening[r] # None
  /\ RunOne(opening[r], outcome)
  /\ opening' = [opening EXCEPT ![r] = None]
  /\ UNCHANGED <<agent, llm, profile, extractor, refusals, enricher, edits, restarts>>

\* INLINE_TIMEOUT drops the fetch; nothing is recorded.
OpenTimeout(r) ==
  /\ opening[r] # None
  /\ opening' = [opening EXCEPT ![r] = None]
  /\ UNCHANGED <<items, agent, llm, profile, extractor, refusals, enricher, edits,
                 restarts, charged>>
-----------------------------------------------------------------------------
(* Enrichment. *)

Summarized(i) == items[i].summary # "none"

\* Mutant: the summary does not wait for the article.
DueForEnrichmentEarly(fingerprint) ==
  {i \in Items : /\ Stored(i)
                 /\ llm[FeedOf[i]]
                 /\ items[i].attempts < MaxEnrichAttempts
                 /\ Summarized(i) => items[i].scored # fingerprint
                 /\ Summarized(i) \/ items[i].text # "none"}

\* Mutant: an item is given up on one failure too late.
DueForEnrichmentLonger(fingerprint) ==
  {i \in Items : /\ Stored(i)
                 /\ llm[FeedOf[i]]
                 /\ items[i].attempts <= MaxEnrichAttempts
                 /\ Summarized(i) => items[i].scored # fingerprint
                 /\ Summarized(i) \/ items[i].text # "none"
                 /\ ~Summarized(i) => ~PendingExtraction(i)}

\* Mutant: only what was never summarized is due.
DueForEnrichmentOnce(fingerprint) ==
  {i \in Items : /\ Stored(i)
                 /\ llm[FeedOf[i]]
                 /\ items[i].attempts < MaxEnrichAttempts
                 /\ ~Summarized(i)
                 /\ items[i].text # "none"
                 /\ ~PendingExtraction(i)}

\* due_for_enrichment.
DueForEnrichment(fingerprint) ==
  {i \in Items : /\ Stored(i)
                 /\ llm[FeedOf[i]]
                 /\ items[i].attempts < MaxEnrichAttempts
                 /\ Summarized(i) => items[i].scored # fingerprint
                 /\ Summarized(i) \/ items[i].text # "none"
                 /\ ~Summarized(i) => ~PendingExtraction(i)}

CandidateOf(i) == [id |-> i, rescore |-> Summarized(i), text |-> items[i].text]

\* pass, up to its settings: they serve for the whole of it.
EnrichLoad ==
  /\ enricher.stage = "idle"
  /\ enricher' = [enricher EXCEPT !.stage = "loaded", !.profile = profile]
  /\ UNCHANGED <<items, agent, llm, profile, extractor, refusals, opening, edits,
                 restarts, charged>>

EnrichList ==
  /\ enricher.stage = "loaded"
  /\ LET due == DueForEnrichment(enricher.profile)
     IN \E S \in SUBSET due :
          /\ Cardinality(S) = AtMost(EnrichBatch, Cardinality(due))
          /\ enricher' = IF S = {} THEN IdleEnricher
                         ELSE [enricher EXCEPT !.stage = "asking",
                                               !.batch = {CandidateOf(i) : i \in S}]
  /\ UNCHANGED <<items, agent, llm, profile, extractor, refusals, opening, edits,
                 restarts, charged>>

\* The pass without one of its candidates.
Done(c) == IF enricher.batch = {c} THEN IdleEnricher
           ELSE [enricher EXCEPT !.batch = @ \ {c}]

\* With a blank profile there is nothing to score against.
ScoreOf(p) == IF p = NoProfile THEN None ELSE p

\* Mutant: the row names the profile of the moment.
EnrichAnsweredLate(c) ==
  /\ enricher.stage = "asking"
  /\ c \in enricher.batch
  /\ items' = [items EXCEPT
       ![c.id].summary = IF c.rescore THEN @ ELSE c.text,
       ![c.id].score = ScoreOf(enricher.profile),
       ![c.id].scored = profile,
       ![c.id].attempts = 0]
  /\ enricher' = Done(c)
  /\ UNCHANGED <<agent, llm, profile, extractor, refusals, opening, edits, restarts,
                 charged>>

\* full_pass with record_enrichment, rescore_pass with record_rescore.
EnrichAnswered(c) ==
  /\ enricher.stage = "asking"
  /\ c \in enricher.batch
  /\ items' = [items EXCEPT
       ![c.id].summary = IF c.rescore THEN @ ELSE c.text,
       ![c.id].score = ScoreOf(enricher.profile),
       ![c.id].scored = enricher.profile,
       ![c.id].attempts = 0]
  /\ enricher' = Done(c)
  /\ UNCHANGED <<agent, llm, profile, extractor, refusals, opening, edits, restarts,
                 charged>>

\* A score that is only dropped asks nobody, and so cannot fail.
Asks(c) == c.rescore => enricher.profile # NoProfile

\* record_enrich_failure: an answer that could not be used.
EnrichFailed(c) ==
  /\ enricher.stage = "asking"
  /\ c \in enricher.batch
  /\ Asks(c)
  /\ items' = [items EXCEPT ![c.id].attempts = @ + 1]
  /\ enricher' = Done(c)
  /\ UNCHANGED <<agent, llm, profile, extractor, refusals, opening, edits, restarts,
                 charged>>

\* The model host is off: the item is charged nothing.
EnrichUnreachable(c) ==
  /\ enricher.stage = "asking"
  /\ c \in enricher.batch
  /\ Asks(c)
  /\ enricher' = Done(c)
  /\ UNCHANGED <<items, agent, llm, profile, extractor, refusals, opening, edits,
                 restarts, charged>>
-----------------------------------------------------------------------------
(* The reader. *)

\* update_feed with a user_agent, the old one included: items without their
\* article get their attempts back.
SetAgent(f, a) ==
  /\ "agent" \in Patches
  /\ agent' = [agent EXCEPT ![f] = a]
  /\ LET reset == {i \in Items : Stored(i) /\ FeedOf[i] = f /\ ~items[i].extracted}
     IN /\ items' = [i \in Items |->
             IF i \in reset THEN [items[i] EXCEPT !.tries = 0, !.error = FALSE]
             ELSE items[i]]
        /\ charged' = [i \in Items |-> IF i \in reset THEN {} ELSE charged[i]]
  /\ UNCHANGED <<llm, profile, extractor, refusals, opening, enricher, edits, restarts>>

SetLlm(f, enabled) ==
  /\ "llm" \in Patches
  /\ llm' = [llm EXCEPT ![f] = enabled]
  /\ UNCHANGED <<items, agent, profile, extractor, refusals, opening, enricher, edits,
                 restarts, charged>>

SaveProfile(p) ==
  /\ edits < MaxEdits
  /\ edits' = edits + 1
  /\ profile' = p
  /\ UNCHANGED <<items, agent, llm, extractor, refusals, opening, enricher, restarts,
                 charged>>

\* Batches, fetches and the hosts' refusals live in memory only.
Restart ==
  /\ restarts < MaxRestarts
  /\ restarts' = restarts + 1
  /\ extractor' = IdleExtractor
  /\ refusals' = [key \in Hosts \X Agents |-> 0]
  /\ opening' = [r \in Readers |-> None]
  /\ enricher' = IdleEnricher
  /\ UNCHANGED <<items, agent, llm, profile, edits, charged>>
-----------------------------------------------------------------------------
Next ==
  \/ \E i \in Items, a \in Arrival : Arrive(i, a)
  \/ ExtractList
  \/ \E pending \in extractor.batch : ExtractSkip(pending) \/ ExtractFetch(pending)
  \/ \E outcome \in Outcome : ExtractFinish(outcome)
  \/ \E r \in Readers : \/ \E i \in Items : OpenStart(r, i)
                        \/ \E outcome \in Outcome : OpenFinish(r, outcome)
                        \/ OpenTimeout(r)
  \/ EnrichLoad \/ EnrichList
  \/ \E c \in enricher.batch : EnrichAnswered(c) \/ EnrichFailed(c) \/ EnrichUnreachable(c)
  \/ \E f \in Feeds : \/ \E a \in Agents : SetAgent(f, a)
                      \/ \E b \in BOOLEAN : SetLlm(f, b)
  \/ \E p \in Profiles : SaveProfile(p)
  \/ Restart

Spec == Init /\ [][Next]_pipelineVars

\* Both workers loop for ever, pages answer or time out, and a model host that is
\* asked again and again gives an answer sooner or later.
PipelineFairness ==
  /\ WF_pipelineVars(ExtractList)
  /\ WF_pipelineVars(\E pending \in extractor.batch :
                       ExtractSkip(pending) \/ ExtractFetch(pending))
  /\ WF_pipelineVars(\E outcome \in Outcome : ExtractFinish(outcome))
  /\ WF_pipelineVars(EnrichLoad)
  /\ WF_pipelineVars(EnrichList)
  /\ WF_pipelineVars(\E c \in enricher.batch :
                       EnrichAnswered(c) \/ EnrichFailed(c) \/ EnrichUnreachable(c))
  /\ SF_pipelineVars(\E c \in enricher.batch : EnrichAnswered(c) \/ EnrichFailed(c))

FairSpec == Spec /\ PipelineFairness
-----------------------------------------------------------------------------
(* Properties. *)

\* However many paths fetch one page at once, an item is charged at most one
\* failure beyond its attempts for every request that opens it.
AttemptsBounded ==
  \A i \in Items :
    Stored(i) => items[i].tries <= MaxExtractAttempts + Cardinality(Readers)

\* The score in a row was given for the profile the row names, whatever was
\* edited while the model answered.
ScoreAnswersItsProfile ==
  \A i \in Items :
    Stored(i) /\ items[i].scored # None => items[i].score = ScoreOf(items[i].scored)

\* A summary is of the text the item has: never of the teaser once the article
\* is there.
SummaryOfStoredText ==
  \A i \in Items : Stored(i) /\ Summarized(i) => items[i].summary = items[i].text

\* "Whichever gets there first wins" (extract.rs) does not hold of all columns: a late
\* failure is charged to the extracted item.  What holds: whichever is late, and however it ends, the item keeps
\* its article and is not taken up for extraction again (record_extraction_failure
\* knows nothing of the other path; neither does a new User-Agent reset the item).
ArticleStays ==
  [][\A i \in Items : Stored(i) /\ items[i].extracted =>
       items'[i].extracted /\ items'[i].text = "article"]_pipelineVars

\* The pages being fetched.
Fetching == {extractor.page} \cup {opening[r] : r \in Readers}

\* A page that refused an agent is not fetched with it again, until the reader
\* sets the feed's agent.
RefusalIsFinal ==
  [][\A p \in Fetching' \ Fetching :
       p # None => <<p.agent, TRUE>> \notin charged[p.id]]_pipelineVars

\* Every item with something to read ends summarized and scored for the profile,
\* or given up on, unless its feed is opted out ("every item gets a two-sentence
\* summary").  With extraction switched off a teaser waits for an article for ever.
EveryItemScored ==
  \A i \in Items :
    Stored(i) ~> /\ Stored(i)
                 /\ \/ items[i].scored = profile
                    \/ items[i].attempts = MaxEnrichAttempts
                    \/ items[i].text = "none" /\ (ExtractEnabled => ~PendingExtraction(i))
                    \/ ~llm[FeedOf[i]]
=============================================================================
