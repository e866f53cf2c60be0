----------------------------- MODULE ModelHost -----------------------------
(***************************************************************************)
(* The process around the model host: who may call it, how /status knows   *)
(* whether it is there, and what a deploy does to those who wait.          *)
(*                                                                         *)
(* One semaphore stands before every call to the host (llm_permits).  The  *)
(* workers take a permit for each item, batch or digest, and so do two     *)
(* requests: a search by meaning, for its one query, and a digest that is  *)
(* asked for by hand, for a generation that takes minutes.  /status and    *)
(* the settings page ask Health, a cached probe behind a mutex that is     *)
(* held while the probe is under way.  A client that goes away drops its   *)
(* handler wherever it stands.  On a signal the listener closes and the    *)
(* requests that are open may finish, until a watchdog ends the process.   *)
(*                                                                         *)
(* Time passes only when nothing is due: a time-out strikes when it is     *)
(* reached, and what takes no time by itself happens before the next tick. *)
(***************************************************************************)
EXTENDS Integers, Sequences, FiniteSetsExt

CONSTANTS
  Workers,     \* the background loops that call the model host
  Requests,    \* bound: HTTP requests that are open at once
  Generators,  \* the workers that generate text, and the requests that may ask
               \* for a digest; the other workers embed, the others may search
  Permits,     \* cfg.llm_concurrency
  Generate,    \* GENERATE_TIMEOUT
  Embed,       \* EMBED_TIMEOUT
  Ttl,         \* TTL of a probe's result
  Probe,       \* PROBE_TIMEOUT
  Models,      \* the time-out of ollama::models
  Grace,       \* the drain window
  None         \* no call, no request, nothing cached

Callers == Workers \cup Requests

ASSUME HostAssumption ==
  /\ IsFiniteSet(Workers) /\ IsFiniteSet(Requests)
  /\ Workers \cap Requests = {}
  /\ Generators \subseteq Callers
  /\ Permits \in Nat \ {0}
  /\ Generate \in Nat /\ Embed \in Nat /\ Embed <= Generate
  /\ Ttl \in Nat \ {0} /\ Probe \in Nat /\ Models \in Nat
  /\ Grace \in Nat /\ Probe + Models < Grace

VARIABLES
  host,      \* whether it answers
  away,      \* history: how long ago it was the other way round
  calls,     \* calls[c]: how long the call of c is at the host, or None
  queue,     \* who waits for a permit, in this order
  cache,     \* what Health remembers: its age and its answer
  lock,      \* who is at the mutex of Health, in this order; the first has it
  requests,  \* the HTTP requests that are open
  phase,     \* serving, draining after a signal, or stopped
  drained,   \* how long it has been draining
  rested     \* history: how long ago a probe was completed

hostVars == <<host, away, calls, queue, cache, lock, requests, phase, drained, rested>>

\* Beyond this the histories need not be told apart.
Horizon == Ttl + Probe + Models + 1

Kinds  == {"status", "settings", "search", "digest", "stream"}
Stages == {"lock", "probe", "models", "asking", "answered", "open"}

\* `waited` counts until the health or the model's answer is known, `age` the time in the
\* present stage, `lost` the probes that were given up ahead of it.
Request == [kind : Kinds, stage : Stages, waited : Nat, age : Nat, lost : Nat, told : BOOLEAN]

ASSUME HostNoneAssumption == None \notin Nat \cup Request \cup [age : Nat, healthy : BOOLEAN]

HostTypeOK ==
  /\ host \in BOOLEAN
  /\ away \in 0..Horizon
  /\ calls \in [Callers -> 0..Generate \cup {None}]
  /\ queue \in Seq(Callers)
  /\ cache \in [age : 0..Ttl, healthy : BOOLEAN] \cup {None}
  /\ lock \in Seq(Requests)
  /\ requests \in [Requests -> Request \cup {None}]
  /\ phase \in {"serving", "draining", "stopped"}
  /\ drained \in 0..Grace
  /\ rested \in 0..Ttl

Init ==
  /\ host \in BOOLEAN
  /\ away = Horizon
  /\ calls = [c \in Callers |-> None]
  /\ queue = <<>>
  /\ cache = None
  /\ lock = <<>>
  /\ requests = [r \in Requests |-> None]
  /\ phase = "serving"
  /\ drained = 0
  /\ rested = Ttl
-----------------------------------------------------------------------------
(* Permits. *)

Holders == {c \in Callers : calls[c] # None}

\* How long a call may take.
Limit(c) == IF c \in Generators THEN Generate ELSE Embed

\* acquire: at once while there are permits, else at the end of the queue.
Acquire(c) ==
  \/ /\ Cardinality(Holders) < Permits
     /\ calls' = [calls EXCEPT ![c] = 0]
     /\ UNCHANGED queue
  \/ /\ Cardinality(Holders) >= Permits
     /\ queue' = Append(queue, c)
     /\ UNCHANGED calls

\* Mutant: who came last goes first.
ReleaseLast(c) ==
  \/ /\ queue = <<>>
     /\ calls' = [calls EXCEPT ![c] = None]
     /\ UNCHANGED queue
  \/ /\ queue # <<>>
     /\ calls' = [calls EXCEPT ![c] = None, ![queue[Len(queue)]] = 0]
     /\ queue' = SubSeq(queue, 1, Len(queue) - 1)

\* Dropping a permit: the semaphore hands it to the one that waits longest.
Release(c) ==
  \/ /\ queue = <<>>
     /\ calls' = [calls EXCEPT ![c] = None]
     /\ UNCHANGED queue
  \/ /\ queue # <<>>
     /\ calls' = [calls EXCEPT ![c] = None, ![Head(queue)] = 0]
     /\ queue' = Tail(queue)

Waits(c) == \E i \in 1..Len(queue) : queue[i] = c

\* A worker has something for the host.
WorkerCalls(w) ==
  /\ phase # "stopped"
  /\ calls[w] = None /\ ~Waits(w)
  /\ Acquire(w)
  /\ UNCHANGED <<host, away, cache, lock, requests, phase, drained, rested>>

\* Its call is over: an answer from a host that is there, an error status or a
\* refused connection at any time, or the time-out.
WorkerDone(w) ==
  /\ calls[w] # None
  /\ Release(w)
  /\ UNCHANGED <<host, away, cache, lock, requests, phase, drained, rested>>
-----------------------------------------------------------------------------
(* Requests. *)

Open(r)     == requests[r] # None
At(r, stage) == Open(r) /\ requests[r].stage = stage

NewRequest(kind, stage) ==
  [kind |-> kind, stage |-> stage, waited |-> 0, age |-> 0, lost |-> 0, told |-> FALSE]

\* The listener accepts nothing after the signal.
Arrive(r, kind, stage) ==
  /\ phase = "serving"
  /\ ~Open(r)
  /\ requests' = [requests EXCEPT ![r] = NewRequest(kind, stage)]
  /\ UNCHANGED <<host, away, cache, phase, drained, rested>>

\* status, and get_settings: both begin with Health::available.
AskHealth(r) ==
  /\ \E kind \in {"status", "settings"} : Arrive(r, kind, "lock")
  /\ lock' = Append(lock, r)
  /\ UNCHANGED <<calls, queue>>

\* list_items with mode=semantic: embed_query.
Search(r) ==
  /\ r \notin Generators
  /\ Arrive(r, "search", "asking")
  /\ Acquire(r)
  /\ UNCHANGED lock

\* make_digest: a generation of its own, or none if the day held too little.
MakeDigest(r) ==
  /\ r \in Generators
  /\ \/ Arrive(r, "digest", "asking") /\ Acquire(r)
     \/ Arrive(r, "digest", "answered") /\ UNCHANGED <<calls, queue>>
  /\ UNCHANGED lock

\* stream: open until the client closes it.
Listen(r) ==
  /\ Arrive(r, "stream", "open")
  /\ UNCHANGED <<calls, queue, lock>>

\* What follows the health: /status is answered; the settings page also wants the
\* names of the models, if the host is there.
Told(r, healthy) ==
  [requests EXCEPT ![r].told = healthy,
                   ![r].age = 0,
                   ![r].stage = IF requests[r].kind = "settings" /\ healthy
                                THEN "models" ELSE "answered"]

HasLock(r) == lock # <<>> /\ Head(lock) = r

\* The age of what is cached is checked with the mutex in hand.
Fresh == cache # None /\ cache.age < Ttl

\* Mutant: whoever asks makes the answer young again.
CacheHitSliding(r) ==
  /\ At(r, "lock") /\ HasLock(r)
  /\ Fresh
  /\ requests' = Told(r, cache.healthy)
  /\ cache' = [cache EXCEPT !.age = 0]
  /\ lock' = Tail(lock)
  /\ UNCHANGED <<host, away, calls, queue, phase, drained, rested>>

\* Health::available, with the mutex: what is cached stands for a while ...
CacheHit(r) ==
  /\ At(r, "lock") /\ HasLock(r)
  /\ Fresh
  /\ requests' = Told(r, cache.healthy)
  /\ lock' = Tail(lock)
  /\ UNCHANGED <<host, away, calls, queue, cache, phase, drained, rested>>

\* Mutant: the mutex is let go for the time of the probe.
ProbeStartUnlocked(r) ==
  /\ At(r, "lock") /\ HasLock(r)
  /\ ~Fresh
  /\ requests' = [requests EXCEPT ![r].stage = "probe", ![r].age = 0]
  /\ lock' = Tail(lock)
  /\ UNCHANGED <<host, away, calls, queue, cache, phase, drained, rested>>

\* ... else the host is asked, and the mutex kept meanwhile.
ProbeStart(r) ==
  /\ At(r, "lock") /\ HasLock(r)
  /\ ~Fresh
  /\ requests' = [requests EXCEPT ![r].stage = "probe", ![r].age = 0]
  /\ UNCHANGED <<host, away, calls, queue, cache, lock, phase, drained, rested>>

\* What leaves a queue when r is gone; nobody is in one twice.
Without(seq, r) ==
  IF \E i \in 1..Len(seq) : seq[i] = r
  THEN LET i == CHOOSE i \in 1..Len(seq) : seq[i] = r
       IN  SubSeq(seq, 1, i - 1) \o SubSeq(seq, i + 1, Len(seq))
  ELSE seq

\* Mutant: only a host that is there is remembered.
ProbeEndHealthyOnly(r, healthy) ==
  /\ requests' = Told(r, healthy)
  /\ cache' = IF healthy THEN [age |-> 0, healthy |-> TRUE] ELSE cache
  /\ lock' = Without(lock, r)
  /\ rested' = 0
  /\ UNCHANGED <<host, away, calls, queue, phase, drained>>

\* The outcome is remembered as of now, and the next at the mutex may look.
ProbeEnd(r, healthy) ==
  /\ requests' = Told(r, healthy)
  /\ cache' = [age |-> 0, healthy |-> healthy]
  /\ lock' = Without(lock, r)
  /\ rested' = 0
  /\ UNCHANGED <<host, away, calls, queue, phase, drained>>

\* probe: what the host is, or no answer in time from one that was away meanwhile.
ProbeAnswered(r) == At(r, "probe") /\ ProbeEnd(r, host)

ProbeTimedOut(r) ==
  /\ At(r, "probe") /\ requests[r].age = Probe
  /\ ~host \/ away <= Probe
  /\ ProbeEnd(r, FALSE)

\* ollama::models; without an answer the list is empty.
ModelsListed(r) ==
  /\ At(r, "models")
  /\ requests' = [requests EXCEPT ![r].stage = "answered"]
  /\ UNCHANGED <<host, away, calls, queue, cache, lock, phase, drained, rested>>

\* The vector, or none and the text index instead; the digest, or an error.
ModelAnswered(r) ==
  /\ At(r, "asking") /\ calls[r] # None
  /\ Release(r)
  /\ requests' = [requests EXCEPT ![r].stage = "answered"]
  /\ UNCHANGED <<host, away, cache, lock, phase, drained, rested>>

Close(r) ==
  /\ At(r, "answered")
  /\ requests' = [requests EXCEPT ![r] = None]
  /\ UNCHANGED <<host, away, calls, queue, cache, lock, phase, drained, rested>>

\* Those at the mutex lose a probe with the one that had it.
LostBy(r) ==
  [q \in Requests |->
     IF q = r THEN None
     ELSE IF At(q, "lock") /\ At(r, "probe") THEN [requests[q] EXCEPT !.lost = @ + 1]
     ELSE requests[q]]

\* Mutant: the permit of a request that is given up is not given back.
DisconnectLeaking(r) ==
  /\ Open(r)
  /\ requests' = LostBy(r)
  /\ lock' = Without(lock, r)
  /\ calls' = [calls EXCEPT ![r] = None]
  /\ queue' = Without(queue, r)
  /\ UNCHANGED <<host, away, cache, phase, drained, rested>>

\* The client is gone, and its handler with it: out of both queues, and what it
\* held is free.  A probe that is given up leaves the cache as it was.
Disconnect(r) ==
  /\ Open(r)
  /\ requests' = LostBy(r)
  /\ lock' = Without(lock, r)
  /\ \/ calls[r] # None /\ Release(r)
     \/ calls[r] = None /\ queue' = Without(queue, r) /\ UNCHANGED calls
  /\ UNCHANGED <<host, away, cache, phase, drained, rested>>
-----------------------------------------------------------------------------
(* The process, the host and the clock. *)

\* SIGTERM or SIGINT.
Signal ==
  /\ phase = "serving"
  /\ phase' = "draining"
  /\ UNCHANGED <<host, away, calls, queue, cache, lock, requests, drained, rested>>

\* What lives in memory goes with the process.
Forget ==
  /\ calls' = [c \in Callers |-> None]
  /\ queue' = <<>>
  /\ cache' = None
  /\ lock' = <<>>
  /\ requests' = [r \in Requests |-> None]
  /\ phase' = "stopped"
  /\ drained' = 0
  /\ rested' = Ttl
  /\ UNCHANGED <<host, away>>

\* Mutant: nothing waits for the requests that are open.
ExitAtOnce == phase = "draining" /\ Forget

\* run_server returns when the last connection is closed, and the watchdog ends
\* the process if that takes too long.
Exit ==
  /\ phase = "draining"
  /\ (\A r \in Requests : ~Open(r)) \/ drained = Grace
  /\ Forget

\* Restart=always.
Boot ==
  /\ phase = "stopped"
  /\ phase' = "serving"
  /\ UNCHANGED <<host, away, calls, queue, cache, lock, requests, drained, rested>>

\* The machine of the model goes to sleep or wakes up.
HostTurns ==
  /\ host' = ~host
  /\ away' = 0
  /\ UNCHANGED <<calls, queue, cache, lock, requests, phase, drained, rested>>

\* Something is due before time may pass.
Overdue ==
  \/ \E c \in Callers : calls[c] # None /\ calls[c] >= Limit(c)
  \/ \E r \in Requests :
       \/ At(r, "lock") /\ HasLock(r)
       \/ At(r, "probe") /\ requests[r].age >= Probe
       \/ At(r, "models") /\ requests[r].age >= Models
       \/ At(r, "answered")
  \/ phase = "draining" /\ (drained >= Grace \/ \A r \in Requests : ~Open(r))

UpTo(limit, n) == IF n < limit THEN n + 1 ELSE limit

Older(request) ==
  [request EXCEPT
     !.waited = IF request.stage \in {"lock", "probe", "asking"} THEN @ + 1 ELSE @,
     !.age = IF request.stage \in {"probe", "models"} THEN @ + 1 ELSE @]

Tick ==
  /\ ~Overdue
  /\ away' = UpTo(Horizon, away)
  /\ calls' = [c \in Callers |-> IF calls[c] = None THEN None ELSE calls[c] + 1]
  /\ cache' = IF cache = None THEN None ELSE [cache EXCEPT !.age = UpTo(Ttl, @)]
  /\ requests' = [r \in Requests |-> IF Open(r) THEN Older(requests[r]) ELSE None]
  /\ drained' = IF phase = "draining" THEN drained + 1 ELSE drained
  /\ rested' = UpTo(Ttl, rested)
  /\ UNCHANGED <<host, queue, lock, phase>>
-----------------------------------------------------------------------------
Next ==
  \/ \E w \in Workers : WorkerCalls(w) \/ WorkerDone(w)
  \/ \E r \in Requests : AskHealth(r) \/ Search(r) \/ MakeDigest(r) \/ Listen(r)
  \/ \E r \in Requests : CacheHit(r) \/ ProbeStart(r)
  \/ \E r \in Requests : ProbeAnswered(r) \/ ProbeTimedOut(r) \/ ModelsListed(r)
  \/ \E r \in Requests : ModelAnswered(r) \/ Close(r) \/ Disconnect(r)
  \/ Signal
  \/ Exit
  \/ Boot
  \/ HostTurns
  \/ Tick

Spec == Init /\ [][Next]_hostVars
-----------------------------------------------------------------------------
(* Properties. *)

\* No permit is lost and none is used twice: someone waits only while all are
\* taken, also when a search or a digest is given up in the queue or at the host
\* (llm_permits, embed_query).
NoPermitIsLost ==
  /\ Cardinality(Holders) <= Permits
  /\ queue # <<>> => Cardinality(Holders) = Permits
  /\ \A c \in Holders : ~Waits(c)

\* A search by meaning, or a digest asked for by hand, waits for each of the
\* others once at most, however often the workers and the clients come back:
\* behind the generations of both, but not behind the backlog (embed_query,
\* generate).
ModelWaitBounded ==
  \A r \in Requests : At(r, "asking") =>
    requests[r].waited <= MapThenSumSet(Limit, Callers)

\* What /status says was so within the life of a probe's result and the time a
\* probe takes (TTL is counted from the end of the probe); the settings page may
\* have asked for the models since.
StatusIsRecent ==
  \A r \in Requests : At(r, "answered") /\ requests[r].kind \in {"status", "settings"} =>
    \/ requests[r].told = host
    \/ away <= Ttl + Probe + (IF requests[r].kind = "settings" THEN Models ELSE 0)

\* The host is not probed again while a probe is under way, nor before the last
\* one that was completed has aged, whoever asks at the same time
\* (Health::available holds its mutex over the probe).
Probing == {r \in Requests : At(r, "probe")}

ProbesSpaced ==
  [][ Probing' \ Probing # {} => Probing = {} /\ rested = Ttl ]_hostVars

\* A host that is away makes /status slow, and does not hang it: whoever queues
\* for the health waits for one probe, and one more for each that was given up
\* ahead of it.
StatusWaitBounded ==
  \A r \in Requests : At(r, "lock") \/ At(r, "probe") =>
    requests[r].waited <= Probe * (1 + requests[r].lost)

\* A deploy cuts streams and those who wait for the model, but no request for the
\* status or the settings, unless probes were given up ahead of it.
QuickRequestsSurvive ==
  [][ phase' = "stopped" =>
        \A r \in Requests : Open(r) =>
          requests[r].kind \in {"search", "digest", "stream"} \/ requests[r].lost > 0 ]_hostVars
=============================================================================
