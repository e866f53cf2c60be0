------------------------------ MODULE Cadence ------------------------------
(***************************************************************************)
(* The poll interval of one feed over its life, in the seconds the code    *)
(* uses: each poll replaces the interval with next_interval of what it     *)
(* found, and the ttl with what the document declared.                     *)
(*                                                                         *)
(* poll_inner and record_success decide what is passed: a 200 brings its   *)
(* own ttl, a 304 and a failure bring none.                                *)
(***************************************************************************)
EXTENDS Schedule

CONSTANTS
  DocumentTtls,  \* ttls the publisher's documents declare, in seconds; 0 none
  FailureBound   \* bound: the failure counter saturates here

ASSUME CadenceAssumption ==
  /\ DocumentTtls \subseteq Nat
  /\ FailureBound \in Nat \ {0}

VARIABLES
  interval,  \* interval_s
  failures,  \* failures
  ttl        \* ttl_minutes, in seconds

cadenceVars == <<interval, failures, ttl>>

CadenceTypeOK ==
  /\ interval \in MinInterval..MaxPublisher
  /\ failures \in 0..FailureBound
  /\ ttl \in DocumentTtls \cup {0}

Init ==
  /\ interval = DefaultInterval
  /\ failures = 0
  /\ ttl = 0

\* A 200: entries are new or all known (record_success).
Fresh(declared) ==
  /\ interval' = NextInterval(interval, "newItems", 0, declared)
  /\ failures' = 0
  /\ ttl' = declared

Known(declared) ==
  /\ interval' = NextInterval(interval, "unchanged", 0, declared)
  /\ failures' = 0
  /\ ttl' = declared

\* A 304: poll_inner passes no ttl, record_unchanged leaves the column alone.
NotModified ==
  /\ interval' = NextInterval(interval, "unchanged", 0, 0)
  /\ failures' = 0
  /\ UNCHANGED ttl

Fail ==
  /\ interval' = NextInterval(interval, "failed", failures + 1, 0)
  /\ failures' = AtMost(failures + 1, FailureBound)
  /\ UNCHANGED ttl

Next ==
  \/ \E declared \in DocumentTtls : Fresh(declared) \/ Known(declared)
  \/ NotModified
  \/ Fail

Spec == Init /\ [][Next]_cadenceVars
-----------------------------------------------------------------------------
\* Each further failure waits at least as long as the one before it, until the
\* ceiling: a flapping feed is never asked faster for failing again.
BackoffGrows ==
  [][failures > 0 /\ failures' > 0 => interval' >= interval]_cadenceVars

\* Only a publisher's own ttl makes us slower than our ceiling, and only as slow
\* as it asked: a failure or a quiet spell never does.
OnlyPublisherExceedsCeiling ==
  interval > MaxInterval => ttl >= AtMost(interval, MaxPublisher)

\* A feed that is polled and has nothing new drifts all the way to the ceiling,
\* and one that has something new at every poll, and asks for nothing, comes to be
\* visited as often as we visit any feed: integer division stops neither short.
DriftReachesBounds ==
  /\ <>[][NotModified]_cadenceVars /\ WF_cadenceVars(NotModified)
       => <>[](interval = MaxInterval)
  /\ <>[][Fresh(0)]_cadenceVars /\ WF_cadenceVars(Fresh(0))
       => <>[](interval = MinInterval)
=============================================================================
