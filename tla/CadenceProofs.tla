--------------------------- MODULE CadenceProofs ---------------------------
(* The cadence of one feed, for every choice of the constants. *)
EXTENDS Cadence, ScheduleProofs

\* The interval after the given number of failures in a row.
AfterFailures(f) == NextInterval(0, "failed", f, 0)

\* The interval a failing feed has is no longer than what its next failure brings.
GrowsNext == failures > 0 => interval <= AfterFailures(failures + 1)

CInv == CadenceTypeOK /\ OnlyPublisherExceedsCeiling /\ GrowsNext

\* What a poll brings of a failure does not depend on the interval before it.
LEMMA FailureForgetsInterval ==
  ASSUME NEW current \in Nat, NEW f \in Nat
  PROVE  NextInterval(current, "failed", f, 0) = AfterFailures(f)
<1>1. Base(current, "failed", f) = Backoff(f) /\ Base(0, "failed", f) = Backoff(f)
  BY DEF Base
<1> QED
  BY <1>1 DEF NextInterval, AfterFailures

LEMMA AfterFailuresType ==
  ASSUME NEW f \in Nat
  PROVE  AfterFailures(f) \in MinInterval..MaxPublisher
BY NextIntervalBounds DEF AfterFailures, PollResults

\* A further failure never brings a shorter interval.
LEMMA AfterFailuresMonotone ==
  ASSUME NEW f \in Nat, NEW g \in Nat, f <= g
  PROVE  AfterFailures(f) <= AfterFailures(g)
<1>1. Base(0, "failed", f) = Backoff(f) /\ Base(0, "failed", g) = Backoff(g)
  BY DEF Base
<1>2. Backoff(f) \in Nat /\ Backoff(g) \in Nat /\ Backoff(f) <= Backoff(g)
  <2>1. Backoff(f) \in 0..MaxInterval /\ Backoff(g) \in 0..MaxInterval
    BY BackoffBounds
  <2> QED
    BY <2>1, BackoffMonotone, IntervalAssumption
<1> QED
  BY <1>1, <1>2, IntervalAssumption
     DEF AfterFailures, NextInterval, Clamp, AtMost, AtLeast

\* An answer with no failure keeps the invariant, whatever ttl came with it.
LEMMA AnswerKeeps ==
  ASSUME CInv, NEW result \in PollResults, NEW declared \in Nat,
         interval' = NextInterval(interval, result, 0, declared),
         failures' = 0,
         ttl' \in DocumentTtls \cup {0},
         declared # 0 => ttl' = declared
  PROVE  CInv'
<1>1. interval \in Nat
  BY IntervalAssumption DEF CInv, CadenceTypeOK
<1>2. /\ interval' \in MinInterval..MaxPublisher
      /\ interval' > MaxInterval => interval' = AtMost(declared, MaxPublisher)
  BY <1>1, NextIntervalBounds
<1>3. CadenceTypeOK'
  BY <1>2, CadenceAssumption DEF CadenceTypeOK
<1>4. OnlyPublisherExceedsCeiling'
  BY <1>2, IntervalAssumption DEF OnlyPublisherExceedsCeiling, AtMost
<1>5. GrowsNext'
  BY DEF GrowsNext
<1> QED
  BY <1>3, <1>4, <1>5 DEF CInv

LEMMA FailKeeps ==
  ASSUME CInv, Fail
  PROVE  CInv' /\ (failures > 0 => interval' >= interval)
<1>1. interval \in Nat /\ failures \in 0..FailureBound /\ failures \in Nat
  BY IntervalAssumption, CadenceAssumption DEF CInv, CadenceTypeOK
<1>2. interval' = AfterFailures(failures + 1)
  BY <1>1, FailureForgetsInterval DEF Fail
<1>3. /\ failures' \in 0..FailureBound
      /\ failures' \in Nat
      /\ failures' >= failures
  BY <1>1, CadenceAssumption DEF Fail, AtMost
<1>4. interval' \in MinInterval..MaxPublisher /\ interval' \in Nat
  BY <1>1, <1>2, AfterFailuresType, IntervalAssumption
<1>5. ~(interval' > MaxInterval)
  <2>1. /\ interval' = NextInterval(interval, "failed", failures + 1, 0)
        /\ "failed" \in PollResults
    BY DEF Fail, PollResults
  <2>2. interval' > MaxInterval => interval' = AtMost(0, MaxPublisher)
    BY <1>1, <2>1, NextIntervalBounds
  <2> QED
    BY <1>4, <2>2, IntervalAssumption DEF AtMost
<1>6. CadenceTypeOK'
  BY <1>3, <1>4 DEF Fail, CInv, CadenceTypeOK
<1>7. OnlyPublisherExceedsCeiling'
  BY <1>5 DEF OnlyPublisherExceedsCeiling
<1>8. GrowsNext'
  BY <1>1, <1>2, <1>3, AfterFailuresMonotone DEF GrowsNext
<1>9. failures > 0 => interval' >= interval
  BY <1>1, <1>2, <1>4 DEF CInv, GrowsNext
<1> QED
  BY <1>6, <1>7, <1>8, <1>9 DEF CInv

LEMMA CadenceInit == Init => CInv
BY IntervalAssumption, CadenceAssumption
   DEF Init, CInv, CadenceTypeOK, OnlyPublisherExceedsCeiling, GrowsNext

LEMMA CadenceNext ==
  CInv /\ [Next]_cadenceVars =>
    CInv' /\ [failures > 0 /\ failures' > 0 => interval' >= interval]_cadenceVars
<1> SUFFICES ASSUME CInv, [Next]_cadenceVars
             PROVE  /\ CInv'
                    /\ [failures > 0 /\ failures' > 0 => interval' >= interval]_cadenceVars
  OBVIOUS
<1>1. ASSUME NEW declared \in DocumentTtls, Fresh(declared)
      PROVE  CInv' /\ failures' = 0
  BY <1>1, AnswerKeeps, CadenceAssumption DEF Fresh, PollResults
<1>2. ASSUME NEW declared \in DocumentTtls, Known(declared)
      PROVE  CInv' /\ failures' = 0
  BY <1>2, AnswerKeeps, CadenceAssumption DEF Known, PollResults
<1>3. CASE NotModified
  BY <1>3, AnswerKeeps DEF NotModified, PollResults, CInv, CadenceTypeOK
<1>4. CASE Fail
  BY <1>4, FailKeeps
<1>5. CASE UNCHANGED cadenceVars
  BY <1>5 DEF cadenceVars, CInv, CadenceTypeOK, OnlyPublisherExceedsCeiling,
              GrowsNext, AfterFailures, NextInterval, Base, Backoff
<1> QED
  BY <1>1, <1>2, <1>3, <1>4, <1>5 DEF Next

\* Only a publisher's own ttl ever makes a feed slower than our ceiling.
THEOREM CeilingKept == Spec => []OnlyPublisherExceedsCeiling
<1>1. CInv => OnlyPublisherExceedsCeiling
  BY DEF CInv
<1> QED
  BY <1>1, CadenceInit, CadenceNext, PTL DEF Spec

\* A feed that keeps failing is never asked sooner for failing again.
THEOREM BackoffOnlyGrows == Spec => BackoffGrows
BY CadenceInit, CadenceNext, PTL DEF Spec, BackoffGrows
=============================================================================
