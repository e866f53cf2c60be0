--------------------------- MODULE ScheduleProofs ---------------------------
(* What next_interval can return, for every value of its parameters. *)
EXTENDS Schedule, TLAPS

\* The backoff is a number of time units, never above our ceiling.
LEMMA BackoffBounds ==
  ASSUME NEW f \in Nat
  PROVE  Backoff(f) \in 0..MaxInterval
<1>1. Clamp(f, 1, 5) \in 1..5
  BY DEF Clamp, AtMost, AtLeast
<1>2. PowerOfTwo[Clamp(f, 1, 5)] \in {1, 2, 4, 8, 16}
  BY <1>1 DEF PowerOfTwo
<1> QED
  BY <1>2, IntervalAssumption DEF Backoff, AtMost

\* One more failure never shortens the wait (the shift saturates at four).
LEMMA BackoffMonotone ==
  ASSUME NEW f \in Nat, NEW g \in Nat, f <= g
  PROVE  Backoff(f) <= Backoff(g)
<1> DEFINE m == PowerOfTwo[Clamp(f, 1, 5)]
           n == PowerOfTwo[Clamp(g, 1, 5)]
<1>1. /\ Clamp(f, 1, 5) \in 1..5
      /\ Clamp(g, 1, 5) \in 1..5
      /\ Clamp(f, 1, 5) <= Clamp(g, 1, 5)
  BY DEF Clamp, AtMost, AtLeast
<1>2. m \in Nat /\ n \in Nat /\ m <= n
  BY <1>1 DEF PowerOfTwo
<1> HIDE DEF m, n
<1>3. DefaultInterval * m <= DefaultInterval * n
  <2>1. PICK k \in Nat : n = m + k
    <3>1. n - m \in Nat /\ n = m + (n - m)
      BY <1>2
    <3> QED
      BY <3>1
  <2>2. DefaultInterval * n = DefaultInterval * m + DefaultInterval * k
    BY <1>2, <2>1, IntervalAssumption
  <2>3. DefaultInterval * k \in Nat /\ DefaultInterval * m \in Nat
    BY <1>2, <2>1, IntervalAssumption
  <2> QED
    BY <2>2, <2>3
<1>4. DefaultInterval * m \in Nat /\ DefaultInterval * n \in Nat
  BY <1>2, IntervalAssumption
<1>5. /\ Backoff(f) = AtMost(DefaultInterval * m, MaxInterval)
      /\ Backoff(g) = AtMost(DefaultInterval * n, MaxInterval)
  BY DEF Backoff, m, n
<1> QED
  BY <1>3, <1>4, <1>5, IntervalAssumption DEF AtMost

\* Before bounds and floor the interval is already a number of time units.
LEMMA BaseType ==
  ASSUME NEW current \in Nat, NEW result \in PollResults, NEW f \in Nat
  PROVE  Base(current, result, f) \in Nat
<1>1. CASE result = "failed"
  BY <1>1, BackoffBounds DEF Base
<1>2. CASE result = "newItems"
  <2>1. (current * 3) \div 4 \in Nat
    OBVIOUS
  <2> QED
    BY <1>2, <2>1, IntervalAssumption DEF Base, AtLeast
<1>3. CASE result = "unchanged"
  <2>1. (current * 3) \div 2 \in Nat
    OBVIOUS
  <2> QED
    BY <1>3, <2>1, IntervalAssumption DEF Base, AtMost
<1> QED
  BY <1>1, <1>2, <1>3 DEF PollResults

\* next_interval stays between the floor and the publisher's ceiling, honours
\* the ttl it is given, and exceeds our own ceiling only for that ttl.
THEOREM NextIntervalBounds ==
  ASSUME NEW current \in Nat, NEW result \in PollResults,
         NEW f \in Nat, NEW ttl \in Nat
  PROVE  LET n == NextInterval(current, result, f, ttl)
         IN /\ n \in MinInterval..MaxPublisher
            /\ n >= AtMost(ttl, MaxPublisher)
            /\ n > MaxInterval => n = AtMost(ttl, MaxPublisher)
<1> DEFINE base == Base(current, result, f)
           ours == Clamp(base, MinInterval, MaxInterval)
<1>1. base \in Nat
  BY BaseType
<1>2. ours \in MinInterval..MaxInterval
  BY <1>1, IntervalAssumption DEF Clamp, AtMost, AtLeast
<1>3. NextInterval(current, result, f, ttl) = AtMost(AtLeast(ours, ttl), MaxPublisher)
  BY DEF NextInterval
<1> HIDE DEF ours
<1> QED
  BY <1>2, <1>3, IntervalAssumption DEF AtMost, AtLeast

\* After a failure the interval is at least the backoff for its count.
LEMMA FailureBacksOff ==
  ASSUME NEW current \in Nat, NEW f \in Nat
  PROVE  NextInterval(current, "failed", f, 0) >= Backoff(f)
<1>1. Backoff(f) \in 0..MaxInterval
  BY BackoffBounds
<1>2. Base(current, "failed", f) = Backoff(f)
  BY DEF Base
<1> QED
  BY <1>1, <1>2, IntervalAssumption DEF NextInterval, Clamp, AtMost, AtLeast
=============================================================================
