------------------------------ MODULE Schedule ------------------------------
(***************************************************************************)
(* Per-feed poll cadence: backend/src/feed/schedule.rs.                    *)
(*                                                                         *)
(* A feed that posted something is visited sooner, a quiet one drifts to   *)
(* the ceiling, a failing one backs off.  Everything here is a constant    *)
(* operator over whole time units; the code's unit is the second.          *)
(***************************************************************************)
EXTENDS Integers

CONSTANTS
  MinInterval,      \* MIN_INTERVAL_S
  DefaultInterval,  \* DEFAULT_INTERVAL_S
  MaxInterval,      \* MAX_INTERVAL_S, our own ceiling
  MaxPublisher      \* MAX_PUBLISHER_INTERVAL_S, ceiling on a publisher's ttl

\* The order of the four constants in schedule.rs (900, 1800, 21600, 604800).
ASSUME IntervalAssumption ==
  /\ MinInterval \in Nat \ {0}
  /\ DefaultInterval \in Nat
  /\ MaxInterval \in Nat
  /\ MaxPublisher \in Nat
  /\ MinInterval <= DefaultInterval
  /\ DefaultInterval <= MaxInterval
  /\ MaxInterval <= MaxPublisher

AtMost(a, b)  == IF a <= b THEN a ELSE b
AtLeast(a, b) == IF a >= b THEN a ELSE b
Clamp(n, low, high) == AtMost(AtLeast(n, low), high)

PollResults == {"newItems", "unchanged", "failed"}

\* What a left shift by 0..4 multiplies by.
PowerOfTwo == <<1, 2, 4, 8, 16>>

\* Mutant: the shift wraps around instead of saturating.
BackoffWrapping(failures) ==
  AtMost(DefaultInterval * PowerOfTwo[(failures % 5) + 1], MaxInterval)

\* The wait after the given number of failures in a row.
Backoff(failures) ==
  AtMost(DefaultInterval * PowerOfTwo[Clamp(failures, 1, 5)], MaxInterval)

\* Mutant: the two branches of a feed that answers, swapped.
BaseSwapped(current, result, failures) ==
  CASE result = "failed"    -> Backoff(failures)
    [] result = "unchanged" -> AtLeast((current * 3) \div 4, MinInterval)
    [] result = "newItems"  -> AtMost((current * 3) \div 2, MaxInterval)

\* The interval before bounds and floor: the match of next_interval.
Base(current, result, failures) ==
  CASE result = "failed"    -> Backoff(failures)
    [] result = "newItems"  -> AtLeast((current * 3) \div 4, MinInterval)
    [] result = "unchanged" -> AtMost((current * 3) \div 2, MaxInterval)

\* Mutant: no bounds of our own.
NextIntervalUnbounded(current, result, failures, ttl) ==
  AtMost(AtLeast((current * 3) \div 2, ttl), MaxPublisher)

\* next_interval: our own bounds first, then the publisher's floor, which may
\* exceed them.  A ttl of 0 stands for a feed that declares none.
NextInterval(current, result, failures, ttl) ==
  AtMost(AtLeast(Clamp(Base(current, result, failures), MinInterval, MaxInterval),
                 ttl),
         MaxPublisher)
=============================================================================
