--------------------------- MODULE FeedLifecycle ---------------------------
(***************************************************************************)
(* What rosso promises about a subscription, without schedules, snapshots  *)
(* or requests in flight: a feed is polled until it is deleted, until the  *)
(* reader pauses it, or until its server has refused it MaxRefusals times  *)
(* in a row.  Only the reader brings a paused or retired feed back, and    *)
(* then with a clean slate.                                                *)
(***************************************************************************)
EXTENDS Integers

CONSTANTS
  Ids,         \* identities a subscription can have
  MaxRefusals  \* refusals in a row that retire a feed

VARIABLES
  status,      \* what the feed is, for the reader
  strikes      \* refusals in a row, while it is active

lifecycleVars == <<status, strikes>>

Statuses == {"absent", "active", "paused", "retired"}

LifecycleTypeOK ==
  /\ status \in [Ids -> Statuses]
  /\ strikes \in [Ids -> 0..(MaxRefusals - 1)]

\* The feeds a database starts with, after an import on an earlier boot.
Init ==
  /\ status \in [Ids -> {"absent", "active"}]
  /\ strikes = [i \in Ids |-> 0]

Become(i, s, n) ==
  /\ status' = [status EXCEPT ![i] = s]
  /\ strikes' = [strikes EXCEPT ![i] = n]

Subscribe(i)   == status[i] = "absent" /\ Become(i, "active", 0)
Unsubscribe(i) == status[i] # "absent" /\ Become(i, "absent", 0)
Pause(i)       == status[i] = "active" /\ Become(i, "paused", 0)
Resume(i)      == status[i] \in {"active", "paused", "retired"} /\ Become(i, "active", 0)

\* An answer that is no refusal forgives the ones before it.
Forgive(i) == status[i] = "active" /\ Become(i, "active", 0)

Strike(i) ==
  /\ status[i] = "active"
  /\ strikes[i] + 1 < MaxRefusals
  /\ Become(i, "active", strikes[i] + 1)

Retire(i) ==
  /\ status[i] = "active"
  /\ strikes[i] + 1 = MaxRefusals
  /\ Become(i, "retired", 0)

Next == \E i \in Ids :
  \/ Subscribe(i) \/ Unsubscribe(i)
  \/ Pause(i) \/ Resume(i)
  \/ Forgive(i) \/ Strike(i) \/ Retire(i)

Spec == Init /\ [][Next]_lifecycleVars
=============================================================================
