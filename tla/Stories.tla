------------------------------ MODULE Stories ------------------------------
(***************************************************************************)
(* What the reader is promised of the items, without vectors, passes and   *)
(* settings: each stands under a story, alone at first.  An item that is   *)
(* alone may be gathered into the story of another one; from then on it    *)
(* stays there, and so does the one that names the story.  The reader      *)
(* marks single items, or whole stories, and never a part of one.          *)
(***************************************************************************)
CONSTANTS
  Ids,    \* identities an item can have
  None    \* the shelf of an item there is not

VARIABLES
  shelf,  \* shelf[i]: the item that names the story of i
  read    \* the items that are read

storiesVars == <<shelf, read>>

StoriesTypeOK ==
  /\ shelf \in [Ids -> Ids \cup {None}]
  /\ read \in SUBSET Ids

Init ==
  /\ shelf = [i \in Ids |-> None]
  /\ read = {}

Told     == {s \in Ids : shelf[s] = s}
Alone(i) == shelf[i] = i /\ \A j \in Ids : shelf[j] = i => j = i

Arrive(i) ==
  /\ shelf[i] = None
  /\ shelf' = [shelf EXCEPT ![i] = i]
  /\ UNCHANGED read

Gather(i, s) ==
  /\ Alone(i)
  /\ s \in Told \ {i}
  /\ shelf' = [shelf EXCEPT ![i] = s]
  /\ UNCHANGED read

Mark(i) ==
  /\ shelf[i] # None
  /\ read' \in {read \cup {i}, read \ {i}}
  /\ UNCHANGED shelf

MarkStories ==
  /\ \E stories \in SUBSET Told :
       read' = read \cup {i \in Ids : shelf[i] \in stories}
  /\ UNCHANGED shelf

Next ==
  \/ \E i \in Ids : Arrive(i) \/ Mark(i)
  \/ \E i, s \in Ids : Gather(i, s)
  \/ MarkStories

Spec == Init /\ [][Next]_storiesVars
=============================================================================
