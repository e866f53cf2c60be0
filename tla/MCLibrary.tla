----------------------------- MODULE MCLibrary -----------------------------
(* Values of Library's constants that a .cfg cannot write. *)
EXTENDS Library, TLC

CONSTANTS f, g, x, y, z

\* x and y are of the feed f, the others of g.
OneEach  == [a \in Articles |-> IF a = x THEN f ELSE g]
TwoFeeds == [a \in Articles |-> IF a \in {x, y} THEN f ELSE g]

\* All are reports of one story: each may join any other's cluster.
Alike == Articles \X Articles
=============================================================================
