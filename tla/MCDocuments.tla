---------------------------- MODULE MCDocuments ----------------------------
(* Values of Documents' constants that a .cfg cannot write: a handful of   *)
(* entries, each with what another one lacks, and the documents of them.   *)
EXTENDS Documents

CONSTANTS
  home, article, relative, other, self, talk, chat, picture, bitmap,  \* hrefs
  g, h,                                                      \* ids
  headline, novel,                                            \* titles
  s1, s2                                                      \* beginnings

Hrefs == {home, article, relative, other, self, talk, chat, picture}
ToAbsolute == [u \in Hrefs |-> IF u = relative THEN other ELSE u]

Named == [site \in Hrefs |-> IF site = home THEN {bitmap} ELSE {}]

Alternate(href) == [rel |-> "alternate", href |-> href]
Replies(href) == [rel |-> "replies", href |-> href]

Whole(start)  == [prose |-> 5, furniture |-> 0, image |-> "none", handsOff |-> FALSE, start |-> start]
Teaser(start) == [prose |-> 3, furniture |-> 2, image |-> "lazy", handsOff |-> TRUE, start |-> start]
Stub          == [prose |-> 0, furniture |-> 3, image |-> "none", handsOff |-> FALSE, start |-> s1]

Plain == [id |-> None, links |-> <<>>, title |-> None, date |-> None,
          content |-> None, summary |-> None, comments |-> None]

\* Two posts on one article, each with a discussion, and an edit of the first.
First  == [Plain EXCEPT !.id = g, !.links = <<Alternate(article)>>, !.title = headline,
                        !.date = 2, !.content = Whole(s1), !.comments = talk]
Edited == [First EXCEPT !.title = novel, !.content = Teaser(s2)]
Second == [Plain EXCEPT !.id = h, !.links = <<Alternate(article)>>, !.title = headline,
                        !.date = 2, !.summary = Stub, !.comments = chat]

\* Posts without an id: one with a link only, one with a blank id, and two with
\* nothing but a body.
Linked  == [Plain EXCEPT !.links = <<Replies(talk), Alternate(relative)>>, !.date = 1]
Blanked == [Plain EXCEPT !.id = Blank, !.links = <<Alternate(other)>>, !.title = novel, !.date = 3]
Note    == [Plain EXCEPT !.date = 1, !.summary = Teaser(s1)]
Later   == [Plain EXCEPT !.date = 1, !.summary = Teaser(s2)]
Undated == [Plain EXCEPT !.content = Whole(s1)]

\* An id without a link and a title.
Bodied  == [Note EXCEPT !.id = h, !.comments = talk]

Sited(entries)  == [links |-> <<Alternate(self), Alternate(home)>>, icon |-> picture,
                    entries |-> entries]
Bare(entries)   == [links |-> <<Alternate(self)>>, icon |-> None, entries |-> entries]

SomePublications ==
  {Sited(<<First, Second>>), Bare(<<Second, Edited>>), Sited(<<Blanked, Linked>>),
   Bare(<<Later, Note>>), Bare(<<Note, Undated>>), Bare(<<Bodied, Later>>), Sited(<<>>)}
=============================================================================
