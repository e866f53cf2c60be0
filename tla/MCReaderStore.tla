--------------------------- MODULE MCReaderStore ---------------------------
(* Values of ReaderStore's constants that a .cfg cannot write. *)
EXTENDS ReaderStore

CONSTANTS x, y, f, g

\* One item to a feed: narrowing to one leaves the other out.
OneEach == (x :> f) @@ (y :> g)
=============================================================================
