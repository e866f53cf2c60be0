--------------------------- MODULE MCItemPipeline ---------------------------
(* Small instances of ItemPipeline: every item is of one feed and one host. *)
EXTENDS ItemPipeline, TLC

CONSTANTS x, y, f, h, house, browser, blank, rust, r

OneFeed == [i \in Items |-> f]
OneHost == [i \in Items |-> h]
=============================================================================
