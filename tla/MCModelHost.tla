---------------------------- MODULE MCModelHost ----------------------------
(* The workers and requests of ModelHost's instance. *)
EXTENDS ModelHost

CONSTANTS enricher, embedder, r1, r2
=============================================================================
