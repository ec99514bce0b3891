--------------------------- MODULE MCParallelRead ---------------------------
(* ParallelRead on small sets, for TLC. *)
EXTENDS ParallelRead, TLC

CONSTANTS h1, d1, none
=============================================================================
