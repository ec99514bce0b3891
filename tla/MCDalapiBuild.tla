--------------------------- MODULE MCDalapiBuild ---------------------------
(* DalapiBuild on small sets, for TLC. *)
EXTENDS DalapiBuild, TLC

CONSTANTS h1, h2, d1, d2, none

Symmetry == Permutations({h1, h2}) \cup Permutations({d1, d2})
=============================================================================
