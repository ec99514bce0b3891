------------------------- MODULE MCPublishPipeline -------------------------
(* PublishPipeline with two pages, for TLC. *)
EXTENDS PublishPipeline, TLC

CONSTANTS p1, p2

PageSymmetry == Permutations({p1, p2})
=============================================================================
