------------------------- MODULE MCPublishPipeline -------------------------
(* Model values and symmetry for the TLC runs of PublishPipeline. *)
EXTENDS PublishPipeline, TLC

Symmetry == Permutations(Jobs) \cup Permutations(Workers) \cup Permutations(Requests)
              \cup Permutations(Accounts)
=============================================================================
