--------------------------- MODULE MCStripeWebhooks ---------------------------
(* The lengths of the sequences and model values for the TLC run of StripeWebhooks. *)
EXTENDS StripeWebhooks

MCSteps == [s \in Series |-> IF s = Growth THEN 2 ELSE 1]
Symmetry == Permutations(Polls) \cup Permutations(Deliveries)
=============================================================================
