-------------------------- MODULE MCCreditLedger --------------------------
(* Model values and symmetry for the TLC runs of CreditLedger. *)
EXTENDS CreditLedger, TLC

Symmetry == Permutations(Requests) \cup Permutations(Keys)
=============================================================================
