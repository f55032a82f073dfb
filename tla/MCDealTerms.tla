----------------------------- MODULE MCDealTerms -----------------------------
(***************************************************************************)
(* Two admins approve rates and allocations of two reps over three days.   *)
(***************************************************************************)
EXTENDS DealTerms, TLC

MCSymmetry == Permutations(Reps) \union Permutations(Admins)

=============================================================================
