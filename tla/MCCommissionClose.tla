------------------------- MODULE MCCommissionClose -------------------------
(* Three months of one subscription, closed in order. *)
EXTENDS CommissionClose, TLC

MCSource == [d \in Deals |-> "stripe_subscription"]
MCFirstSale == [d \in Deals |-> 5]
MCRecurring == [d \in Deals |-> 2]
MCBaseDraw == [r \in Reps |-> 3]
MCPolicies == {[windowDays |-> 1, stopOnDeparture |-> TRUE, recoverable |-> TRUE]}
MCSymmetry == Permutations(Reps)
=============================================================================
