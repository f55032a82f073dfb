------------------------- MODULE MCCommissionRuns -------------------------
(* Racing requests on the months of one deal, of the kind the run chooses. *)
EXTENDS CommissionRuns

MCStripe == [d \in Deals |-> "stripe_subscription"]
MCGhl == [d \in Deals |-> "ghl_subscription"]
MCLegacy == [d \in Deals |-> "legacy_sale"]
MCFirstSale == [d \in Deals |-> 5]
MCRecurring == [d \in Deals |-> 2]
MCBaseDraw == [r \in Reps |-> 3]
MCPolicies == {[windowDays |-> 1, stopOnDeparture |-> TRUE, recoverable |-> TRUE]}
Symmetric == Permutations(Requests)
===========================================================================
