-------------------------- MODULE MCWebsiteRemoval --------------------------
(***************************************************************************)
(* Three websites: the primary one shares a subscription with the second,  *)
(* the third, the only one that may be selected, is billed on its own.     *)
(***************************************************************************)
EXTENDS WebsiteRemoval

CONSTANTS Shared, Own

MCWebsites == 1..3
MCSubscriptions == {Shared, Own}
MCSubscriptionOf == [s \in MCWebsites |-> IF s = 3 THEN Own ELSE Shared]

MCInit == Init /\ website[1].isPrimary /\ anchor = Shared
MCSpec == MCInit /\ [][Next]_vars /\ Fairness

=============================================================================
