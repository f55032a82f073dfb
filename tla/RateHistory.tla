----------------------------- MODULE RateHistory -----------------------------
(***************************************************************************)
(* What approving the rates of a service promises, whatever is stored: a   *)
(* rate applies from its start until the next approved one starts, in      *)
(* whatever order the rates were approved, and approving one changes what  *)
(* is in force on no other date.                                           *)
(***************************************************************************)
EXTENDS Naturals

CONSTANT LastDay

VARIABLE inForce   \* on each day, the start of the rate in force; 0 if none

Days == 1..LastDay

Init == inForce = [d \in Days |-> 0]

Approve(x) ==
    inForce' = [d \in Days |-> IF inForce[d] < x /\ x <= d THEN x ELSE inForce[d]]

Next == \E x \in Days : Approve(x)

Spec == Init /\ [][Next]_inForce

=============================================================================
