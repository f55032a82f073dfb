------------------------ MODULE CommissionLifetime ------------------------
(***************************************************************************)
(* One credited deal through all of its months, each calculated once and   *)
(* locked before the next: the engine's month-by-month lines against what  *)
(* the deal is worth in total.                                             *)
(***************************************************************************)
EXTENDS CommissionEngine

CONSTANTS
    LastMonth,      \* bound: months of the instance
    Windows,        \* clawback windows an approved decision may set, in days
    FirstSale, Recurring

ASSUME LifetimeAssumption ==
    /\ LastMonth \in Nat \ {0}
    /\ FirstSale \in Nat /\ Recurring \in Nat
    /\ Windows \subseteq Nat

VARIABLES
    deal,       \* the provider facts of the deal; they do not change
    pastDueIn,  \* months at whose end the subscription is past due
    policy,
    month,      \* the next month to calculate
    paid,       \* earned and released so far, clawbacks deducted
    held        \* held and not released so far

vars == <<deal, pastDueIn, policy, month, paid, held>>

Months == 1..LastMonth
Days == 0..(PeriodEnd(LastMonth) - 1)

(* A subscription whose status is canceled is not past due. *)
Init ==
    /\ deal \in [startedAt : Days, canceledAt : Days \cup {NoDay},
                 departedAt : Days \cup {NoDay}]
    /\ pastDueIn \in SUBSET
         {m \in Months : deal.canceledAt = NoDay \/ m < MonthOf(deal.canceledAt)}
    /\ policy \in [windowDays : Windows, stopOnDeparture : BOOLEAN]
    /\ month = 1
    /\ paid = 0
    /\ held = 0

Facts == [kind |-> "subscription", startedAt |-> deal.startedAt,
          canceledAt |-> deal.canceledAt, departedAt |-> deal.departedAt,
          pastDue |-> month \in pastDueIn, firstSale |-> FirstSale,
          recurring |-> Recurring, adjustment |-> 0, heldToRelease |-> held]

Amount(ls, chosen(_)) == SumAmounts({l \in ls : chosen(l)})

CloseMonth ==
    /\ month <= LastMonth
    /\ LET ls == CalculateDealLines(Facts, policy, month)
           newlyHeld == Amount(ls, LAMBDA l : l.status = "held")
           released == Amount(ls, LAMBDA l : l.kind = "release")
       IN  /\ paid' = paid + EarnedOf(ls)
           /\ held' = held + newlyHeld - released
    /\ month' = month + 1
    /\ UNCHANGED <<deal, pastDueIn, policy>>

Next == CloseMonth

Spec == Init /\ [][Next]_vars

---------------------------------------------------------------------------
(* What the deal is worth through a month, in closed form. *)

SoldBy(through) ==
    /\ MonthOf(deal.startedAt) <= through
    /\ policy.stopOnDeparture /\ deal.departedAt # NoDay
         => deal.startedAt < deal.departedAt

LastResidualMonth(through) ==
    LET beforeCancel == IF deal.canceledAt = NoDay THEN through
                        ELSE MonthOf(deal.canceledAt) - 1
        whileEmployed == IF policy.stopOnDeparture /\ deal.departedAt # NoDay
                         THEN deal.departedAt \div DaysPerMonth ELSE through
    IN  Smaller(through, Smaller(beforeCancel, whileEmployed))

ResidualMonths(through) ==
    Larger(LastResidualMonth(through) - MonthOf(deal.startedAt), 0)

ClawedBackBy(through) ==
    /\ deal.canceledAt # NoDay
    /\ MonthOf(deal.canceledAt) <= through
    /\ policy.windowDays # 0
    /\ deal.startedAt <= deal.canceledAt
    /\ deal.canceledAt <= deal.startedAt + policy.windowDays

Worth(through) ==
    (IF SoldBy(through) THEN FirstSale ELSE 0)
      + Recurring * ResidualMonths(through)
      - (IF ClawedBackBy(through) THEN FirstSale ELSE 0)

(* Whatever the past-due months, holding and releasing moves commission in  *)
(* time and never changes it: paid plus still held is the deal's worth.     *)
PaidPlusHeldIsWorth == paid + held = Worth(month - 1)

(* Once a month closes with the subscription not past due nothing of the    *)
(* deal stays held, the cancellation month included.                        *)
NothingHeldWhenCurrent == month > 1 /\ month - 1 \notin pastDueIn => held = 0

(* What a deal has paid is never negative, but for one case: a first sale   *)
(* that its rep's departure kept from being posted is clawed back all the   *)
(* same, and costs the rep exactly that amount (the first-sale and clawback *)
(* branches of calculateDealCommissionLines).                               *)
OnlyUnpostedClawbackCosts ==
    IF ClawedBackBy(month - 1) /\ FirstSaleStopped(Facts, policy)
    THEN paid = -FirstSale
    ELSE paid >= 0
===========================================================================
