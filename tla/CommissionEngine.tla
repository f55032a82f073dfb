------------------------- MODULE CommissionEngine -------------------------
(***************************************************************************)
(* The pure part of the commission calculation: which lines one credited   *)
(* deal contributes to one month, and how a rep's lines, base draw and     *)
(* opening draw balance become the month's summary.                        *)
(*                                                                         *)
(* Instants are day numbers and a month is DaysPerMonth consecutive days,  *)
(* so the comparisons of instants with period bounds and of ages with the  *)
(* clawback window keep their exact form.  Amounts are integers: the       *)
(* product amount * rate * share is the deal's firstSale or recurring      *)
(* field, already rounded.                                                 *)
(***************************************************************************)
EXTENDS Integers, FiniteSets, FiniteSetsExt

CONSTANT DaysPerMonth

ASSUME DaysPerMonthAssumption == DaysPerMonth \in Nat \ {0}

(* A date column that is null. *)
NoDay == -1

PeriodStart(month) == (month - 1) * DaysPerMonth
PeriodEnd(month) == month * DaysPerMonth
MonthOf(day) == (day \div DaysPerMonth) + 1

LineKinds == {"first_sale", "recurring", "clawback", "release", "adjustment"}
LineStatuses == {"earned", "held", "released"}

Larger(a, b) == IF a >= b THEN a ELSE b
Smaller(a, b) == IF a <= b THEN a ELSE b

(* What a line carries besides the deal and the rep it belongs to. *)
BaseLine(kind, status, amount) ==
    [kind |-> kind, status |-> status, amount |-> amount]

(* The line, when the condition of its branch holds and it is not zero. *)
LineWhen(condition, kind, status, amount) ==
    IF condition /\ amount # 0 THEN {BaseLine(kind, status, amount)} ELSE {}

ResidualStopped(deal, policy, month) ==
    /\ policy.stopOnDeparture
    /\ deal.departedAt # NoDay
    /\ deal.departedAt < PeriodEnd(month)

FirstSaleStopped(deal, policy) ==
    /\ policy.stopOnDeparture
    /\ deal.departedAt # NoDay
    /\ deal.startedAt >= deal.departedAt

FirstSaleDue(deal, policy, month) ==
    MonthOf(deal.startedAt) = month /\ ~FirstSaleStopped(deal, policy)

(* Variant for mutation: the cancellation month still posts a residual. *)
RecurringThroughCancellation(deal, policy, month) ==
    /\ deal.kind = "subscription"
    /\ MonthOf(deal.startedAt) < month
    /\ deal.canceledAt = NoDay \/ MonthOf(deal.canceledAt) >= month
    /\ ~ResidualStopped(deal, policy, month)

RecurringDue(deal, policy, month) ==
    /\ deal.kind = "subscription"
    /\ MonthOf(deal.startedAt) < month
    /\ deal.canceledAt = NoDay \/ MonthOf(deal.canceledAt) > month
    /\ ~ResidualStopped(deal, policy, month)

(* Variant for mutation: posts in the months after the cancellation too. *)
ClawbackFromCancellation(deal, policy, month) ==
    /\ deal.canceledAt # NoDay
    /\ MonthOf(deal.canceledAt) <= month
    /\ policy.windowDays > 0
    /\ deal.canceledAt - deal.startedAt \in 0..policy.windowDays

ClawbackDue(deal, policy, month) ==
    /\ deal.canceledAt # NoDay
    /\ MonthOf(deal.canceledAt) = month
    /\ policy.windowDays > 0
    /\ deal.canceledAt - deal.startedAt \in 0..policy.windowDays

(* Variant for mutation: a canceled subscription releases nothing. *)
ReleaseWhileRunning(deal) ==
    deal.heldToRelease > 0 /\ ~deal.pastDue /\ deal.canceledAt = NoDay

ReleaseDue(deal) == deal.heldToRelease > 0 /\ ~deal.pastDue

EarnedOrHeld(deal) == IF deal.pastDue THEN "held" ELSE "earned"

(* The lines one credited deal posts in one month; nothing before it starts. *)
CalculateDealLines(deal, policy, month) ==
    IF deal.startedAt >= PeriodEnd(month) THEN {}
    ELSE LineWhen(FirstSaleDue(deal, policy, month),
                  "first_sale", EarnedOrHeld(deal), deal.firstSale)
         \cup LineWhen(RecurringDue(deal, policy, month),
                       "recurring", EarnedOrHeld(deal), deal.recurring)
         \cup LineWhen(ClawbackDue(deal, policy, month),
                       "clawback", "earned", -deal.firstSale)
         \cup LineWhen(ReleaseDue(deal),
                       "release", "released", deal.heldToRelease)
         \cup LineWhen(TRUE, "adjustment", "earned", deal.adjustment)

SumAmounts(lines) == MapThenSumSet(LAMBDA line : line.amount, lines)

(* What the lines pay this month, the held ones left out. *)
EarnedOf(lines) == SumAmounts({line \in lines : line.status # "held"})

DrawRecovery(earned, draw, opening, recoverable) ==
    IF recoverable THEN Smaller(opening, Larger(earned - draw, 0)) ELSE 0

(* Variant for mutation: what is recovered stays owed. *)
ClosingUnrecovered(earned, draw, opening, recoverable) ==
    IF recoverable THEN opening + Larger(draw - earned, 0) ELSE 0

ClosingBalance(earned, draw, opening, recoverable) ==
    IF recoverable
    THEN opening + Larger(draw - earned, 0)
                 - DrawRecovery(earned, draw, opening, recoverable)
    ELSE 0

CashPayable(earned, draw, opening, recoverable) ==
    Larger(earned, draw) - DrawRecovery(earned, draw, opening, recoverable)

(* The rep's month: lines against the base draw and the balance it opens with. *)
SummarizeRepCommission(lines, draw, opening, recoverable) ==
    LET earned == EarnedOf(lines)
    IN  [earned  |-> earned,
         held    |-> SumAmounts({line \in lines : line.status = "held"}),
         draw    |-> draw,
         opening |-> opening,
         closing |-> ClosingBalance(earned, draw, opening, recoverable),
         cash    |-> CashPayable(earned, draw, opening, recoverable)]

===========================================================================
