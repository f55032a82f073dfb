---------------------- MODULE CommissionLifetimeProofs ----------------------
(***************************************************************************)
(* Theorems about CommissionLifetime: what one deal pays and holds over    *)
(* its life, for every length of a month, amount, window and set of facts. *)
(***************************************************************************)
EXTENDS CommissionLifetime, CommissionSums

-----------------------------------------------------------------------------
(* Days and months.                                                          *)

LEMMA Division ==
    ASSUME NEW d \in Nat
    PROVE  /\ d \div DaysPerMonth \in Nat
           /\ DaysPerMonth * (d \div DaysPerMonth) <= d
           /\ d < DaysPerMonth * (d \div DaysPerMonth) + DaysPerMonth
  BY DaysPerMonthAssumption, Z3

LEMMA MonthBounds ==
    ASSUME NEW d \in Nat, NEW m \in Nat
    PROVE  d < m * DaysPerMonth <=> d \div DaysPerMonth < m
  <1> DEFINE k == d \div DaysPerMonth
  <1>1. k \in Nat /\ DaysPerMonth * k <= d /\ d < DaysPerMonth * k + DaysPerMonth
    BY Division
  <1> HIDE DEF k
  <1>2. CASE k < m
    <2>1. k + 1 <= m
      BY <1>1, <1>2
    <2>2. (k + 1) * DaysPerMonth <= m * DaysPerMonth
      BY <1>1, <2>1, DaysPerMonthAssumption, Z3
    <2>3. (k + 1) * DaysPerMonth = DaysPerMonth * k + DaysPerMonth
      BY <1>1, DaysPerMonthAssumption, Z3
    <2>4. d < m * DaysPerMonth
      BY <1>1, <2>2, <2>3, DaysPerMonthAssumption, Z3
    <2> QED BY <1>2, <2>4 DEF k
  <1>3. CASE ~(k < m)
    <2>1. m <= k
      BY <1>1, <1>3
    <2>2. m * DaysPerMonth <= DaysPerMonth * k
      BY <1>1, <2>1, DaysPerMonthAssumption, Z3
    <2>3. ~(d < m * DaysPerMonth)
      BY <1>1, <2>2, DaysPerMonthAssumption, Z3
    <2> QED BY <1>3, <2>3 DEF k
  <1> QED BY <1>2, <1>3

LEMMA MonthOfBounds ==
    ASSUME NEW d \in Nat, NEW m \in Nat
    PROVE  /\ MonthOf(d) \in Nat \ {0}
           /\ d < PeriodEnd(m) <=> MonthOf(d) <= m
           /\ d < PeriodEnd(m) <=> d \div DaysPerMonth < m
  <1>1. d \div DaysPerMonth \in Nat
    BY Division
  <1>2. d < PeriodEnd(m) <=> d \div DaysPerMonth < m
    BY MonthBounds DEF PeriodEnd
  <1> DEFINE k == d \div DaysPerMonth
  <1> HIDE DEF k
  <1>3. k < m <=> k + 1 <= m
    BY <1>1 DEF k
  <1> QED BY <1>1, <1>2, <1>3 DEF MonthOf, k

LEMMA EarlierDayEarlierMonth ==
    ASSUME NEW d \in Nat, NEW e \in Nat, d <= e
    PROVE  MonthOf(d) <= MonthOf(e)
  <1> DEFINE m == MonthOf(e)
  <1>1. m \in Nat /\ (e < PeriodEnd(m) <=> m <= m)
    BY MonthOfBounds
  <1>2. PeriodEnd(m) \in Int
    BY <1>1, DaysPerMonthAssumption DEF PeriodEnd
  <1> HIDE DEF m
  <1>3. d < PeriodEnd(m)
    BY <1>1, <1>2
  <1> QED BY <1>1, <1>3, MonthOfBounds DEF m

LEMMA OneMoreMonth ==
    ASSUME NEW amount \in Nat, NEW n \in Nat
    PROVE  /\ amount * n \in Nat
           /\ amount * (n + 1) = amount * n + amount
  BY Z3

-----------------------------------------------------------------------------
(* The inductive invariant.                                                  *)

DealTyped ==
    /\ deal.startedAt \in Nat
    /\ deal.canceledAt \in Nat \cup {NoDay}
    /\ deal.departedAt \in Nat \cup {NoDay}
    /\ pastDueIn \in SUBSET
         {m \in Months : deal.canceledAt = NoDay \/ m < MonthOf(deal.canceledAt)}
    /\ policy.windowDays \in Nat
    /\ policy.stopOnDeparture \in BOOLEAN

LifetimeInv ==
    /\ DealTyped
    /\ month \in 1..(LastMonth + 1)
    /\ paid \in Int
    /\ held \in Nat
    /\ PaidPlusHeldIsWorth
    /\ NothingHeldWhenCurrent
    /\ held > 0 => MonthOf(deal.startedAt) <= month - 1
    /\ ~ClawedBackBy(month - 1) => paid >= 0

-----------------------------------------------------------------------------
(* What the deal is worth, one month at a time.                              *)

SoldIn(m) == FirstSaleBranch(Facts, policy, m).due
ResidualIn(m) == RecurringBranch(Facts, policy, m).due
ClawedBackIn(m) == ClawbackBranch(Facts, policy, m).due

LEMMA SoldStep ==
    ASSUME DealTyped, NEW m \in Nat \ {0}
    PROVE  /\ SoldBy(m) <=> SoldBy(m - 1) \/ SoldIn(m)
           /\ ~(SoldBy(m - 1) /\ SoldIn(m))
  <1> DEFINE s == MonthOf(deal.startedAt)
  <1>1. s \in Nat \ {0} /\ (deal.startedAt < PeriodEnd(m) <=> s <= m)
    BY MonthOfBounds DEF DealTyped
  <1>2. SoldIn(m) <=> /\ deal.startedAt < PeriodEnd(m)
                      /\ s = m
                      /\ ~(/\ policy.stopOnDeparture /\ deal.departedAt # NoDay
                           /\ deal.startedAt >= deal.departedAt)
    BY DEF SoldIn, FirstSaleBranch, Started, FirstSaleDue, FirstSaleStopped, Facts
  <1>3. deal.departedAt # NoDay =>
          (deal.startedAt < deal.departedAt <=> ~(deal.startedAt >= deal.departedAt))
    BY DEF DealTyped
  <1>4. \A k : SoldBy(k) <=> /\ s <= k
                             /\ policy.stopOnDeparture /\ deal.departedAt # NoDay
                                  => deal.startedAt < deal.departedAt
    BY DEF SoldBy
  <1> HIDE DEF s
  <1>5. s <= m <=> s <= m - 1 \/ s = m
    BY <1>1
  <1>6. ~(s <= m - 1 /\ s = m)
    BY <1>1
  <1> QED BY <1>1, <1>2, <1>3, <1>4, <1>5, <1>6

LEMMA ClawbackStep ==
    ASSUME DealTyped, NEW m \in Nat \ {0}
    PROVE  /\ ClawedBackBy(m) <=> ClawedBackBy(m - 1) \/ ClawedBackIn(m)
           /\ ~(ClawedBackBy(m - 1) /\ ClawedBackIn(m))
  <1> DEFINE c == MonthOf(deal.canceledAt)
             within == /\ policy.windowDays # 0
                       /\ deal.startedAt <= deal.canceledAt
                       /\ deal.canceledAt <= deal.startedAt + policy.windowDays
  <1>1. \A k : ClawedBackBy(k) <=> deal.canceledAt # NoDay /\ c <= k /\ within
    BY DEF ClawedBackBy
  <1>2. CASE deal.canceledAt = NoDay
    BY <1>1, <1>2 DEF ClawedBackIn, ClawbackBranch, ClawbackDue, Facts
  <1>3. CASE deal.canceledAt # NoDay
    <2>1. deal.canceledAt \in Nat /\ c \in Nat \ {0}
      BY <1>3, MonthOfBounds DEF DealTyped
    <2>2. ClawedBackIn(m) <=>
             /\ deal.startedAt < PeriodEnd(m)
             /\ c = m
             /\ policy.windowDays > 0
             /\ deal.canceledAt - deal.startedAt \in 0..policy.windowDays
      BY <1>3 DEF ClawedBackIn, ClawbackBranch, Started, ClawbackDue, Facts
    <2>3. (/\ policy.windowDays > 0
           /\ deal.canceledAt - deal.startedAt \in 0..policy.windowDays) <=> within
      BY <2>1 DEF DealTyped
    <2>4. within /\ c = m => deal.startedAt < PeriodEnd(m)
      <3> SUFFICES ASSUME within, c = m PROVE deal.startedAt < PeriodEnd(m)
        OBVIOUS
      <3>1. MonthOf(deal.startedAt) <= m
        BY <2>1, EarlierDayEarlierMonth DEF DealTyped
      <3> QED BY <3>1, MonthOfBounds DEF DealTyped
    <2> HIDE DEF c, within
    <2>5. c <= m <=> c <= m - 1 \/ c = m
      BY <2>1
    <2>6. ~(c <= m - 1 /\ c = m)
      BY <2>1
    <2> QED BY <1>1, <1>3, <2>2, <2>3, <2>4, <2>5, <2>6
  <1> QED BY <1>2, <1>3

LEMMA ResidualStep ==
    ASSUME DealTyped, NEW m \in Nat \ {0}
    PROVE  /\ ResidualMonths(m - 1) \in Nat
           /\ ResidualMonths(m) = ResidualMonths(m - 1) + (IF ResidualIn(m) THEN 1 ELSE 0)
  <1> DEFINE s == MonthOf(deal.startedAt)
             c == MonthOf(deal.canceledAt)
             e == deal.departedAt \div DaysPerMonth
             canceled == deal.canceledAt # NoDay
             departs == policy.stopOnDeparture /\ deal.departedAt # NoDay
  <1>1. s \in Nat \ {0} /\ (deal.startedAt < PeriodEnd(m) <=> s <= m)
    BY MonthOfBounds DEF DealTyped
  <1>2. canceled => c \in Nat \ {0}
    BY MonthOfBounds DEF DealTyped
  <1>3. departs => e \in Nat /\ (deal.departedAt < PeriodEnd(m) <=> e < m)
    <2> SUFFICES ASSUME departs
                 PROVE  e \in Nat /\ (deal.departedAt < PeriodEnd(m) <=> e < m)
      OBVIOUS
    <2>1. deal.departedAt \in Nat
      BY DEF DealTyped
    <2> QED BY <2>1, MonthOfBounds, Division
  <1>4. ResidualIn(m) <=> /\ deal.startedAt < PeriodEnd(m)
                          /\ s < m
                          /\ ~canceled \/ c > m
                          /\ ~(departs /\ deal.departedAt < PeriodEnd(m))
    BY DEF ResidualIn, RecurringBranch, Started, RecurringDue, ResidualStopped, Facts
  <1>5. \A k : LastResidualMonth(k) = Smaller(k, Smaller(IF canceled THEN c - 1 ELSE k,
                                                         IF departs THEN e ELSE k))
    BY DEF LastResidualMonth
  <1>6. \A k : ResidualMonths(k) = Larger(LastResidualMonth(k) - s, 0)
    BY DEF ResidualMonths
  <1> HIDE DEF s, c, e, canceled, departs
  <1>7. ResidualIn(m) <=> s < m /\ (canceled => c > m) /\ (departs => ~(e < m))
    BY <1>1, <1>3, <1>4
  <1> QED BY <1>1, <1>2, <1>3, <1>5, <1>6, <1>7 DEF Smaller, Larger

LEMMA WorthStep ==
    ASSUME DealTyped, NEW m \in Nat \ {0}
    PROVE  /\ Worth(m - 1) \in Int
           /\ Worth(m) = Worth(m - 1) + AmountWhen(SoldIn(m), FirstSale)
                           + AmountWhen(ResidualIn(m), Recurring)
                           + AmountWhen(ClawedBackIn(m), -FirstSale)
  <1> DEFINE n == ResidualMonths(m - 1)
             sold(k) == IF SoldBy(k) THEN FirstSale ELSE 0
             lost(k) == IF ClawedBackBy(k) THEN FirstSale ELSE 0
  <1>1. n \in Nat /\ ResidualMonths(m) = n + (IF ResidualIn(m) THEN 1 ELSE 0)
    BY ResidualStep
  <1>2. \A k : Worth(k) = sold(k) + Recurring * ResidualMonths(k) - lost(k)
    BY DEF Worth
  <1>3. sold(m) = sold(m - 1) + AmountWhen(SoldIn(m), FirstSale)
    BY SoldStep, LifetimeAssumption DEF AmountWhen
  <1>4. -lost(m) = -lost(m - 1) + AmountWhen(ClawedBackIn(m), -FirstSale)
    BY ClawbackStep, LifetimeAssumption DEF AmountWhen
  <1>5. /\ Recurring * n \in Int
        /\ Recurring * ResidualMonths(m) = Recurring * n + AmountWhen(ResidualIn(m), Recurring)
    <2>1. Recurring * n \in Nat /\ Recurring * (n + 1) = Recurring * n + Recurring
      BY <1>1, OneMoreMonth, LifetimeAssumption
    <2> HIDE DEF n
    <2>2. CASE ResidualIn(m)
      BY <1>1, <2>1, <2>2 DEF AmountWhen
    <2>3. CASE ~ResidualIn(m)
      BY <1>1, <2>1, <2>3 DEF AmountWhen
    <2> QED BY <2>2, <2>3
  <1>6. /\ sold(m) \in Int /\ sold(m - 1) \in Int
        /\ lost(m) \in Int /\ lost(m - 1) \in Int
        /\ AmountWhen(SoldIn(m), FirstSale) \in Int
        /\ AmountWhen(ClawedBackIn(m), -FirstSale) \in Int
        /\ AmountWhen(ResidualIn(m), Recurring) \in Int
    BY LifetimeAssumption DEF AmountWhen
  <1>7. /\ Worth(m) = sold(m) + Recurring * ResidualMonths(m) - lost(m)
        /\ Worth(m - 1) = sold(m - 1) + Recurring * n - lost(m - 1)
    BY <1>2
  <1> DEFINE r == Recurring * n
             q == Recurring * ResidualMonths(m)
  <1> HIDE DEF sold, lost, n, r, q
  <1>8. r \in Int /\ q = r + AmountWhen(ResidualIn(m), Recurring)
    BY <1>5 DEF r, q
  <1>9. Worth(m) = sold(m) + q - lost(m) /\ Worth(m - 1) = sold(m - 1) + r - lost(m - 1)
    BY <1>7 DEF r, q
  <1> QED BY <1>3, <1>4, <1>6, <1>8, <1>9

-----------------------------------------------------------------------------
(* One closed month.                                                         *)

PastDue == month \in pastDueIn
Fresh == AmountWhen(SoldIn(month), FirstSale) + AmountWhen(ResidualIn(month), Recurring)
Released == AmountWhen(Started(Facts, month) /\ held > 0 /\ ~PastDue, held)
Clawback == AmountWhen(ClawedBackIn(month), -FirstSale)

LEMMA MonthSums ==
    ASSUME LifetimeInv, CloseMonth
    PROVE  /\ Fresh \in Nat /\ Released \in Nat /\ Clawback \in Int
           /\ paid' = paid + AmountWhen(~PastDue, Fresh) + Released + Clawback
           /\ held' = held + AmountWhen(PastDue, Fresh) - Released
           /\ month' = month + 1
           /\ UNCHANGED <<deal, pastDueIn, policy>>
  <1>1. DealOK(Facts) /\ Facts.pastDue = PastDue /\ Facts.firstSale = FirstSale
          /\ Facts.recurring = Recurring /\ Facts.heldToRelease = held
          /\ Facts.adjustment = 0
    BY LifetimeAssumption DEF DealOK, Facts, LifetimeInv, DealTyped, PastDue
  <1>2. month \in Int
    BY LifetimeAssumption DEF LifetimeInv
  <1>3. Fresh \in Nat /\ Released \in Nat /\ Clawback \in Int
    BY LifetimeAssumption DEF Fresh, Released, Clawback, AmountWhen, LifetimeInv
  <1> DEFINE ls == CalculateDealLines(Facts, policy, month)
  <1>4. /\ EarnedOf(ls) = AmountWhen(~PastDue, Fresh)
                          + AmountWhen(ReleaseBranch(Facts, month).due, held)
                          + (Clawback + AmountWhen(Started(Facts, month), 0))
        /\ SumAmounts({l \in ls : l.status = "held"}) = AmountWhen(PastDue, Fresh)
        /\ SumAmounts({l \in ls : l.kind = "release"})
             = AmountWhen(ReleaseBranch(Facts, month).due, held)
    BY <1>1, <1>2, DealSums DEF Fresh, Clawback, SoldIn, ResidualIn, ClawedBackIn
  <1>5. AmountWhen(ReleaseBranch(Facts, month).due, held) = Released
    BY <1>1 DEF Released, ReleaseBranch, ReleaseDue
  <1>6. AmountWhen(Started(Facts, month), 0) = 0
    BY DEF AmountWhen
  <1>7. /\ paid' = paid + EarnedOf(ls)
        /\ held' = held + SumAmounts({l \in ls : l.status = "held"})
                     - SumAmounts({l \in ls : l.kind = "release"})
    BY DEF CloseMonth, Amount
  <1> HIDE DEF ls
  <1>8. AmountWhen(~PastDue, Fresh) \in Int /\ AmountWhen(PastDue, Fresh) \in Int
    BY <1>3 DEF AmountWhen
  <1>9. paid' = paid + AmountWhen(~PastDue, Fresh) + Released + Clawback
    BY <1>3, <1>4, <1>5, <1>6, <1>7, <1>8 DEF LifetimeInv
  <1>10. held' = held + AmountWhen(PastDue, Fresh) - Released
    BY <1>4, <1>5, <1>7
  <1> QED BY <1>3, <1>9, <1>10 DEF CloseMonth

(* Nothing is fresh in a month before the deal starts. *)
LEMMA FreshIsStarted ==
    ASSUME LifetimeInv, Fresh # 0
    PROVE  MonthOf(deal.startedAt) <= month
  <1>1. SoldIn(month) \/ ResidualIn(month)
    BY DEF Fresh, AmountWhen
  <1>2. Started(Facts, month)
    BY <1>1 DEF SoldIn, ResidualIn, FirstSaleBranch, RecurringBranch
  <1>3. deal.startedAt < PeriodEnd(month)
    BY <1>2 DEF Started, Facts
  <1>4. month \in Nat /\ deal.startedAt \in Nat
    BY LifetimeAssumption DEF LifetimeInv, DealTyped
  <1> QED BY <1>3, <1>4, MonthOfBounds

(* The amounts one month moves. *)
LEMMA MonthMoves ==
    ASSUME LifetimeInv, CloseMonth
    PROVE  /\ held' \in Nat
           /\ paid' \in Int
           /\ paid' + held' = paid + held + Fresh + Clawback
           /\ ~PastDue => held' = 0
           /\ held' > 0 => MonthOf(deal.startedAt) <= month
  <1>1. /\ Fresh \in Nat /\ Released \in Nat /\ Clawback \in Int
        /\ paid' = paid + AmountWhen(~PastDue, Fresh) + Released + Clawback
        /\ held' = held + AmountWhen(PastDue, Fresh) - Released
    BY MonthSums
  <1>2. held \in Nat /\ paid \in Int /\ month \in Nat /\ deal.startedAt \in Nat
    BY LifetimeAssumption DEF LifetimeInv, DealTyped
  <1>3. MonthOf(deal.startedAt) \in Nat
    BY <1>2, MonthOfBounds
  <1>4. held > 0 => MonthOf(deal.startedAt) <= month - 1
    BY DEF LifetimeInv
  <1>5. held > 0 => Started(Facts, month)
    <2>1. MonthOf(deal.startedAt) <= month => deal.startedAt < PeriodEnd(month)
      BY <1>2, MonthOfBounds
    <2> QED BY <1>2, <1>3, <1>4, <2>1 DEF Started, Facts
  <1>6. CASE PastDue
    <2>1. Released = 0 /\ AmountWhen(~PastDue, Fresh) = 0 /\ AmountWhen(PastDue, Fresh) = Fresh
      BY <1>6 DEF Released, AmountWhen
    <2>2. held' = held + Fresh /\ paid' = paid + Clawback
      BY <1>1, <1>2, <2>1
    <2>3. held' > 0 => MonthOf(deal.startedAt) <= month
      BY <1>1, <1>2, <1>3, <1>4, <2>2, FreshIsStarted
    <2>4. held' \in Nat /\ paid' \in Int /\ paid' + held' = paid + held + Fresh + Clawback
      BY <1>1, <1>2, <2>2
    <2>5. ~PastDue => held' = 0
      BY <1>6
    <2> QED BY <2>3, <2>4, <2>5
  <1>7. CASE ~PastDue
    <2>1. Released = held /\ AmountWhen(~PastDue, Fresh) = Fresh /\ AmountWhen(PastDue, Fresh) = 0
      BY <1>2, <1>5, <1>7 DEF Released, AmountWhen
    <2>2. held' = 0 /\ paid' = paid + Fresh + held + Clawback
      BY <1>1, <1>2, <2>1
    <2> QED BY <1>1, <1>2, <1>7, <2>2
  <1> QED BY <1>6, <1>7

(* Only a clawback lowers what is paid. *)
LEMMA PaidGrows ==
    ASSUME LifetimeInv, CloseMonth, ~ClawedBackIn(month)
    PROVE  paid' >= paid
  <1>1. Clawback = 0
    BY DEF Clawback, AmountWhen
  <1>2. Fresh \in Nat /\ Released \in Nat /\ paid \in Int
    BY MonthSums DEF LifetimeInv
  <1>3. AmountWhen(~PastDue, Fresh) \in Nat
    BY <1>2 DEF AmountWhen
  <1>4. paid' = paid + AmountWhen(~PastDue, Fresh) + Released + Clawback
    BY MonthSums
  <1> QED BY <1>1, <1>2, <1>3, <1>4

LEMMA InitLifetimeInv ==
    ASSUME Init PROVE LifetimeInv
  <1>1. DealTyped
    <2>1. Days \subseteq Nat
      BY LifetimeAssumption, DaysPerMonthAssumption DEF Days, PeriodEnd
    <2>2. /\ deal.startedAt \in Days
          /\ deal.canceledAt \in Days \cup {NoDay}
          /\ deal.departedAt \in Days \cup {NoDay}
      BY DEF Init
    <2>3. policy.windowDays \in Windows /\ policy.stopOnDeparture \in BOOLEAN
      BY DEF Init
    <2>4. pastDueIn \in SUBSET
            {m \in Months : deal.canceledAt = NoDay \/ m < MonthOf(deal.canceledAt)}
      BY DEF Init
    <2> QED BY <2>1, <2>2, <2>3, <2>4, LifetimeAssumption DEF DealTyped
  <1>2. month = 1 /\ paid = 0 /\ held = 0
    BY DEF Init
  <1>3. Worth(0) = 0
    <2>1. MonthOf(deal.startedAt) \in Nat \ {0}
      BY <1>1, MonthOfBounds DEF DealTyped
    <2>2. ~SoldBy(0)
      BY <2>1 DEF SoldBy
    <2>3. ~ClawedBackBy(0)
      <3>1. deal.canceledAt # NoDay => MonthOf(deal.canceledAt) \in Nat \ {0}
        BY <1>1, MonthOfBounds DEF DealTyped
      <3> QED BY <3>1 DEF ClawedBackBy
    <2>4. ResidualMonths(0) = 0
      <3>1. deal.canceledAt # NoDay => MonthOf(deal.canceledAt) \in Nat \ {0}
        BY <1>1, MonthOfBounds DEF DealTyped
      <3>2. deal.departedAt # NoDay => deal.departedAt \div DaysPerMonth \in Nat
        BY <1>1, Division DEF DealTyped
      <3>3. LastResidualMonth(0) \in Int /\ LastResidualMonth(0) <= 0
        BY <3>1, <3>2 DEF LastResidualMonth, Smaller
      <3> QED BY <2>1, <3>3 DEF ResidualMonths, Larger
    <2>5. Recurring * 0 = 0
      BY LifetimeAssumption
    <2> QED BY <2>2, <2>3, <2>4, <2>5 DEF Worth
  <1> QED BY <1>1, <1>2, <1>3, LifetimeAssumption
          DEF LifetimeInv, PaidPlusHeldIsWorth, NothingHeldWhenCurrent

LEMMA NextLifetimeInv ==
    ASSUME LifetimeInv, [Next]_vars PROVE LifetimeInv'
  <1>1. CASE UNCHANGED vars
    BY <1>1 DEF LifetimeInv, DealTyped, vars, Months, PaidPlusHeldIsWorth, Worth, SoldBy,
           ResidualMonths, LastResidualMonth, ClawedBackBy, NothingHeldWhenCurrent
  <1>2. CASE CloseMonth
    <2>1. /\ month' = month + 1 /\ month <= LastMonth
          /\ deal' = deal /\ pastDueIn' = pastDueIn /\ policy' = policy
      BY <1>2 DEF CloseMonth
    <2>2. month \in Nat \ {0} /\ month' - 1 = month /\ month' \in 1..(LastMonth + 1)
      BY <2>1, LifetimeAssumption DEF LifetimeInv
    <2>3. DealTyped /\ DealTyped'
      BY <2>1 DEF LifetimeInv, DealTyped, Months
    <2>4. \A k : Worth(k)' = Worth(k)
      BY <2>1 DEF Worth, SoldBy, ResidualMonths, LastResidualMonth, ClawedBackBy
    <2>5. PaidPlusHeldIsWorth'
      <3>1. paid' + held' = paid + held + Fresh + Clawback
        BY <1>2, MonthMoves
      <3>2. paid + held = Worth(month - 1)
        BY DEF LifetimeInv, PaidPlusHeldIsWorth
      <3>3. Worth(month - 1) \in Int
            /\ Worth(month) = Worth(month - 1) + AmountWhen(SoldIn(month), FirstSale)
                                + AmountWhen(ResidualIn(month), Recurring) + Clawback
        BY <2>2, <2>3, WorthStep DEF Clawback
      <3>4. /\ AmountWhen(SoldIn(month), FirstSale) \in Int
            /\ AmountWhen(ResidualIn(month), Recurring) \in Int
            /\ Clawback \in Int
        BY LifetimeAssumption DEF AmountWhen, Clawback
      <3>5. paid' + held' = Worth(month)
        BY <3>1, <3>2, <3>3, <3>4 DEF Fresh
      <3> QED BY <2>2, <2>4, <3>5 DEF PaidPlusHeldIsWorth
    <2>6. NothingHeldWhenCurrent'
      BY <1>2, <2>1, <2>2, MonthMoves DEF NothingHeldWhenCurrent, PastDue
    <2>7. (held > 0 => MonthOf(deal.startedAt) <= month - 1)'
      BY <1>2, <2>1, <2>2, MonthMoves
    <2>8. (~ClawedBackBy(month - 1) => paid >= 0)'
      <3>1. ClawedBackBy(month - 1)' <=> ClawedBackBy(month)
        BY <2>1, <2>2 DEF ClawedBackBy
      <3>2. ASSUME ~ClawedBackBy(month) PROVE paid' >= 0
        <4>1. ~ClawedBackBy(month - 1) /\ ~ClawedBackIn(month)
          BY <2>2, <2>3, <3>2, ClawbackStep
        <4>2. paid \in Int /\ paid >= 0 /\ paid' \in Int
          BY <1>2, <4>1, MonthMoves DEF LifetimeInv
        <4> QED BY <1>2, <4>1, <4>2, PaidGrows
      <3> QED BY <3>1, <3>2
    <2> QED BY <1>2, <2>2, <2>3, <2>5, <2>6, <2>7, <2>8, MonthMoves DEF LifetimeInv
  <1> QED BY <1>1, <1>2 DEF Next

LEMMA LifetimeInvAlways == Spec => []LifetimeInv
  BY InitLifetimeInv, NextLifetimeInv, PTL DEF Spec

-----------------------------------------------------------------------------
(* Theorems                                                                  *)

(* Whatever the past-due months, what a deal has paid and what it still      *)
(* holds add up to its worth, month after month (calculateDealCommission-    *)
(* Lines and the held amounts deriveHeldToRelease carries on).               *)
THEOREM MoneyIsConserved == Spec => []PaidPlusHeldIsWorth
  <1>1. LifetimeInv => PaidPlusHeldIsWorth
    BY DEF LifetimeInv
  <1> QED BY <1>1, LifetimeInvAlways, PTL

(* A month that closes while the subscription is not past due leaves nothing *)
(* of the deal held, the cancellation month included.                        *)
THEOREM CurrentHoldsNothing == Spec => []NothingHeldWhenCurrent
  <1>1. LifetimeInv => NothingHeldWhenCurrent
    BY DEF LifetimeInv
  <1> QED BY <1>1, LifetimeInvAlways, PTL

(* A rep who had departed when the deal started has no month with residuals. *)
LEMMA StoppedHasNoResiduals ==
    ASSUME DealTyped, FirstSaleStopped(Facts, policy), NEW k \in Nat
    PROVE  ResidualMonths(k) = 0
  <1> DEFINE s == MonthOf(deal.startedAt)
             e == deal.departedAt \div DaysPerMonth
             last == LastResidualMonth(k)
  <1>1. /\ policy.stopOnDeparture /\ deal.departedAt # NoDay
        /\ deal.startedAt \in Nat /\ deal.departedAt \in Nat
        /\ deal.departedAt <= deal.startedAt
    BY DEF FirstSaleStopped, Facts, DealTyped
  <1>2. e \in Nat /\ s \in Nat /\ e < s
    <2>1. MonthOf(deal.departedAt) <= MonthOf(deal.startedAt)
      BY <1>1, EarlierDayEarlierMonth
    <2> QED BY <1>1, <2>1, Division, MonthOfBounds DEF MonthOf
  <1>3. deal.canceledAt # NoDay => MonthOf(deal.canceledAt) \in Nat
    BY MonthOfBounds DEF DealTyped
  <1> HIDE DEF s, e
  <1>4. last \in Int /\ last <= e
    BY <1>1, <1>2, <1>3 DEF LastResidualMonth, Smaller, e
  <1> HIDE DEF last
  <1>5. ResidualMonths(k) = Larger(last - s, 0)
    BY DEF ResidualMonths, last, s
  <1> QED BY <1>2, <1>4, <1>5 DEF Larger

(* Once the first sale is clawed back the subscription is canceled and       *)
(* nothing is held.                                                          *)
LEMMA ClawedBackHoldsNothing ==
    ASSUME LifetimeInv, ClawedBackBy(month - 1)
    PROVE  held = 0 /\ paid = Worth(month - 1) /\ MonthOf(deal.startedAt) <= month - 1
  <1> DEFINE c == MonthOf(deal.canceledAt)
             s == MonthOf(deal.startedAt)
  <1>1. deal.canceledAt \in Nat /\ deal.startedAt \in Nat /\ c <= month - 1
          /\ deal.startedAt <= deal.canceledAt
    BY DEF ClawedBackBy, LifetimeInv, DealTyped
  <1>2. month \in Nat /\ c \in Nat \ {0} /\ s \in Nat \ {0} /\ s <= c
    BY <1>1, MonthOfBounds, EarlierDayEarlierMonth, LifetimeAssumption DEF LifetimeInv
  <1>3. month - 1 \notin pastDueIn
    <2>1. deal.canceledAt # NoDay
      BY DEF ClawedBackBy
    <2>2. \A m \in pastDueIn : m < c /\ m \in Nat
      BY <2>1, LifetimeAssumption DEF LifetimeInv, DealTyped, Months
    <2> HIDE DEF c
    <2> QED BY <1>1, <1>2, <2>2
  <1>4. s <= month - 1
    <2> HIDE DEF c, s
    <2> QED BY <1>1, <1>2
  <1>5. held = 0
    <2> HIDE DEF c, s
    <2> QED BY <1>1, <1>2, <1>3 DEF LifetimeInv, NothingHeldWhenCurrent
  <1> QED BY <1>4, <1>5 DEF LifetimeInv, PaidPlusHeldIsWorth

(* At every month's close a deal has cost its rep nothing, unless its first  *)
(* sale was never posted, the rep having departed, and is clawed back: then  *)
(* it has cost the first sale, no more (OnlyUnpostedClawbackCosts of         *)
(* calculateDealCommissionLines).                                            *)
THEOREM ClawbackCosts == Spec => []OnlyUnpostedClawbackCosts
  <1>1. LifetimeInv => OnlyUnpostedClawbackCosts
    <2> SUFFICES ASSUME LifetimeInv PROVE OnlyUnpostedClawbackCosts
      OBVIOUS
    <2> DEFINE stopped == FirstSaleStopped(Facts, policy)
    <2>0. DealTyped /\ month - 1 \in Nat /\ month \in Nat \ {0}
      BY LifetimeAssumption DEF LifetimeInv
    <2>1. CASE ~ClawedBackBy(month - 1)
      BY <2>1 DEF LifetimeInv, OnlyUnpostedClawbackCosts
    <2>2. CASE ClawedBackBy(month - 1)
      <3> DEFINE n == ResidualMonths(month - 1)
                 r == Recurring * n
                 sold == SoldBy(month - 1)
      <3>1. paid = Worth(month - 1) /\ MonthOf(deal.startedAt) <= month - 1
        BY <2>2, ClawedBackHoldsNothing
      <3>2. sold <=> ~stopped
        <4>1. deal.departedAt # NoDay =>
                (deal.startedAt < deal.departedAt <=> ~(deal.startedAt >= deal.departedAt))
          BY <2>0 DEF DealTyped
        <4> QED BY <3>1, <4>1 DEF SoldBy, FirstSaleStopped, Facts
      <3>3. paid = (IF sold THEN FirstSale ELSE 0) + r - FirstSale
        BY <2>2, <3>1 DEF Worth
      <3>4. n \in Nat /\ r \in Nat
        <4>1. n \in Nat
          BY <2>0, ResidualStep
        <4> HIDE DEF n
        <4> QED BY <4>1, OneMoreMonth, LifetimeAssumption
      <3>5. stopped => n = 0
        BY <2>0, StoppedHasNoResiduals
      <3>6. n = 0 => r = 0
        <4> HIDE DEF n
        <4> QED BY LifetimeAssumption
      <3>7. FirstSale \in Nat
        BY LifetimeAssumption
      <3>8. CASE stopped
        <4>1. r = 0 /\ ~sold
          BY <3>2, <3>5, <3>6, <3>8
        <4> HIDE DEF n, r, sold, stopped
        <4>2. paid = -FirstSale
          BY <3>3, <3>7, <4>1
        <4> QED BY <2>2, <3>8, <4>2 DEF OnlyUnpostedClawbackCosts, stopped
      <3>9. CASE ~stopped
        <4>1. sold
          BY <3>2, <3>9
        <4> HIDE DEF n, r, sold, stopped
        <4>2. paid >= 0
          BY <3>3, <3>4, <3>7, <4>1
        <4> QED BY <3>9, <4>2 DEF OnlyUnpostedClawbackCosts, stopped
      <3> QED BY <3>8, <3>9
    <2> QED BY <2>1, <2>2
  <1> QED BY <1>1, LifetimeInvAlways, PTL
=============================================================================
