--------------------------- MODULE DealTermsProofs ---------------------------
(***************************************************************************)
(* What the approved terms of a deal guarantee for any number of days,     *)
(* reps, admins and recorded rows.                                         *)
(***************************************************************************)
EXTENDS DealTerms, FiniteSetTheorems, WellFoundedInduction, TLAPS

-----------------------------------------------------------------------------
(* The latest of some days.                                                  *)

Smaller == {p \in Nat \X Nat : p[1] < p[2]}

LEMMA SmallerIsWellFounded == IsWellFoundedOn(Smaller, Nat)
  BY NatLessThanWellFounded DEF OpToRel, Smaller

LEMMA LatestDay ==
    ASSUME NEW S \in SUBSET (0..Never), S # {}
    PROVE  Latest(S) \in S /\ \A y \in S : y <= Latest(S)
<1>0. LastDay \in Nat /\ Never \in Nat
  BY TermsAssumption DEF Never
<1> DEFINE T == {Never - x : x \in S}
<1>1. T \subseteq Nat /\ T # {}
  <2>1. \A x \in S : Never - x \in Nat
    BY <1>0
  <2>2. PICK x \in S : TRUE
    OBVIOUS
  <2>3. Never - x \in T
    OBVIOUS
  <2> QED
    BY <2>1, <2>3
<1>3. PICK t \in T : \A u \in T : ~(<<u, t>> \in Smaller)
  <2> HIDE DEF T
  <2> QED
    BY <1>1, SmallerIsWellFounded, WFMin
<1>4. \A u \in T : ~(u < t)
  BY <1>1, <1>3 DEF Smaller
<1>5. PICK x \in S : t = Never - x
  OBVIOUS
<1>6. \A y \in S : y <= x
  BY <1>0, <1>4, <1>5
<1> QED
  BY <1>6 DEF Latest


(* What is found is a day, or 0, and there is nothing later.                 *)
LEMMA LatestOrNone ==
    ASSUME NEW S \in SUBSET Days
    PROVE  /\ Latest(S) \in 0..LastDay
           /\ Latest(S) # 0 => Latest(S) \in S
           /\ \A y \in S : Latest(S) \in S /\ y <= Latest(S)
<1>0. LastDay \in Nat
  BY TermsAssumption
<1>1. CASE S = {}
  BY <1>0, <1>1 DEF Latest
<1>2. CASE S # {}
  <2>1. S \in SUBSET (0..Never)
    BY <1>0 DEF Days, Never
  <2>2. Latest(S) \in S /\ \A y \in S : y <= Latest(S)
    BY <1>2, <2>1, LatestDay
  <2>3. Latest(S) \in Days
    BY <2>2
  <2>4. Days \subseteq 0..LastDay /\ 0 \notin Days
    BY <1>0 DEF Days
  <2> QED
    BY <2>2, <2>3, <2>4
<1> QED
  BY <1>1, <1>2

(* A day with all the others before it is the latest.                        *)
LEMMA LatestIs ==
    ASSUME NEW S \in SUBSET Days, NEW x \in S, \A y \in S : y <= x
    PROVE  Latest(S) = x
<1> DEFINE l == Latest(S)
<1>1. l \in S /\ x <= l /\ l <= x
  BY LatestOrNone
<1>2. \A y \in S : y \in Int
  BY TermsAssumption DEF Days
<1> HIDE DEF l
<1>3. l = x
  BY <1>1, <1>2
<1> QED
  BY <1>3 DEF l

-----------------------------------------------------------------------------
(* The types.                                                                *)

LEMMA CurrentTyped ==
    ASSUME TypeOK, NEW x \in Days
    PROVE  CurrentRate(x) \in 0..LastDay /\ CurrentRate(x) < x
<1> DEFINE S == {y \in Days : IsApproved(y) /\ y < x /\ x < rates[y].effectiveTo}
<1>1. S \in SUBSET Days /\ \A y \in S : y < x
  OBVIOUS
<1>2. Latest(S) \in 0..LastDay /\ (Latest(S) # 0 => Latest(S) \in S)
  <2> HIDE DEF S
  <2> QED
    BY <1>1, LatestOrNone
<1>3. Latest(S) < x
  BY <1>1, <1>2, TermsAssumption DEF Days
<1> QED
  BY <1>2, <1>3 DEF CurrentRate

LEMMA RecordedIsMore ==
    ASSUME TypeOK
    PROVE  Recorded \in Nat /\ allocated <= Recorded
<1> DEFINE R == {x \in Days : rates[x].status # "no row"}
<1>1. IsFiniteSet(Days)
  BY FS_Interval, TermsAssumption DEF Days
<1>2. IsFiniteSet(R)
  BY <1>1, FS_Subset
<1>3. Cardinality(R) \in Nat
  BY <1>2, FS_CardinalityType
<1>4. allocated \in Nat
  BY TermsAssumption DEF TypeOK
<1>5. Recorded = allocated + Cardinality(R)
  BY DEF Recorded
<1> HIDE DEF R
<1> QED
  BY <1>3, <1>4, <1>5

LEMMA IdleTyped == Idle \in Transaction
  BY TermsAssumption DEF Idle, Transaction

LEMMA TypesKept == TypeOK /\ [Next]_vars => TypeOK'
<1> SUFFICES ASSUME TypeOK, [Next]_vars PROVE TypeOK'
  OBVIOUS
<1>0. LastDay \in Nat /\ MaxRows \in Nat
  BY TermsAssumption
<1>1. ASSUME NEW a \in Admins, NEW x \in Days, NEW status \in {"draft", "approved"},
             ReadRate(a, x, status)
      PROVE  TypeOK'
  <2>1. CurrentRate(x) \in 0..LastDay
    BY CurrentTyped
  <2>2. x \in 0..LastDay /\ 0 \in 0..LastDay /\ 0 \in 0..MaxRows
    BY <1>0 DEF Days
  <2>3. [Idle EXCEPT !.pc = "rate", !.effectiveFrom = x, !.status = status,
                     !.current = IF status = "approved" THEN CurrentRate(x) ELSE 0]
          \in Transaction
    BY <2>1, <2>2 DEF Idle, Transaction
  <2> QED
    BY <1>1, <2>3 DEF ReadRate, TypeOK
<1>2. ASSUME NEW a \in Admins, NEW x \in Days, NEW reps \in (SUBSET Reps) \ {{}},
             MatchAllocations(a, x, reps)
      PROVE  TypeOK'
  <2>1. {g \in 1..allocated : StillOpen(g, x)} \in SUBSET Numbers
    BY <1>0 DEF TypeOK, Numbers
  <2>2. x \in 0..LastDay /\ 0 \in 0..LastDay /\ allocated \in 0..MaxRows
    BY <1>0 DEF TypeOK, Days
  <2>3. [Idle EXCEPT !.pc = "credits", !.effectiveFrom = x, !.reps = reps,
                     !.seen = allocated,
                     !.matched = {g \in 1..allocated : StillOpen(g, x)}]
          \in Transaction
    BY <2>1, <2>2 DEF Idle, Transaction
  <2> QED
    BY <1>2, <2>3 DEF MatchAllocations, TypeOK
<1>3. ASSUME NEW a \in Admins, CreateRate(a) PROVE TypeOK'
  <2>1. tx' \in [Admins -> Transaction]
    BY <1>3, IdleTyped DEF CreateRate, TypeOK
  <2>2. rates' \in [Days -> Rate]
    <3>1. tx[a].effectiveFrom \in 0..Never /\ Never \in 0..Never
      BY <1>0 DEF TypeOK, Transaction, Never
    <3>2. tx[a].status \in {"draft", "approved"}
      BY DEF TypeOK, Transaction
    <3>3. [status |-> tx[a].status, effectiveTo |-> Never] \in Rate
      BY <3>1, <3>2 DEF Rate
    <3>4. \A y \in Days : /\ rates[y] \in Rate
                          /\ [rates[y] EXCEPT !.effectiveTo = tx[a].effectiveFrom] \in Rate
      BY <3>1 DEF TypeOK, Rate
    <3> QED
      BY <1>3, <3>3, <3>4 DEF CreateRate
  <2> QED
    BY <1>3, <2>1, <2>2 DEF CreateRate, TypeOK
<1>4. ASSUME NEW a \in Admins, CreateAllocation(a) PROVE TypeOK'
  <2>1. tx' \in [Admins -> Transaction]
    BY <1>4, IdleTyped DEF CreateAllocation, TypeOK
  <2>2. allocated' \in 0..MaxRows
    BY <1>0, <1>4, RecordedIsMore DEF CreateAllocation, TypeOK
  <2>3. allocation' \in [Numbers -> Allocation]
    <3>1. tx[a].effectiveFrom \in 0..Never /\ Never \in 0..Never
      BY <1>0 DEF TypeOK, Transaction, Never
    <3> QED
      BY <1>4, <3>1
         DEF CreateAllocation, NewAllocation, TypeOK, Transaction, Allocation, Closed
  <2> QED
    BY <1>4, <2>1, <2>2, <2>3 DEF CreateAllocation, TypeOK
<1>5. ASSUME NEW a \in Admins, RollBack(a) PROVE TypeOK'
  BY <1>5, IdleTyped DEF RollBack, TypeOK
<1>6. CASE UNCHANGED vars
  BY <1>6 DEF vars, TypeOK
<1> QED
  BY <1>1, <1>2, <1>3, <1>4, <1>5, <1>6 DEF Next

LEMMA InitTyped == Init => TypeOK
<1>1. NoRate \in Rate /\ NoAllocation \in Allocation
  BY TermsAssumption DEF Rate, NoRate, Allocation, NoAllocation, Never
<1>2. 0 \in 0..MaxRows
  BY TermsAssumption
<1> QED
  BY <1>1, <1>2, IdleTyped DEF Init, TypeOK

(* Rates, allocations and open transactions keep their types (TypeOK).       *)
THEOREM TermsTyped == Spec => []TypeOK
  BY InitTyped, TypesKept, PTL DEF Spec

-----------------------------------------------------------------------------
(* The rates.  An approved rate ends when a later approved one starts, and   *)
(* an open request will only end a rate at the start of a later one.         *)

Handed ==
    \A y \in Days :
        IsApproved(y) =>
            \/ rates[y].effectiveTo = Never
            \/ /\ rates[y].effectiveTo \in Days
               /\ y < rates[y].effectiveTo
               /\ IsApproved(rates[y].effectiveTo)

Reads ==
    \A a \in Admins :
        /\ tx[a].pc # "idle" => tx[a].effectiveFrom \in Days
        /\ tx[a].pc = "rate" =>
              /\ tx[a].current < tx[a].effectiveFrom
              /\ tx[a].status # "approved" => tx[a].current = 0

Coverage == TypeOK /\ Handed /\ Reads

LEMMA CoverageInit == Init => Coverage
<1> SUFFICES ASSUME Init PROVE Coverage
  OBVIOUS
<1>1. TypeOK
  BY InitTyped
<1> QED
  BY <1>1 DEF Init, Coverage, Handed, Reads, IsApproved, NoRate, Idle

LEMMA CoverageStep == Coverage /\ [Next]_vars => Coverage'
<1> SUFFICES ASSUME Coverage, [Next]_vars PROVE Coverage'
  OBVIOUS
<1>0. TypeOK /\ TypeOK' /\ Handed /\ Reads /\ LastDay \in Nat
  BY TypesKept, TermsAssumption DEF Coverage
<1>1. ASSUME NEW a \in Admins, NEW x \in Days, NEW status \in {"draft", "approved"},
             ReadRate(a, x, status)
      PROVE  Handed' /\ Reads'
  <2>1. CurrentRate(x) < x /\ 0 < x
    BY <1>0, CurrentTyped DEF Days
  <2>2. rates' = rates /\ tx' = [tx EXCEPT ![a] = tx'[a]]
    BY <1>0, <1>1 DEF ReadRate, TypeOK
  <2>3. /\ tx'[a].effectiveFrom = x
        /\ tx'[a].status = status
        /\ tx'[a].current = IF status = "approved" THEN CurrentRate(x) ELSE 0
    BY <1>0, <1>1 DEF ReadRate, TypeOK, Idle
  <2>4. Reads'
    BY <1>0, <2>1, <2>2, <2>3 DEF Reads, TypeOK
  <2> QED
    BY <1>0, <2>2, <2>4 DEF Handed, IsApproved
<1>2. ASSUME NEW a \in Admins, NEW x \in Days, NEW reps \in (SUBSET Reps) \ {{}},
             MatchAllocations(a, x, reps)
      PROVE  Handed' /\ Reads'
  BY <1>0, <1>2 DEF MatchAllocations, Handed, Reads, IsApproved, TypeOK, Idle
<1>3. ASSUME NEW a \in Admins, CreateRate(a) PROVE Handed' /\ Reads'
  <2> DEFINE x == tx[a].effectiveFrom
  <2>1. /\ x \in Days /\ tx[a].current < x /\ ~IsApproved(x)
        /\ tx[a].status # "approved" => tx[a].current = 0
    BY <1>0, <1>3 DEF CreateRate, Reads, IsApproved
  <2>2. rates' = [y \in Days |->
                    IF y = x
                    THEN [status |-> tx[a].status, effectiveTo |-> Never]
                    ELSE IF y = tx[a].current
                         THEN [rates[y] EXCEPT !.effectiveTo = x]
                         ELSE rates[y]]
    BY <1>3 DEF CreateRate
  <2> HIDE DEF x
  <2>3. \A y \in Days : y # x => rates'[y].status = rates[y].status
    BY <1>0, <2>2 DEF TypeOK, Rate
  <2>4. \A y \in Days : IsApproved(y) => y # x /\ IsApproved(y)'
    BY <2>1, <2>3 DEF IsApproved
  <2>5. rates'[x].status = tx[a].status /\ rates'[x].effectiveTo = Never
    BY <2>1, <2>2
  <2>6. Handed'
    <3> SUFFICES ASSUME NEW y \in Days, IsApproved(y)', rates'[y].effectiveTo # Never
                 PROVE  /\ rates'[y].effectiveTo \in Days
                        /\ y < rates'[y].effectiveTo
                        /\ rates'[rates'[y].effectiveTo].status = "approved"
      BY DEF Handed, IsApproved
    <3>1. y # x /\ IsApproved(y)
      BY <2>3, <2>5 DEF IsApproved
    <3>2. CASE y = tx[a].current
      <4>1. tx[a].status = "approved"
        BY <2>1, <3>2 DEF Days
      <4>2. rates'[y].effectiveTo = x
        <5>1. rates'[y] = [rates[y] EXCEPT !.effectiveTo = x]
          BY <2>2, <3>1, <3>2
        <5>2. rates[y] \in Rate
          BY <1>0 DEF TypeOK
        <5> QED
          BY <5>1, <5>2 DEF Rate
      <4> QED
        BY <2>1, <2>5, <3>2, <4>1, <4>2
    <3>3. CASE y # tx[a].current
      <4>1. rates'[y] = rates[y]
        BY <2>2, <3>1, <3>3
      <4> QED
        BY <1>0, <2>4, <3>1, <4>1 DEF Handed, IsApproved
    <3> QED
      BY <3>2, <3>3
  <2>7. Reads'
    BY <1>0, <1>3 DEF CreateRate, Reads, TypeOK, Idle
  <2> QED
    BY <2>6, <2>7
<1>4. ASSUME NEW a \in Admins, CreateAllocation(a) PROVE Handed' /\ Reads'
  BY <1>0, <1>4 DEF CreateAllocation, Handed, Reads, IsApproved, TypeOK, Idle
<1>5. ASSUME NEW a \in Admins, RollBack(a) PROVE Handed' /\ Reads'
  BY <1>0, <1>5 DEF RollBack, Handed, Reads, IsApproved, TypeOK, Idle
<1>6. ASSUME UNCHANGED vars PROVE Handed' /\ Reads'
  <2>1. rates' = rates /\ tx' = tx
    BY <1>6 DEF vars
  <2>2. Handed'
    BY <1>0, <2>1 DEF Handed, IsApproved
  <2>3. Reads'
    BY <1>0, <2>1 DEF Reads
  <2> QED
    BY <2>2, <2>3
<1> QED
  BY <1>0, <1>1, <1>2, <1>3, <1>4, <1>5, <1>6 DEF Next, Coverage

-----------------------------------------------------------------------------
(* The refinement.                                                           *)

Started(r, d) == {x \in Days : r[x].status = "approved" /\ x <= d}

Applying(r, d) ==
    {x \in Days : r[x].status = "approved" /\ x <= d /\ d < r[x].effectiveTo}

HandedIn(r) ==
    \A y \in Days :
        r[y].status = "approved" =>
            \/ r[y].effectiveTo = Never
            \/ /\ r[y].effectiveTo \in Days
               /\ y < r[y].effectiveTo
               /\ r[r[y].effectiveTo].status = "approved"

(* Ends never hide the latest approved start from a calculation.             *)
LEMMA LatestStartApplies ==
    ASSUME NEW r \in [Days -> Rate], HandedIn(r), NEW d \in Days
    PROVE  Latest(Applying(r, d)) = Latest(Started(r, d))
<1> DEFINE A == Applying(r, d)
           S == Started(r, d)
           l == Latest(S)
<1>0. LastDay \in Nat
  BY TermsAssumption
<1>1. A \subseteq S /\ S \in SUBSET Days /\ A \in SUBSET Days
  BY DEF Started, Applying
<1>2. CASE S = {}
  BY <1>1, <1>2
<1>3. CASE S # {}
  <2>1. l \in S /\ \A y \in S : y <= l
    <3> HIDE DEF S
    <3> QED
      BY <1>1, <1>3, LatestOrNone
  <2>2. l \in Days /\ r[l].status = "approved" /\ l <= d
    BY <2>1 DEF Started
  <2> HIDE DEF l
  <2>3. d < r[l].effectiveTo
    <3>1. CASE r[l].effectiveTo = Never
      BY <1>0, <3>1 DEF Days, Never
    <3>2. CASE /\ r[l].effectiveTo \in Days
               /\ l < r[l].effectiveTo
               /\ r[r[l].effectiveTo].status = "approved"
      <4> DEFINE e == r[l].effectiveTo
      <4>1. e <= d => e \in S
        BY <3>2 DEF Started
      <4>2. e <= d => e <= l
        BY <2>1, <4>1
      <4>3. e \in Int /\ l \in Int /\ d \in Int
        BY <1>0, <2>2, <3>2 DEF Days
      <4> QED
        BY <3>2, <4>2, <4>3
    <3> QED
      BY <2>2, <3>1, <3>2 DEF HandedIn
  <2>4. l \in A
    BY <2>2, <2>3 DEF Applying
  <2> HIDE DEF A, S
  <2>5. Latest(A) = l
    BY <1>1, <2>1, <2>4, LatestIs
  <2> QED
    BY <2>5 DEF l, A, S
<1> QED
  BY <1>2, <1>3

LEMMA FirstRateOfHistory == Init => History!Init
<1> SUFFICES ASSUME Init PROVE History!Init
  OBVIOUS
<1>1. ASSUME NEW d \in Days PROVE ApprovedRate(d) = 0
  <2>1. {x \in Days : IsApproved(x) /\ x <= d /\ d < rates[x].effectiveTo} = {}
    BY DEF Init, NoRate, IsApproved
  <2> QED
    BY <2>1 DEF ApprovedRate, Latest
<1> QED
  BY <1>1 DEF History!Init, History!Days, Days, InForce

(* Approving a rate is a step of the history.                                *)
LEMMA ApprovalIsHistory ==
    ASSUME NEW x \in Days,
           NEW r \in [Days -> Rate], HandedIn(r), r[x].status # "approved",
           NEW s \in [Days -> Rate], HandedIn(s), s[x].status = "approved",
           \A y \in Days : y # x => (s[y].status = "approved" <=> r[y].status = "approved"),
           NEW d \in Days
    PROVE  Latest(Applying(s, d)) =
             IF Latest(Applying(r, d)) < x /\ x <= d THEN x ELSE Latest(Applying(r, d))
<1> DEFINE l == Latest(Started(r, d))
           R == Started(r, d)
           S == Started(s, d)
<1>1. Latest(Applying(r, d)) = l /\ Latest(Applying(s, d)) = Latest(S)
  BY LatestStartApplies
<1>2. R \in SUBSET Days /\ S \in SUBSET Days
  BY DEF Started
<1>3. /\ l \in 0..LastDay
      /\ l # 0 => l \in R
      /\ \A y \in R : l \in R /\ y <= l
  <2> HIDE DEF R
  <2>1. l = Latest(R)
    BY DEF R
  <2> HIDE DEF l
  <2> QED
    BY <1>2, <2>1, LatestOrNone
<1>4. d \in Int /\ l \in Int /\ \A y \in Days : y \in Int /\ y > 0
  BY <1>3, TermsAssumption DEF Days
<1>5. \A y : y \in S <=> (y = x /\ x <= d) \/ y \in R
  BY DEF Started
<1>6. \A y \in R : y <= d
  BY DEF Started
<1> HIDE DEF l, R, S
<1>7. CASE l < x /\ x <= d
  <2>1. x \in S /\ \A y \in S : y <= x
    <3>1. \A y \in R : y <= x
      BY <1>2, <1>3, <1>4, <1>7
    <3> QED
      BY <1>4, <1>5, <1>7, <3>1
  <2>2. Latest(S) = x
    BY <1>2, <2>1, LatestIs
  <2> QED
    BY <1>1, <1>7, <2>2
<1>8. CASE ~(l < x /\ x <= d) /\ l # 0
  <2>1. l \in S /\ \A y \in S : y <= l
    BY <1>3, <1>4, <1>5, <1>8
  <2>2. Latest(S) = l
    BY <1>2, <2>1, LatestIs
  <2> QED
    BY <1>1, <1>8, <2>2
<1>9. CASE ~(l < x /\ x <= d) /\ l = 0
  <2>1. S = {}
    <3>1. R = {}
      BY <1>2, <1>3, <1>4, <1>9
    <3> QED
      BY <1>4, <1>5, <1>9, <3>1
  <2>2. Latest(S) = 0
    BY <2>1 DEF Latest
  <2> QED
    BY <1>1, <1>9, <2>2
<1> QED
  BY <1>7, <1>8, <1>9

(* Anything else leaves what is in force alone.                              *)
LEMMA OthersAreStutter ==
    ASSUME NEW r \in [Days -> Rate], HandedIn(r),
           NEW s \in [Days -> Rate], HandedIn(s),
           \A y \in Days : s[y].status = "approved" <=> r[y].status = "approved",
           NEW d \in Days
    PROVE  Latest(Applying(s, d)) = Latest(Applying(r, d))
<1>1. Started(s, d) = Started(r, d)
  BY DEF Started
<1> QED
  BY <1>1, LatestStartApplies

LEMMA ApprovedRateIs ==
    /\ \A d \in Days : ApprovedRate(d) = Latest(Applying(rates, d))
    /\ \A d \in Days : ApprovedRate(d)' = Latest(Applying(rates', d))
    /\ InForce = [d \in Days |-> ApprovedRate(d)]
    /\ InForce' = [d \in Days |-> ApprovedRate(d)']
  BY DEF ApprovedRate, Applying, IsApproved, InForce

LEMMA HistoryStep == Coverage /\ Coverage' /\ [Next]_vars => [History!Next]_InForce
<1> SUFFICES ASSUME Coverage, Coverage', [Next]_vars PROVE [History!Next]_InForce
  OBVIOUS
<1>1. /\ rates \in [Days -> Rate] /\ HandedIn(rates)
      /\ rates' \in [Days -> Rate] /\ HandedIn(rates')
  BY DEF Coverage, TypeOK, Handed, HandedIn, IsApproved
<1>2. Reads
  BY DEF Coverage
<1>3. ASSUME NEW a \in Admins, CreateRate(a), tx[a].status = "approved"
      PROVE  [History!Next]_InForce
  <2> DEFINE x == tx[a].effectiveFrom
  <2>1. x \in Days
    BY <1>2, <1>3 DEF CreateRate, Reads
  <2>2. /\ rates[x].status # "approved"
        /\ rates'[x].status = "approved"
        /\ \A y \in Days : y # x => rates'[y].status = rates[y].status
    BY <1>1, <1>3, <2>1 DEF CreateRate, Rate
  <2> HIDE DEF x
  <2>3. \A d \in Days : Latest(Applying(rates', d)) =
            IF Latest(Applying(rates, d)) < x /\ x <= d
            THEN x ELSE Latest(Applying(rates, d))
    BY <1>1, <2>1, <2>2, ApprovalIsHistory
  <2>4. \A d \in Days : ApprovedRate(d)' =
            IF ApprovedRate(d) < x /\ x <= d THEN x ELSE ApprovedRate(d)
    BY <2>3, ApprovedRateIs
  <2>5. History!Approve(x)
    BY <2>4, ApprovedRateIs DEF History!Approve, History!Days, Days
  <2> QED
    BY <2>1, <2>5 DEF History!Next, History!Days, Days
<1>4. ASSUME \A y \in Days : rates'[y].status = "approved" <=> rates[y].status = "approved"
      PROVE  [History!Next]_InForce
  <2>1. \A d \in Days : ApprovedRate(d)' = ApprovedRate(d)
    BY <1>1, <1>4, OthersAreStutter, ApprovedRateIs
  <2>2. InForce' = InForce
    BY <2>1, ApprovedRateIs
  <2> QED
    BY <2>2
<1>5. ASSUME NEW a \in Admins, CreateRate(a), tx[a].status # "approved"
      PROVE  [History!Next]_InForce
  <2>1. \A y \in Days : rates'[y].status = "approved" <=> rates[y].status = "approved"
    BY <1>1, <1>5 DEF CreateRate, Rate
  <2> QED
    BY <1>4, <2>1
<1>6. ASSUME rates' = rates PROVE [History!Next]_InForce
  BY <1>4, <1>6
<1>7. (\E a \in Admins : CreateRate(a)) \/ rates' = rates
  BY DEF Next, vars, ReadRate, MatchAllocations, CreateAllocation, RollBack
<1> QED
  BY <1>3, <1>5, <1>6, <1>7

(* However admins overlap and whatever dates they approve, the rate that     *)
(* approvedRate finds is the one a plain history of approvals promises: the  *)
(* detailed rows implement RateHistory (RatesFollowHistory).                 *)
THEOREM RatesAreAHistory == Spec => RatesFollowHistory
<1>1. Init => Coverage /\ History!Init
  BY CoverageInit, FirstRateOfHistory
<1>2. Coverage /\ [Next]_vars => Coverage'
  BY CoverageStep
<1>3. Coverage /\ Coverage' /\ [Next]_vars => [History!Next]_InForce
  BY HistoryStep
<1> QED
  BY <1>1, <1>2, <1>3, PTL DEF Spec, RatesFollowHistory, History!Spec

-----------------------------------------------------------------------------
(* The allocations.                                                          *)

(* An allocation is over when one that saw it starts.                        *)
SeenAreOver ==
    \A g, h \in 1..allocated :
        /\ allocation[h].seen < h
        /\ g <= allocation[h].seen => allocation[g].effectiveTo <= allocation[h].effectiveFrom

(* An allocation ends when a newer one starts.                               *)
EndsAtAStart ==
    \A g \in 1..allocated :
        \/ allocation[g].effectiveTo = Never
        \/ \E h \in (g + 1)..allocated :
              allocation[g].effectiveTo = allocation[h].effectiveFrom

(* What an open request saw and did not match was already over.              *)
Matching ==
    \A a \in Admins :
        tx[a].pc = "credits" =>
            /\ tx[a].seen <= allocated
            /\ \A g \in 1..tx[a].seen :
                  g \in tx[a].matched \/ allocation[g].effectiveTo <= tx[a].effectiveFrom

Succession == TypeOK /\ SeenAreOver /\ EndsAtAStart /\ Matching

LEMMA SuccessionInit == Init => Succession
<1> SUFFICES ASSUME Init PROVE Succession
  OBVIOUS
<1>1. allocated = 0 /\ 1..allocated = {} /\ \A a \in Admins : tx[a].pc = "idle"
  BY DEF Init, Idle
<1> QED
  BY <1>1, InitTyped DEF Succession, SeenAreOver, EndsAtAStart, Matching

LEMMA SuccessionStep == Succession /\ [Next]_vars => Succession'
<1> SUFFICES ASSUME Succession, [Next]_vars PROVE Succession'
  OBVIOUS
<1>0. /\ TypeOK /\ SeenAreOver /\ EndsAtAStart /\ Matching /\ TypeOK'
      /\ LastDay \in Nat /\ MaxRows \in Nat /\ allocated \in Nat
  BY TypesKept, TermsAssumption DEF Succession, TypeOK
<1>1. ASSUME UNCHANGED <<allocation, allocated>> PROVE SeenAreOver' /\ EndsAtAStart'
  BY <1>0, <1>1 DEF SeenAreOver, EndsAtAStart
<1>2. ASSUME NEW a \in Admins, NEW x \in Days, NEW status \in {"draft", "approved"},
             ReadRate(a, x, status)
      PROVE  Succession'
  <2>1. Matching'
    BY <1>0, <1>2 DEF ReadRate, Matching, TypeOK, Idle
  <2> QED
    BY <1>0, <1>1, <1>2, <2>1 DEF ReadRate, Succession
<1>3. ASSUME NEW a \in Admins, NEW x \in Days, NEW reps \in (SUBSET Reps) \ {{}},
             MatchAllocations(a, x, reps)
      PROVE  Succession'
  <2>1. /\ tx'[a].seen = allocated /\ tx'[a].effectiveFrom = x
        /\ tx'[a].matched = {g \in 1..allocated : StillOpen(g, x)}
        /\ \A b \in Admins : b # a => tx'[b] = tx[b]
        /\ UNCHANGED <<allocation, allocated>>
    BY <1>0, <1>3 DEF MatchAllocations, TypeOK, Idle
  <2>2. \A g \in 1..allocated : allocation[g].effectiveTo \in Int /\ x \in Int
    BY <1>0 DEF TypeOK, Numbers, Allocation, Days, Never
  <2>3. Matching'
    BY <1>0, <2>1, <2>2 DEF Matching, StillOpen
  <2> QED
    BY <1>0, <1>1, <2>1, <2>3 DEF Succession
<1>4. ASSUME NEW a \in Admins, CreateRate(a) PROVE Succession'
  <2>1. Matching'
    BY <1>0, <1>4 DEF CreateRate, Matching, TypeOK, Idle
  <2> QED
    BY <1>0, <1>1, <1>4, <2>1 DEF CreateRate, Succession
<1>5. ASSUME NEW a \in Admins, RollBack(a) PROVE Succession'
  <2>1. Matching'
    BY <1>0, <1>5 DEF RollBack, Matching, TypeOK, Idle
  <2> QED
    BY <1>0, <1>1, <1>5, <2>1 DEF RollBack, Succession
<1>6. ASSUME NEW a \in Admins, CreateAllocation(a) PROVE Succession'
  <2> DEFINE n == allocated + 1
             x == tx[a].effectiveFrom
  <2>1. /\ allocated' = n /\ n \in Numbers /\ n \in 1..n
        /\ \A g \in 1..n : g \in Numbers /\ (g = n \/ g \in 1..allocated)
    BY <1>0, <1>6 DEF CreateAllocation, TypeOK, Numbers
  <2>2. /\ allocation'[n].effectiveFrom = x
        /\ allocation'[n].effectiveTo = Never
        /\ allocation'[n].seen = tx[a].seen
    BY <1>6, <2>1 DEF CreateAllocation, NewAllocation
  <2>3. /\ tx[a].seen <= allocated /\ tx[a].seen \in Nat
        /\ \A g \in 1..tx[a].seen :
              g \in tx[a].matched \/ allocation[g].effectiveTo <= x
    BY <1>0, <1>6 DEF CreateAllocation, Matching, TypeOK, Transaction
  <2>4. x \in Int
    BY <1>0 DEF TypeOK, Transaction
  <2>5. \A g \in 1..allocated :
          /\ allocation[g].effectiveTo \in Int /\ allocation[g].effectiveFrom \in Int
          /\ allocation[g].seen \in Nat
          /\ allocation'[g].effectiveFrom = allocation[g].effectiveFrom
          /\ allocation'[g].seen = allocation[g].seen
          /\ \/ /\ allocation'[g].effectiveTo = allocation[g].effectiveTo
                /\ g \in tx[a].matched => allocation[g].effectiveTo <= x
             \/ x < allocation[g].effectiveTo /\ allocation'[g].effectiveTo = x
    <3> SUFFICES ASSUME NEW g \in 1..allocated
                 PROVE  /\ allocation[g].effectiveTo \in Int
                        /\ allocation[g].effectiveFrom \in Int
                        /\ allocation[g].seen \in Nat
                        /\ allocation'[g].effectiveFrom = allocation[g].effectiveFrom
                        /\ allocation'[g].seen = allocation[g].seen
                        /\ \/ /\ allocation'[g].effectiveTo = allocation[g].effectiveTo
                              /\ g \in tx[a].matched => allocation[g].effectiveTo <= x
                           \/ /\ x < allocation[g].effectiveTo
                              /\ allocation'[g].effectiveTo = x
      OBVIOUS
    <3>1. g \in Numbers /\ g # n
      BY <1>0 DEF TypeOK, Numbers
    <3>2. allocation[g] \in Allocation
      BY <1>0, <3>1 DEF TypeOK
    <3>3. allocation'[g] = Closed(a, g)
      BY <1>6, <3>1 DEF CreateAllocation
    <3> QED
      BY <1>0, <2>4, <3>2, <3>3 DEF Closed, StillOpen, Allocation, Never
  <2> HIDE DEF n, x
  <2>6. \A g \in 1..allocated : allocation'[g].effectiveTo <= allocation[g].effectiveTo
    BY <2>4, <2>5
  <2>7. n = allocated + 1 /\ n \notin 1..allocated
    BY <1>0 DEF n
  <2>8. SeenAreOver'
    <3>0. \A h \in 1..n : allocation'[h].seen < h
      BY <1>0, <2>1, <2>2, <2>3, <2>5, <2>7 DEF SeenAreOver
    <3> SUFFICES ASSUME NEW g \in 1..n, NEW h \in 1..n, g <= allocation'[h].seen
                 PROVE  allocation'[g].effectiveTo <= allocation'[h].effectiveFrom
      BY <2>1, <3>0 DEF SeenAreOver
    <3>1. CASE h \in 1..allocated
      <4>1. CASE g \in 1..allocated
        <5>1. allocation[g].effectiveTo <= allocation[h].effectiveFrom
          BY <1>0, <2>5, <3>1, <4>1 DEF SeenAreOver
        <5> QED
          BY <2>4, <2>5, <3>1, <4>1, <5>1
      <4>2. CASE g = n
        <5>1. allocation[h].seen < h
          BY <1>0, <3>1 DEF SeenAreOver
        <5> QED
          BY <1>0, <2>5, <2>7, <3>1, <4>2, <5>1
      <4> QED
        BY <2>1, <4>1, <4>2
    <3>2. CASE h = n
      <4>1. g <= tx[a].seen /\ g \in 1..allocated
        BY <1>0, <2>2, <2>3, <3>2
      <4>2. g \in tx[a].matched \/ allocation[g].effectiveTo <= x
        BY <2>3, <4>1
      <4> QED
        BY <2>2, <2>4, <2>5, <3>2, <4>1, <4>2
    <3> QED
      BY <2>1, <3>1, <3>2
  <2>9. EndsAtAStart'
    <3> SUFFICES ASSUME NEW g \in 1..n, allocation'[g].effectiveTo # Never
                 PROVE  \E h \in (g + 1)..n :
                            allocation'[g].effectiveTo = allocation'[h].effectiveFrom
      BY <2>1 DEF EndsAtAStart
    <3>1. g \in 1..allocated
      BY <2>1, <2>2
    <3>2. CASE allocation'[g].effectiveTo = x
      <4>1. n \in (g + 1)..n
        BY <1>0, <2>7, <3>1
      <4> QED
        BY <2>2, <3>2, <4>1
    <3>3. CASE allocation'[g].effectiveTo = allocation[g].effectiveTo
      <4>1. PICK h \in (g + 1)..allocated :
                   allocation[g].effectiveTo = allocation[h].effectiveFrom
        BY <1>0, <3>1, <3>3 DEF EndsAtAStart
      <4>2. h \in 1..allocated /\ h \in (g + 1)..n
        BY <1>0, <2>7, <3>1, <4>1
      <4> QED
        BY <2>5, <3>3, <4>1, <4>2
    <3> QED
      BY <2>5, <3>1, <3>2, <3>3
  <2>10. Matching'
    <3> SUFFICES ASSUME NEW b \in Admins, tx'[b].pc = "credits"
                 PROVE  /\ tx'[b].seen <= n
                        /\ \A g \in 1..tx'[b].seen :
                              \/ g \in tx'[b].matched
                              \/ allocation'[g].effectiveTo <= tx'[b].effectiveFrom
      BY <2>1 DEF Matching
    <3>1. tx'[b] = tx[b]
      BY <1>0, <1>6 DEF CreateAllocation, TypeOK, Idle
    <3>2. /\ tx[b].seen <= allocated /\ tx[b].seen \in Nat /\ tx[b].effectiveFrom \in Int
          /\ \A g \in 1..tx[b].seen :
                g \in tx[b].matched \/ allocation[g].effectiveTo <= tx[b].effectiveFrom
      BY <1>0, <3>1 DEF Matching, TypeOK, Transaction
    <3>3. \A g \in 1..tx[b].seen : g \in 1..allocated
      BY <1>0, <3>2
    <3> QED
      BY <1>0, <2>4, <2>5, <2>7, <3>1, <3>2, <3>3
  <2> QED
    BY <1>0, <2>8, <2>9, <2>10 DEF Succession
<1>7. ASSUME UNCHANGED vars PROVE Succession'
  <2>1. tx' = tx /\ UNCHANGED <<allocation, allocated>>
    BY <1>7 DEF vars
  <2> QED
    BY <1>0, <1>1, <2>1 DEF Succession, Matching
<1> QED
  BY <1>2, <1>3, <1>4, <1>5, <1>6, <1>7 DEF Next

LEMMA MonthDays ==
    ASSUME NEW m \in Months
    PROVE  PeriodStart(m) \in Int /\ PeriodEnd(m) \in Int /\ PeriodStart(m) <= PeriodEnd(m)
<1>1. m \in Nat /\ DaysPerMonth \in Nat
  BY TermsAssumption DEF Months
<1>2. (m - 1) * DaysPerMonth \in Int /\ m * DaysPerMonth \in Int
  BY <1>1
<1>3. m * DaysPerMonth = (m - 1) * DaysPerMonth + DaysPerMonth
  BY <1>1, Z3
<1> DEFINE before == (m - 1) * DaysPerMonth
           through == m * DaysPerMonth
<1> HIDE DEF before, through
<1>4. before \in Int /\ through \in Int /\ through = before + DaysPerMonth
  BY <1>2, <1>3 DEF before, through
<1>5. PeriodStart(m) = before + 1 /\ PeriodEnd(m) = through + 1
  BY DEF PeriodStart, PeriodEnd, before, through
<1> QED
  BY <1>1, <1>4, <1>5

(* A commission run reads two allocations for its month, and is blocked by   *)
(* their credit, only if neither request saw the other's rows or the later   *)
(* one starts in that month (OnlyBlindAllocationsOverlap of                  *)
(* createCommandDealCredits and calculateAndPersistCommissionRun).           *)
THEOREM CreditOverlapsOnlyBlind == Spec => []OnlyBlindAllocationsOverlap
<1>1. Succession => OnlyBlindAllocationsOverlap
  <2> SUFFICES ASSUME Succession, NEW g \in 1..allocated, NEW h \in 1..allocated,
                      NEW m \in Months, g <= allocation[h].seen,
                      ReadFor(g, m), ReadFor(h, m)
               PROVE  StartsIn(h, m)
    BY DEF OnlyBlindAllocationsOverlap
  <2>1. allocation[g].effectiveTo <= allocation[h].effectiveFrom
    BY DEF Succession, SeenAreOver
  <2>2. allocation[g].effectiveTo \in Int /\ allocation[h].effectiveFrom \in Int
    BY TermsAssumption DEF Succession, TypeOK, Numbers, Allocation, Days, Never
  <2> QED
    BY <2>1, <2>2, MonthDays DEF ReadFor, StartsIn
<1> QED
  BY <1>1, SuccessionInit, SuccessionStep, PTL DEF Spec

(* Backdated and overlapping allocations never leave a month without the     *)
(* newest allocation that started by its end (NewestAllocationApplies of     *)
(* createCommandDealCredits).                                                *)
THEOREM NewestCreditApplies == Spec => []NewestAllocationApplies
<1>1. Succession => NewestAllocationApplies
  <2> SUFFICES ASSUME Succession, NEW g \in 1..allocated, NEW m \in Months,
                      allocation[g].effectiveFrom < PeriodEnd(m),
                      \A h \in (g + 1)..allocated :
                          PeriodEnd(m) <= allocation[h].effectiveFrom
               PROVE  ReadFor(g, m)
    BY DEF NewestAllocationApplies
  <2>1. CASE allocation[g].effectiveTo = Never
    <3>1. PeriodStart(m) <= Never
      BY MonthDays, TermsAssumption DEF Months, Never
    <3> QED
      BY <2>1, <3>1 DEF ReadFor
  <2>2. CASE \E h \in (g + 1)..allocated :
                allocation[g].effectiveTo = allocation[h].effectiveFrom
    <3>1. PICK h \in (g + 1)..allocated :
                 allocation[g].effectiveTo = allocation[h].effectiveFrom
      BY <2>2
    <3>2. PeriodEnd(m) <= allocation[h].effectiveFrom
      BY <3>1
    <3>3. allocation[h].effectiveFrom \in Int
      BY <3>1, TermsAssumption DEF Succession, TypeOK, Numbers, Allocation, Days
    <3> QED
      BY <3>1, <3>2, <3>3, MonthDays DEF ReadFor
  <2> QED
    BY <2>1, <2>2 DEF Succession, EndsAtAStart
<1> QED
  BY <1>1, SuccessionInit, SuccessionStep, PTL DEF Spec

=============================================================================
