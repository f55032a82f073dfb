------------------------------ MODULE DealTerms ------------------------------
(***************************************************************************)
(* The approved terms a deal's commission is calculated with: the rates of *)
(* its service (controllers/command-services.controller.ts) and the shares *)
(* of its reps (controllers/command-credits.controller.ts).  Both are rows *)
(* with a start and an end; approving new ones closes older ones in a      *)
(* read-committed transaction, and several admins may do so at once, with  *)
(* dates in any order.                                                     *)
(***************************************************************************)
EXTENDS Naturals, FiniteSets

CONSTANTS
    LastDay,         \* effective dates are days 1..LastDay
    DaysPerMonth,
    Reps,
    Admins,          \* requests in flight
    MaxRows          \* bound: rates and credit allocations recorded

ASSUME TermsAssumption ==
    LastDay \in Nat /\ DaysPerMonth \in Nat \ {0} /\ MaxRows \in Nat

VARIABLES
    rates,        \* the service's rate version that starts on each day
    allocation,   \* the deal's credit allocations, numbered as committed
    allocated,    \* how many there are
    tx            \* the open transaction of each request

vars == <<rates, allocation, allocated, tx>>

Days == 1..LastDay
Never == LastDay + 1     \* the end of a row that is still open
Numbers == 1..MaxRows

PeriodStart(m) == (m - 1) * DaysPerMonth + 1
PeriodEnd(m) == m * DaysPerMonth + 1
Months == {m \in 1..LastDay : PeriodStart(m) <= LastDay}

-----------------------------------------------------------------------------
Rate == [status: {"no row", "draft", "approved"}, effectiveTo: 0..Never]
NoRate == [status |-> "no row", effectiveTo |-> 0]

(* An allocation's rows are written together: one per rep, with the same     *)
(* dates and shares that add up to 1.  seen: the allocations that were       *)
(* there when its transaction looked for the ones to close.                  *)
Allocation == [reps: SUBSET Reps, effectiveFrom: 0..LastDay, effectiveTo: 0..Never,
               seen: 0..MaxRows]
NoAllocation == [reps |-> {}, effectiveFrom |-> 0, effectiveTo |-> 0, seen |-> 0]

Idle == [pc |-> "idle", effectiveFrom |-> 0, status |-> "draft", current |-> 0,
         reps |-> {}, matched |-> {}, seen |-> 0]

Transaction ==
    [pc: {"idle", "rate", "credits"}, effectiveFrom: 0..LastDay,
     status: {"draft", "approved"}, current: 0..LastDay,
     reps: SUBSET Reps, matched: SUBSET Numbers, seen: 0..MaxRows]

TypeOK ==
    /\ rates \in [Days -> Rate]
    /\ allocation \in [Numbers -> Allocation]
    /\ allocated \in 0..MaxRows
    /\ tx \in [Admins -> Transaction]

Init ==
    /\ rates = [x \in Days |-> NoRate]
    /\ allocation = [g \in Numbers |-> NoAllocation]
    /\ allocated = 0
    /\ tx = [a \in Admins |-> Idle]

-----------------------------------------------------------------------------
(* The latest of some days, 0 of none.                                       *)
Latest(S) == IF S = {} THEN 0 ELSE CHOOSE x \in S : \A y \in S : y <= x

IsApproved(x) == rates[x].status = "approved"

(* The rate a calculation uses for a deal that starts on a day.              *)
ApprovedRate(d) ==
    Latest({x \in Days : IsApproved(x) /\ x <= d /\ d < rates[x].effectiveTo})

(* Mutant of CurrentRate: the open rate is closed, wherever it starts.       *)
CurrentRateAnywhere(x) ==
    Latest({y \in Days : IsApproved(y) /\ x < rates[y].effectiveTo})

(* Mutant of CurrentRate: the end of the open rate instead of its start.     *)
EndOfCurrentRate(x) ==
    Latest({rates[y].effectiveTo : y \in {z \in Days : /\ IsApproved(z) /\ z < x
                                                      /\ x < rates[z].effectiveTo}})

(* The rate that a new one, starting on a day, takes over from.              *)
CurrentRate(x) ==
    Latest({y \in Days : IsApproved(y) /\ y < x /\ x < rates[y].effectiveTo})

(* Recording a rate: an approved one looks for the rate in force at its      *)
(* start, and closes it by id when it is created.                            *)
ReadRate(a, x, status) ==
    /\ tx[a].pc = "idle"
    /\ tx' = [tx EXCEPT ![a] = [Idle EXCEPT !.pc = "rate", !.effectiveFrom = x,
                                           !.status = status,
                                           !.current = IF status = "approved"
                                                       THEN CurrentRate(x) ELSE 0]]
    /\ UNCHANGED <<rates, allocation, allocated>>

Recorded == allocated + Cardinality({x \in Days : rates[x].status # "no row"})

(* Only one rate may start on a day, drafts included.                        *)
CreateRate(a) ==
    LET x == tx[a].effectiveFrom
    IN  /\ tx[a].pc = "rate"
        /\ rates[x].status = "no row" /\ Recorded < MaxRows
        /\ rates' = [y \in Days |->
                       IF y = x
                       THEN [status |-> tx[a].status, effectiveTo |-> Never]
                       ELSE IF y = tx[a].current
                            THEN [rates[y] EXCEPT !.effectiveTo = x]
                            ELSE rates[y]]
        /\ tx' = [tx EXCEPT ![a] = Idle]
        /\ UNCHANGED <<allocation, allocated>>

-----------------------------------------------------------------------------
(* Mutant of StillOpen: only allocations without an end are closed.          *)
WithoutEnd(g, x) == allocation[g].effectiveTo = Never

StillOpen(g, x) == x < allocation[g].effectiveTo

(* Allocating credit: the open allocations are matched by an update, whose   *)
(* condition is asked again for rows that change before it gets to them.     *)
MatchAllocations(a, x, reps) ==
    /\ tx[a].pc = "idle"
    /\ tx' = [tx EXCEPT ![a] = [Idle EXCEPT !.pc = "credits", !.effectiveFrom = x,
                                           !.reps = reps, !.seen = allocated,
                                           !.matched = {g \in 1..allocated : StillOpen(g, x)}]]
    /\ UNCHANGED <<rates, allocation, allocated>>

Closed(a, g) ==
    IF g \in tx[a].matched /\ StillOpen(g, tx[a].effectiveFrom)
    THEN [allocation[g] EXCEPT !.effectiveTo = tx[a].effectiveFrom]
    ELSE allocation[g]

(* A rep has one share of the deal per start.                                *)
SharesUnique(a) ==
    \A g \in 1..allocated :
        allocation[g].effectiveFrom = tx[a].effectiveFrom
          => allocation[g].reps \intersect tx[a].reps = {}

(* Mutant of NewAllocation: open allocations are closed after the new rows   *)
(* are created, and these with them.                                         *)
NewAllocationClosed(a) ==
    [reps |-> tx[a].reps, effectiveFrom |-> tx[a].effectiveFrom,
     effectiveTo |-> tx[a].effectiveFrom, seen |-> tx[a].seen]

(* The rows of a new allocation.                                             *)
NewAllocation(a) ==
    [reps |-> tx[a].reps, effectiveFrom |-> tx[a].effectiveFrom,
     effectiveTo |-> Never, seen |-> tx[a].seen]

CreateAllocation(a) ==
    /\ tx[a].pc = "credits"
    /\ Recorded < MaxRows
    /\ SharesUnique(a)
    /\ allocated' = allocated + 1
    /\ allocation' =
         [g \in Numbers |-> IF g = allocated + 1 THEN NewAllocation(a) ELSE Closed(a, g)]
    /\ tx' = [tx EXCEPT ![a] = Idle]
    /\ UNCHANGED rates

(* A unique key refuses the rows, a statement fails, or the process dies.    *)
RollBack(a) ==
    /\ tx[a].pc # "idle"
    /\ tx' = [tx EXCEPT ![a] = Idle]
    /\ UNCHANGED <<rates, allocation, allocated>>

-----------------------------------------------------------------------------
Next ==
    \E a \in Admins :
        \/ \E x \in Days :
              \/ \E status \in {"draft", "approved"} : ReadRate(a, x, status)
              \/ \E reps \in (SUBSET Reps) \ {{}} : MatchAllocations(a, x, reps)
        \/ CreateRate(a) \/ CreateAllocation(a) \/ RollBack(a)

Spec == Init /\ [][Next]_vars

-----------------------------------------------------------------------------
(* However admins overlap and whatever dates they approve, the rate a        *)
(* calculation finds is the one a plain history of approvals promises: the   *)
(* rows that createCommandServiceRate closes leave no day uncovered and give *)
(* none to another rate (approvedRate).                                      *)
InForce == [d \in Days |-> ApprovedRate(d)]
History == INSTANCE RateHistory WITH inForce <- InForce
RatesFollowHistory == History!Spec

(* A commission run reads the allocations that touch its month: they start   *)
(* before it ends, and do not end before it starts.  It is blocked unless    *)
(* the shares it has read add up to exactly 1.                               *)
ReadFor(g, m) ==
    allocation[g].effectiveFrom < PeriodEnd(m) /\ PeriodStart(m) <= allocation[g].effectiveTo

StartsIn(g, m) ==
    PeriodStart(m) <= allocation[g].effectiveFrom /\ allocation[g].effectiveFrom < PeriodEnd(m)

(* The newest allocation that starts by the end of a month is read for it,   *)
(* whatever was backdated, closed and approved concurrently: closing rows    *)
(* leaves no month without it (createCommandDealCredits).                    *)
NewestAllocationApplies ==
    \A g \in 1..allocated, m \in Months :
        /\ allocation[g].effectiveFrom < PeriodEnd(m)
        /\ \A h \in (g + 1)..allocated : PeriodEnd(m) <= allocation[h].effectiveFrom
        => ReadFor(g, m)

(* Two allocations are both read for a month, and their credit adds up to 2, *)
(* for two reasons only: neither request saw the other's rows, or the later  *)
(* allocation starts in that month, on its first day included, and the       *)
(* earlier one, closed at that start, still touches it                       *)
(* (createCommandDealCredits, calculateAndPersistCommissionRun).             *)
OnlyBlindAllocationsOverlap ==
    \A g, h \in 1..allocated, m \in Months :
        g <= allocation[h].seen /\ ReadFor(g, m) /\ ReadFor(h, m) => StartsIn(h, m)

=============================================================================
