-------------------------- MODULE CommissionClose --------------------------
(***************************************************************************)
(* Commission runs operated as a careful payroll close would: one request  *)
(* at a time, a month calculated only when every earlier month is locked,  *)
(* and locked only on a calculation made after the month ended.  The code  *)
(* enforces none of the three; under them the locked history keeps the     *)
(* promises that CommissionRuns alone breaks.                              *)
(***************************************************************************)
EXTENDS CommissionRuns

Quiet == \A q \in Requests : pc[q] = "idle"

EarlierLocked(m) == \A k \in Months : k < m => status[k] = "locked"

CloseCalculate(q, m) ==
    /\ Quiet
    /\ EarlierLocked(m)
    /\ StartCalculate(q, m)

CloseLock(q, m) ==
    /\ Quiet
    /\ calculatedAt[m] >= PeriodEnd(m)
    /\ LockRead(q, m)

CloseRequest(q) ==
    \/ \E m \in Months : CloseCalculate(q, m)
    \/ \E query \in Queries : Read(q, query)
    \/ RefuseCalculate(q)
    \/ Calculate(q)
    \/ Persist(q)
    \/ PersistConflict(q)
    \/ \E m \in Months : CloseLock(q, m)
    \/ LockCommit(q)
    \/ Crash(q)

CloseNext == World \/ \E q \in Requests : CloseRequest(q)

CloseSpec == Init /\ [][CloseNext]_vars

---------------------------------------------------------------------------
(* Properties *)

(* Every rep's month opens with exactly the balance its newest earlier      *)
(* month closes with, whatever is recalculated in between: "locked rep-     *)
(* period totals including draw balance reconciliation".                    *)
DrawChain ==
    \A m \in Months : \A s \in snapshots[m] :
        LET earlier == {k \in 1..(m - 1) : \E t \in snapshots[k] : t.rep = s.rep}
        IN  IF earlier = {} THEN s.totals.opening = 0
            ELSE \E t \in snapshots[Max(earlier)] :
                    t.rep = s.rep /\ t.totals.closing = s.totals.opening

(* When a deal's commission is posted as earned to a rep, the deal is not   *)
(* past due, and everything held for it until then is released with it.     *)
HeldClearedWhenCurrent ==
    \A m \in Months : \A l \in lines[m] :
        l.kind \in {"first_sale", "recurring"} /\ l.status = "earned" =>
            PostedTotal(1..m, l.deal, l.rep, IsRelease)
                = PostedTotal(1..m, l.deal, l.rep, IsHeld)

(* What a history adds up to for a rep. *)
TotalOfRep(priorSnapshots, r, field) ==
    MapThenSumSet(LAMBDA p : p[2].totals[field], {p \in priorSnapshots : p[2].rep = r})

(* The locked history as a draw account: a month settles when it is locked. *)
LockedSnapshots == PriorSnapshots(LastMonth + 1)

MonthsLocked == Cardinality(LockedMonths)
EarnedLocked == [r \in Reps |-> TotalOfRep(LockedSnapshots, r, "earned")]
PaidLocked == [r \in Reps |-> TotalOfRep(LockedSnapshots, r, "cash")]
BalanceLocked == [r \in Reps |-> OpeningBalance(LockedSnapshots, r)]

Account == INSTANCE DrawAccount WITH
    settled <- MonthsLocked, earned <- EarnedLocked,
    paid <- PaidLocked, advance <- BalanceLocked

(* Locked payroll honours the draw account of every rep. *)
PaysLikeADrawAccount == Account!Spec
=============================================================================
