-------------------------- MODULE CommissionRuns --------------------------
(***************************************************************************)
(* Monthly commission runs: the requests that calculate a month            *)
(* (calculateAndPersistCommissionRun) and lock it (lockCommandCommissionRun)*)
(* against the tables they share, while the provider's facts move under    *)
(* them.                                                                   *)
(*                                                                         *)
(* A calculation reads the locked history with several independent         *)
(* queries, then discovers the deals, computes, and persists in one        *)
(* transaction that is serialised with every other by the row of its run.  *)
(* A lock reads the run outside of the transaction that updates it.        *)
(*                                                                         *)
(* One currency; every deal is credited in full to its owner (the          *)
(* single-owner credit policy).                                            *)
(***************************************************************************)
EXTENDS CommissionEngine, Sequences, SequencesExt

CONSTANTS
    Deals,          \* provider records a deal seed can come from
    Reps,
    Requests,       \* admin requests that can be in flight together
    MayDepart,      \* reps whose profile may get an end date
    Source,         \* [Deals -> the record's kind]
    FirstSale,      \* [Deals -> first-sale commission]
    Recurring,      \* [Deals -> monthly residual commission]
    BaseDraw,       \* [Reps -> base pay; 0 when the profile has none]
    Policies,       \* what the approved decisions may say
    LastMonth,      \* bound: months of the instance
    LastDay,        \* bound: the clock stops here
    MaxEvents,      \* bound: provider events of one deal
    MaxVersions,    \* bound: approved versions of the decisions
    NoRep, NoPolicy, Nobody

Months == 1..LastMonth
Sources == {"stripe_subscription", "ghl_subscription", "legacy_sale"}

ASSUME RunsAssumption ==
    /\ LastMonth \in Nat \ {0}
    /\ LastDay \in Nat
    /\ IsFiniteSet(Deals)
    /\ Source \in [Deals -> Sources]
    /\ FirstSale \in [Deals -> Nat] /\ Recurring \in [Deals -> Nat]
    /\ BaseDraw \in [Reps -> Nat]
    /\ NoRep \notin Reps
    /\ MayDepart \subseteq Reps
    /\ NoPolicy \notin Policies
    /\ Nobody \notin Requests

VARIABLES
    day,            \* the current day; currentCommandMonth() is its month
    events,         \* provider events of each deal, oldest first
    owner,          \* the rep a deal is mapped to, or NoRep
    departedAt,     \* a rep profile's endDate
    decisions,      \* approved versions of the decisions, oldest first
    status,         \* the run of each month: none, open or locked
    lines,          \* commission lines of each month's run
    snapshots,      \* rep snapshots of each month's run
    configuration,  \* configurationSnapshot of each month's run
    calculatedAt,   \* day of the calculation each run shows
    lockedBy,       \* lockedByUserId of each run
    lockAudits,     \* audit rows "command.commission.lock" of each run
    pc, target,     \* what each request is doing, and for which month
    unread,         \* queries of its first Promise.all still outstanding
    seen,           \* its asOf, and what its finished queries returned
    result          \* the lines and snapshots it computed

facts == <<day, events, owner, departedAt, decisions>>
runs == <<status, lines, snapshots, configuration, calculatedAt, lockedBy, lockAudits>>
requests == <<pc, target, unread, seen, result>>
vars == <<facts, runs, requests>>

Queries == {"decisions", "prior_lines", "prior_snapshots", "existing_run"}
NothingSeen == [asOf |-> 0, policy |-> NoPolicy, lines |-> {}, snapshots |-> {},
                status |-> "none"]
NoResult == [lines |-> {}, snapshots |-> {}]

---------------------------------------------------------------------------
(* The decisions a calculation uses: the highest version effective by the   *)
(* end of the period, or by now while the period is still running.          *)

Version(at, pol) == [effectiveAt |-> at, policy |-> pol]

AsOf(month) == Smaller(day, PeriodEnd(month) - 1)

ResolveApproved(asOf) ==
    LET effective == {i \in DOMAIN decisions : decisions[i].effectiveAt <= asOf}
    IN  IF effective = {} THEN NoPolicy ELSE decisions[Max(effective)].policy

---------------------------------------------------------------------------
(* What a calculation derives from the facts it read.                      *)

Happened(d) == events[d] # <<>>
Inactive(e) == e.status = "canceled"

(* Stripe's log is cut at the period's end; a GHL record only has its      *)
(* current status and the time of its last update.                         *)
VisibleEvents(d, month) ==
    IF Source[d] = "stripe_subscription"
    THEN SelectSeq(events[d], LAMBDA e : e.at < PeriodEnd(month))
    ELSE events[d]

CanceledAt(d, log) ==
    CASE Source[d] = "legacy_sale" -> NoDay
      [] Source[d] = "ghl_subscription" ->
            IF Inactive(Last(log)) THEN Last(log).at ELSE NoDay
      [] OTHER ->
            IF \E i \in DOMAIN log : Inactive(log[i])
            THEN log[Max({i \in DOMAIN log : Inactive(log[i])})].at
            ELSE NoDay

(* Deals the month's calculation discovers. *)
Discovered(month) ==
    {d \in Deals :
        /\ VisibleEvents(d, month) # <<>>
        /\ events[d][1].at < PeriodEnd(month)
        /\ Source[d] = "legacy_sale" => events[d][1].at >= PeriodStart(month)}

(* Variant for mutation: unmapped deals are let through. *)
NoMappingBlockers(month) == {}

(* A discovered deal with no service or rep mapping blocks the whole run. *)
MappingBlockers(month) == {d \in Discovered(month) : owner[d] = NoRep}

(* Variant for mutation: released amounts are not deducted. *)
HeldEver(priorLines, d, r) ==
    MapThenSumSet(LAMBDA p : p[2].amount,
        {p \in priorLines : p[2].deal = d /\ p[2].rep = r /\ p[2].status = "held"})

(* Held minor units of a deal and rep that no locked run has released. *)
OutstandingHeld(priorLines, d, r) ==
    LET mine == {p \in priorLines : p[2].deal = d /\ p[2].rep = r}
        sum(ps) == MapThenSumSet(LAMBDA p : p[2].amount, ps)
    IN  sum({p \in mine : p[2].status = "held"})
          - sum({p \in mine : p[2].kind = "release"})

EndDate(r) == IF r \in Reps THEN departedAt[r] ELSE NoDay

Seed(d, month, priorLines) ==
    LET log == VisibleEvents(d, month)
    IN  [kind          |-> IF Source[d] = "legacy_sale" THEN "one_time" ELSE "subscription",
         startedAt     |-> log[1].at,
         canceledAt    |-> CanceledAt(d, log),
         departedAt    |-> EndDate(owner[d]),
         pastDue       |-> Source[d] # "legacy_sale" /\ Last(log).status = "past_due",
         firstSale     |-> FirstSale[d],
         recurring     |-> Recurring[d],
         adjustment    |-> 0,
         heldToRelease |-> Larger(OutstandingHeld(priorLines, d, owner[d]), 0)]

CreditedLine(d, r, line) ==
    [deal |-> d, rep |-> r, kind |-> line.kind, status |-> line.status,
     amount |-> line.amount]

CalculatedLines(month, pol, priorLines) ==
    UNION {{CreditedLine(d, owner[d], line) :
               line \in CalculateDealLines(Seed(d, month, priorLines), pol, month)}
             : d \in Discovered(month)}

(* Variant for mutation: the sort is ascending. *)
OldestSnapshot(priorSnapshots, r) ==
    {p \in priorSnapshots :
        /\ p[2].rep = r
        /\ \A q \in priorSnapshots : q[2].rep = r => q[1] >= p[1]}

(* The newest of the prior snapshots of a rep, as {} or {<<month, snapshot>>}. *)
NewestSnapshot(priorSnapshots, r) ==
    {p \in priorSnapshots :
        /\ p[2].rep = r
        /\ \A q \in priorSnapshots : q[2].rep = r => q[1] <= p[1]}

OpeningBalance(priorSnapshots, r) ==
    IF NewestSnapshot(priorSnapshots, r) = {} THEN 0
    ELSE (CHOOSE p \in NewestSnapshot(priorSnapshots, r) : TRUE)[2].totals.closing

(* Reps with lines, and reps with base pay even when they have none.  A base *)
(* draw of 0 is a profile without base pay; one recorded as 0 is left out.   *)
SnapshotReps(ls) == {r \in Reps : BaseDraw[r] # 0 \/ \E l \in ls : l.rep = r}

RepSnapshot(r, ls, opening, recoverable) ==
    [rep |-> r,
     totals |-> SummarizeRepCommission(ls, BaseDraw[r], opening, recoverable)]

RepSnapshots(ls, pol, priorSnapshots) ==
    {RepSnapshot(r, {l \in ls : l.rep = r},
                 OpeningBalance(priorSnapshots, r), pol.recoverable)
        : r \in SnapshotReps(ls)}

---------------------------------------------------------------------------
Init ==
    /\ day = 0
    /\ events = [d \in Deals |-> <<>>]
    /\ owner \in [Deals -> Reps \cup {NoRep}]
    /\ departedAt = [r \in Reps |-> NoDay]
    /\ decisions \in {<<>>} \cup {<<Version(0, pol)>> : pol \in Policies}
    /\ status = [m \in Months |-> "none"]
    /\ lines = [m \in Months |-> {}]
    /\ snapshots = [m \in Months |-> {}]
    /\ configuration = [m \in Months |-> NoPolicy]
    /\ calculatedAt = [m \in Months |-> NoDay]
    /\ lockedBy = [m \in Months |-> Nobody]
    /\ lockAudits = [m \in Months |-> 0]
    /\ pc = [q \in Requests |-> "idle"]
    /\ target = [q \in Requests |-> 1]
    /\ unread = [q \in Requests |-> {}]
    /\ seen = [q \in Requests |-> NothingSeen]
    /\ result = [q \in Requests |-> NoResult]

---------------------------------------------------------------------------
(* The world the runs are computed from. *)

NextDay ==
    /\ day < LastDay
    /\ day' = day + 1
    /\ UNCHANGED <<events, owner, departedAt, decisions, runs, requests>>

(* A subscription is active, falls past due, recovers, is canceled; the    *)
(* provider may report the state of a canceled one again.                  *)
Follows(log) ==
    IF log = <<>> THEN {"active"}
    ELSE CASE Last(log).status = "active"   -> {"past_due", "canceled"}
           [] Last(log).status = "past_due" -> {"active", "canceled"}
           [] Last(log).status = "canceled" -> {"canceled"}

ProviderEvent(d) ==
    /\ Len(events[d]) < MaxEvents
    /\ Source[d] = "legacy_sale" => ~Happened(d)
    /\ \E s \in Follows(events[d]) :
          events' = [events EXCEPT ![d] = Append(@, [at |-> day, status |-> s])]
    /\ UNCHANGED <<day, owner, departedAt, decisions, runs, requests>>

AssignOwner(d, r) ==
    /\ owner[d] # r
    /\ owner' = [owner EXCEPT ![d] = r]
    /\ UNCHANGED <<day, events, departedAt, decisions, runs, requests>>

(* The end date of a profile is set, moved or cleared. *)
RepDeparts(r, at) ==
    /\ r \in MayDepart
    /\ departedAt[r] # at
    /\ departedAt' = [departedAt EXCEPT ![r] = at]
    /\ UNCHANGED <<day, events, owner, decisions, runs, requests>>

(* A new version may be effective from a past or a coming day. *)
ApproveDecisions(at, pol) ==
    /\ Len(decisions) < MaxVersions
    /\ decisions' = Append(decisions, Version(at, pol))
    /\ UNCHANGED <<day, events, owner, departedAt, runs, requests>>

World ==
    \/ NextDay
    \/ \E d \in Deals : ProviderEvent(d)
    \/ \E d \in Deals, r \in Reps : AssignOwner(d, r)
    \/ \E r \in Reps, at \in 0..LastDay \cup {NoDay} : RepDeparts(r, at)
    \/ \E at \in 0..LastDay, pol \in Policies : ApproveDecisions(at, pol)

---------------------------------------------------------------------------
(* POST /commissions/calculate *)

(* The request is answered, or its process dies: its locals are gone. *)
Finish(q) ==
    /\ pc' = [pc EXCEPT ![q] = "idle"]
    /\ target' = [target EXCEPT ![q] = 1]
    /\ unread' = [unread EXCEPT ![q] = {}]
    /\ seen' = [seen EXCEPT ![q] = NothingSeen]
    /\ result' = [result EXCEPT ![q] = NoResult]

(* A future month is refused; asOf is fixed before the queries are sent. *)
StartCalculate(q, m) ==
    /\ pc[q] = "idle"
    /\ m <= MonthOf(day)
    /\ pc' = [pc EXCEPT ![q] = "reading"]
    /\ target' = [target EXCEPT ![q] = m]
    /\ unread' = [unread EXCEPT ![q] = Queries]
    /\ seen' = [seen EXCEPT ![q] = [NothingSeen EXCEPT !.asOf = AsOf(m)]]
    /\ UNCHANGED <<facts, runs, result>>

(* Variant for mutation: open runs count as history. *)
CalculatedBefore(m) == {k \in Months : k < m /\ status[k] # "none"}

LockedBefore(m) == {k \in Months : k < m /\ status[k] = "locked"}

PriorLines(m) == UNION {{k} \X lines[k] : k \in LockedBefore(m)}
PriorSnapshots(m) == UNION {{k} \X snapshots[k] : k \in LockedBefore(m)}

(* What each of the independent queries returns when it runs. *)
Answer(query, m, s) ==
    CASE query = "decisions"       -> [s EXCEPT !.policy = ResolveApproved(s.asOf)]
      [] query = "prior_lines"     -> [s EXCEPT !.lines = PriorLines(m)]
      [] query = "prior_snapshots" -> [s EXCEPT !.snapshots = PriorSnapshots(m)]
      [] query = "existing_run"    -> [s EXCEPT !.status = status[m]]

Read(q, query) ==
    /\ pc[q] = "reading"
    /\ query \in unread[q]
    /\ unread' = [unread EXCEPT ![q] = @ \ {query}]
    /\ seen' = [seen EXCEPT ![q] = Answer(query, target[q], @)]
    /\ UNCHANGED <<facts, runs, pc, target, result>>

(* Variant for mutation: a locked run is recalculated. *)
BlockedUnlessLocked(q) ==
    \/ seen[q].policy = NoPolicy
    \/ MappingBlockers(target[q]) # {}

(* All queries are back.  A locked run, a missing decision or an unmapped   *)
(* deal answers the request with its blockers and writes nothing.           *)
Blocked(q) ==
    \/ seen[q].status = "locked"
    \/ seen[q].policy = NoPolicy
    \/ MappingBlockers(target[q]) # {}

AllRead(q) == pc[q] = "reading" /\ unread[q] = {}

RefuseCalculate(q) ==
    /\ AllRead(q)
    /\ Blocked(q)
    /\ Finish(q)
    /\ UNCHANGED <<facts, runs>>

(* The history has been used; the decisions and the run that was found      *)
(* still matter when the result is persisted.                               *)
Consumed(s) ==
    [asOf |-> 0, policy |-> s.policy, lines |-> {}, snapshots |-> {}, status |-> s.status]

(* discoverDealSeeds and the calculation of every line and snapshot. *)
Calculate(q) ==
    /\ AllRead(q)
    /\ ~Blocked(q)
    /\ LET ls == CalculatedLines(target[q], seen[q].policy, seen[q].lines)
       IN  result' = [result EXCEPT ![q] =
              [lines |-> ls,
               snapshots |-> RepSnapshots(ls, seen[q].policy, seen[q].snapshots)]]
    /\ pc' = [pc EXCEPT ![q] = "persist"]
    /\ seen' = [seen EXCEPT ![q] = Consumed(@)]
    /\ UNCHANGED <<facts, runs, target, unread>>

(* Variants for mutation: the earlier lines stay; the status is rewritten. *)
WriteRunKeepingLines(q, m) ==
    /\ status' = [status EXCEPT ![m] = IF @ = "none" THEN "open" ELSE @]
    /\ lines' = [lines EXCEPT ![m] = @ \cup result[q].lines]
    /\ snapshots' = [snapshots EXCEPT ![m] = result[q].snapshots]
    /\ configuration' = [configuration EXCEPT ![m] = seen[q].policy]
    /\ calculatedAt' = [calculatedAt EXCEPT ![m] = day]
    /\ UNCHANGED <<lockedBy, lockAudits>>

WriteRunReopening(q, m) ==
    /\ status' = [status EXCEPT ![m] = "open"]
    /\ lines' = [lines EXCEPT ![m] = result[q].lines]
    /\ snapshots' = [snapshots EXCEPT ![m] = result[q].snapshots]
    /\ configuration' = [configuration EXCEPT ![m] = seen[q].policy]
    /\ calculatedAt' = [calculatedAt EXCEPT ![m] = day]
    /\ UNCHANGED <<lockedBy, lockAudits>>

(* The transaction: update the run that was found, by its id, or create the *)
(* month's run; replace all of its lines and snapshots.                     *)
WriteRun(q, m) ==
    /\ status' = [status EXCEPT ![m] = IF @ = "none" THEN "open" ELSE @]
    /\ lines' = [lines EXCEPT ![m] = result[q].lines]
    /\ snapshots' = [snapshots EXCEPT ![m] = result[q].snapshots]
    /\ configuration' = [configuration EXCEPT ![m] = seen[q].policy]
    /\ calculatedAt' = [calculatedAt EXCEPT ![m] = day]
    /\ UNCHANGED <<lockedBy, lockAudits>>

(* Variant for mutation: an upsert by period month. *)
PersistUpsert(q) ==
    /\ pc[q] = "persist"
    /\ WriteRun(q, target[q])
    /\ Finish(q)
    /\ UNCHANGED facts

Persist(q) ==
    /\ pc[q] = "persist"
    /\ seen[q].status = "none" => status[target[q]] = "none"
    /\ WriteRun(q, target[q])
    /\ Finish(q)
    /\ UNCHANGED facts

(* The create meets the unique periodMonth of a run created meanwhile. *)
PersistConflict(q) ==
    /\ pc[q] = "persist"
    /\ seen[q].status = "none" /\ status[target[q]] # "none"
    /\ Finish(q)
    /\ UNCHANGED <<facts, runs>>

---------------------------------------------------------------------------
(* POST /commissions/:id/lock *)

(* findUnique with the snapshot count: only an open, non-empty run goes on. *)
LockRead(q, m) ==
    /\ pc[q] = "idle"
    /\ status[m] = "open"
    /\ snapshots[m] # {}
    /\ pc' = [pc EXCEPT ![q] = "lock"]
    /\ target' = [target EXCEPT ![q] = m]
    /\ UNCHANGED <<facts, runs, unread, seen, result>>

(* The transaction updates the run by its id and writes the audit row. *)
LockCommit(q) ==
    /\ pc[q] = "lock"
    /\ status' = [status EXCEPT ![target[q]] = "locked"]
    /\ lockedBy' = [lockedBy EXCEPT ![target[q]] = q]
    /\ lockAudits' = [lockAudits EXCEPT ![target[q]] = @ + 1]
    /\ Finish(q)
    /\ UNCHANGED <<facts, lines, snapshots, configuration, calculatedAt>>

(* The server restarts under a request; nothing it did not commit remains. *)
Crash(q) ==
    /\ pc[q] # "idle"
    /\ Finish(q)
    /\ UNCHANGED <<facts, runs>>

---------------------------------------------------------------------------
Request(q) ==
    \/ \E m \in Months : StartCalculate(q, m)
    \/ \E query \in Queries : Read(q, query)
    \/ RefuseCalculate(q)
    \/ Calculate(q)
    \/ Persist(q)
    \/ PersistConflict(q)
    \/ \E m \in Months : LockRead(q, m)
    \/ LockCommit(q)
    \/ Crash(q)

Next == World \/ \E q \in Requests : Request(q)

Spec == Init /\ [][Next]_vars

---------------------------------------------------------------------------
(* Properties *)

LineOK(l) ==
    l.deal \in Deals /\ l.rep \in Reps /\ l.kind \in LineKinds /\ l.status \in LineStatuses

(* Every table and every local of a request has its shape. *)
TypeOK ==
    /\ day \in 0..LastDay
    /\ owner \in [Deals -> Reps \cup {NoRep}]
    /\ status \in [Months -> {"none", "open", "locked"}]
    /\ lockAudits \in [Months -> Nat]
    /\ lockedBy \in [Months -> Requests \cup {Nobody}]
    /\ pc \in [Requests -> {"idle", "reading", "persist", "lock"}]
    /\ target \in [Requests -> Months]
    /\ unread \in [Requests -> SUBSET Queries]
    /\ \A m \in Months :
          /\ \A l \in lines[m] : LineOK(l)
          /\ \A s \in snapshots[m] : s.rep \in Reps
    /\ \A q \in Requests :
          /\ seen[q].status \in {"none", "open", "locked"}
          /\ \A l \in result[q].lines : LineOK(l)
          /\ \A s \in result[q].snapshots : s.rep \in Reps

(* Whatever calculations overlap, a stored run is the work of one of them:  *)
(* each rep with a line has one snapshot, and it adds up that rep's lines   *)
(* (the delete and create of one transaction, commission-run.service).      *)
SnapshotsMatchLines ==
    \A m \in Months :
        /\ \A s, t \in snapshots[m] : s.rep = t.rep => s = t
        /\ \A l \in lines[m] : \E s \in snapshots[m] : s.rep = l.rep
        /\ \A s \in snapshots[m] :
              LET mine == {l \in lines[m] : l.rep = s.rep}
              IN  /\ s.totals.earned = EarnedOf(mine)
                  /\ s.totals.held =
                        SumAmounts({l \in mine : l.status = "held"})

(* What a calculation carries forward (held amounts, draw balances) was     *)
(* read from earlier months that are locked, now and from then on.          *)
CarriedFromLocked ==
    \A q \in Requests :
        \A p \in seen[q].lines \cup seen[q].snapshots :
            p[1] < target[q] /\ status[p[1]] = "locked"

(* No recalculation, however late it commits, reopens a locked month.       *)
LockIsForever ==
    [][\A m \in Months : status[m] = "locked" => status'[m] = "locked"]_vars

(* A calculation that found no run for its month never replaces the lines   *)
(* or snapshots of a run another request created meanwhile.                 *)
CreateNeverOverwrites ==
    [][\A q \in Requests :
          (/\ pc[q] = "persist" /\ pc'[q] = "idle"
           /\ seen[q].status = "none" /\ status[target[q]] # "none")
          => UNCHANGED <<lines, snapshots, status>>]_vars

(* "A locked commission run cannot be recalculated": neither its lines, its *)
(* snapshots nor its configuration change after the lock.                   *)
LockedRunIsImmutable ==
    [][\A m \in Months : status[m] = "locked" =>
          /\ lines'[m] = lines[m]
          /\ snapshots'[m] = snapshots[m]
          /\ configuration'[m] = configuration[m]]_vars

LockedMonths == {m \in Months : status[m] = "locked"}

PostedTotal(months, d, r, chosen(_)) ==
    MapThenSumSet(LAMBDA p : p[2].amount,
        {p \in UNION {{m} \X lines[m] : m \in months} :
            p[2].deal = d /\ p[2].rep = r /\ chosen(p[2])})

IsHeld(l) == l.status = "held"
IsRelease(l) == l.kind = "release"

(* Locked payroll never releases more of a deal's held commission to a rep  *)
(* than it held: "past-due earnings are held and release only in the        *)
(* current open month" means each held amount is paid once.                 *)
ReleasedAtMostHeld ==
    \A d \in Deals, r \in Reps :
        PostedTotal(LockedMonths, d, r, IsRelease) <= PostedTotal(LockedMonths, d, r, IsHeld)

(* Locked payroll claws the first sale of a deal back at most once: the     *)
(* line key is "the idempotency key across recalculation and provider       *)
(* replay", so a replayed cancellation must not claw back again.            *)
ClawedBackOnce ==
    \A d \in Deals :
        Cardinality({m \in LockedMonths :
            \E l \in lines[m] : l.deal = d /\ l.kind = "clawback"}) <= 1

===========================================================================
