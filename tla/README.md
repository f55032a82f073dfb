# Command payroll, Stripe facts and website removal of the Uplift admin backend, in TLA+

A verification project for `uplift-admin-backend`: TLA+ modules translated from
the source, TLC runs on small instances, and theorems checked by TLAPS. Paths
below are relative to the repository (`src/...` is its `src` directory).

## 1. Inventory of the system

The repository is the admin API (Bun, Express, Prisma on Postgres, Redis,
Inngest): `/api/v1/auth/admin/*`, `/api/v1/command/*`,
`/api/v1/superadmin/agencies/*`, health and status. Around 120 files are
reachable from its entry point; the rest is a snapshot of the production backend
(webhooks, workers, customer APIs) that writes the tables the admin API reads.
The core logic of the admin API is **Command**: provider facts about
subscriptions and sales become monthly commission payroll. Of the wider backend,
the part with the hardest protocol is the **removal of websites**: a database, a
retry queue and Stripe have to agree.

| component | state it keeps | operations | interacts with |
|---|---|---|---|
| Commission engine `command/commission-engine.ts` | none (pure) | lines of a deal in a month, summary of a rep's month | called by the runs |
| Commission runs `command/commission-run.service.ts`, `controllers/command-commissions.controller.ts` | run per month (open, locked), lines, rep snapshots, configuration snapshot, audit rows | calculate, lock | reads facts, decisions, reps, terms, and its own locked history |
| Deal terms `controllers/command-services.controller.ts`, `controllers/command-credits.controller.ts` | rate versions of a service, credit allocations of a deal, each with a start and an end | record a rate (draft or approved), allocate credit | configuration of a calculation |
| Stripe webhook lease `utils/stripe-webhook-safety.ts` | one row per Stripe event: processing, failed, processed; lease | claim, take over, complete, release | wraps every webhook handler |
| Call webhook lease `command/call-webhook-safety.ts` | one row per call event, the same columns | the same statements | wraps the call webhooks |
| Stripe facts `services/command-stripe-facts.service.ts` | append-only subscription events, snapshot per subscription, accounts | persist a fact, advance the snapshot | written by webhooks, read by the runs |
| Stripe reconciliation `command/stripe-reconciliation.service.ts` | sync run rows | nightly comparison with the provider's listing | writes the same events and snapshots |
| Response cache `utils/provider-cache.ts`, `utils/tenant-response-cache.ts` | fetches in flight per process; in Redis a revision per scope and values under it | read through, store, invalidate | every provider read of the panel |
| Website removal `services/website-removal.service.ts` | removal columns of a website, retry-queue row per operation, the account's anchor subscription and count; items and subscriptions at Stripe | request, claim, process, finalise, fail, retry, reclaim, restore | Stripe, users, the retry cron in `inngest/client.ts` |
| Decisions | versioned approved rows | draft, approve, supersede | configuration of a calculation |
| Rep profiles `controllers/command-reps.controller.ts` | profile, base pay, end date | create, update | owners of deals |
| Superadmin agencies `controllers/superadmin.controller.ts` | revenue shares, settlements | create, settle, reassign | billing |
| Access control and admin auth | grants, sessions | capability checks | every route |
| GHL sync, call reviews | imported provider tables, call rows | mark-and-sweep, review | facts for Command |
| Billing subscriptions, publishing, social | customer tables of the wider backend | outside of the admin runtime surface | — |

What is hard about them, and what makes each one correct:

* **Commission runs.** A calculation reads its history with eight independent
  queries, works for a while, and persists in one transaction; a lock reads
  outside of the transaction that updates. Requests overlap, processes die. The
  stored month must be the work of one calculation; what is carried forward
  (held commission, draw balance) must come from history that no longer changes;
  a locked month must stay what it was; held commission is paid exactly once.
* **Engine.** Start, cancellation, departure, past-due months and the clawback
  window meet at month boundaries: over a deal's life the lines must add up to
  what the deal is worth, however it was held and released.
* **Deal terms.** Approving a row closes older ones in a read-committed
  transaction whose read and write are two statements; dates come in any order,
  and admins overlap. On every day exactly the rate that a plain history of
  approvals promises must be in force, a month's calculation must read the newest
  allocation, and an older one with it only where the code cannot tell them apart.
* **Webhook lease.** Deliveries overlap, outlive their lease, fail, die. An
  event must not be acknowledged unhandled, not be processed after it was, not be
  handled twice at a time while a lease can still be live, and not get stuck.
* **Facts and reconciliation.** Webhooks come late, twice, out of order or never,
  and race with a job that reads before it lists and lists before it writes. The
  snapshot must not fall behind, must converge, and the log must keep the dates
  that payroll is calculated from.
* **Response cache.** A value has two ages, is refreshed behind the response, is
  written under a revision read before the write, and both keys expire on their
  own. Callers share a fetch that may fail, and processes restart. An answer must
  have a bounded age, what is found after an invalidation must not be much older
  than it, and every caller must be answered.
* **Website removal.** The claim, Stripe's call and the finalisation are apart;
  answers get lost after Stripe has acted, workers die or are overtaken by a
  reclaimed job, subscriptions are shared with websites that stay, and a removal
  can be undone while an old worker still runs. No removal may drop out of the
  queue, what is removed must not be billed, what was never removed must stay
  billed, a restore must not be taken back, and every removal must end.

`PROJECT.json` lists every component with its status, and the hazards at their
lines with the properties that watch them.

## 2. Modules

| module | models | of the code |
|---|---|---|
| `CommissionEngine` | the pure calculation | `calculateDealCommissionLines`, `summarizeRepCommission`, month bounds |
| `CommissionLifetime` | one deal through all of its months | the loop of months over the engine, each calculated once and locked |
| `CommissionRuns` | requests, tables, and the world they read | `calculateAndPersistCommissionRun`, `discoverDealSeeds`, the calculate and lock handlers |
| `CommissionClose` | `CommissionRuns` operated in order | the same actions under an operator's discipline (below) |
| `DrawAccount` | abstract: what recoverable draw promises a rep | refined by `CommissionClose` |
| `DealTerms` | rates of one service, credit of one deal | `createCommandServiceRate`, `approvedRate`, `createCommandDealCredits` |
| `RateHistory` | abstract: a history of approved rates | refined by `DealTerms` |
| `WebhookLease` | deliveries of one event and its row | claim, complete, release, the handler's outcome |
| `StripeFacts` | one subscription, its webhooks and the nightly job | `persistCommandSubscriptionFact`, `reconcileCommandStripeFacts` |
| `ProviderCache` | callers and processes around one provider read | `readThroughProviderCache`, `coalesce`, the revisioned reads and writes of Redis |
| `WebsiteRemoval` | an account's websites, its queue, Stripe | the whole of `website-removal.service.ts` |
| `MCCommissionRuns`, `MCCommissionClose`, `MCDealTerms`, `MCWebsiteRemoval` | values of the constants, symmetry | — |
| `CommissionSums` | lemmas: what a sum over a set of lines or of posts is | the `reduce` and `filter` sums of the engine |
| `CommissionRunsProofs` (of `CommissionRuns` and `CommissionClose`), `CommissionLifetimeProofs`, `DealTermsProofs`, `WebhookLeaseProofs`, `StripeFactsProofs`, `ProviderCacheProofs`, `WebsiteRemovalProofs` | theorems | — |

### How state and actions correspond to the code

`CommissionRuns`. `status`, `lines`, `snapshots`, `configuration`,
`calculatedAt`, `lockedBy` are the columns of a month's run; `status = "none"` is
a month without a row. A request's `pc` is idle, reading (the first
`Promise.all`, with `unread` the queries still outstanding), persist (computed,
before the transaction) or lock (between the lock handler's read and its
transaction); `seen` and `result` are its locals. `StartCalculate` refuses future
months and fixes `asOf`; `Read` lets each query of the `Promise.all` run at its
own time; `RefuseCalculate` and `Calculate` split on the blockers; `Persist` is
the transaction, update by id or create; `PersistConflict` is the unique month
refusing the create; `LockRead` and `LockCommit` are the lock handler. `Crash`
drops the locals of a request. The world moves in between: days pass, the
provider reports, deals get owners, profiles get end dates, decisions are approved.

`DealTerms`. `rates` has the row that starts on each day (the start is unique),
`allocation` the groups of credit rows that one request writes together. `tx` is
what a request's open transaction has read. `ReadRate` is the query for the rate
in force at the new start, `CreateRate` the two writes and the commit;
`MatchAllocations` is the snapshot on which the closing `updateMany` finds its
rows and `CreateAllocation` its effect and the inserts: Postgres asks the
condition again for a row changed meanwhile, and so does `Closed`. `RollBack` is a
refusing unique key, a failing statement or a dying process. `seen`, in an
allocation, is history: what its transaction could know. `ReadFor` is the query by
which a calculation reads the allocations of its month.

`WebhookLease`. `row` is the event's row, `startedAt` the `now` a claim is made
with, which is compared with the lease even when the row is written later.
Completion and release only ask for a row that is `processing`: they do not name
their claim, and the model keeps that. The call webhooks use the same statements
on a table of their own.

`StripeFacts`. The webhook transaction inserts the fact, updates the account row
(which serialises webhooks of one subscription until commit), reads the
snapshot's `occurredAt`, and writes if it is not newer. The job reads all
snapshots, then lists the provider, updates the account *outside* of its
transaction, compares with what it read at first, dates its correction, and then
overwrites. `now` is one clock for Stripe and the server; two events may carry
the same second.

`ProviderCache`. `revision` and `stored` are keys of Redis, `fetch` the entry of a
process's map of fetches in flight, `caller` a request. Times are counted from
each event and not from a clock, so behaviours have no end and no bound on time.
`Arrive` reads the revision, `Serve` and `Miss` are the read of the value under
it (`Miss` also stands for a Redis that fails or times out), `Compute` is the
provider's answer and the second read of the revision, `Store` the write.
`Increment` and `Renew` are the two commands of an invalidation; `Renew` may come
at any time after, which includes one that is late or never comes. `Lifetime` is
the hard TTL with its jitter and the time of the write.

`WebsiteRemoval`. `website` has the removal columns of the business rows, `job`
the retry-queue row of each operation key, `items` and `canceled` are Stripe's.
A `worker` is a user's request or a run of the cron; its `pc` says which call
comes next, and its other fields are its locals. `RequestRemoval` loads the website,
`PickReplacement` (or the refusal `LastWebsite`) counts and picks among the others,
`Claim`/`ClaimLost` are the conditional writes; `Retry`, `RunBatch` and `Reclaim`
bring a job (back) to a worker. One attempt is, in its order, `TakeJob`, `Load`, the
inspection with its reads at three moments (`RetrieveSubscription`, `CountSiblings`,
`NothingToUndo` or `Decide`), `Undo`, `Finalize`, `CountWebsites`,
`UpdateWebsiteCount`; `CallFails`, `AnswerLost`, `ReadRetryCount` and `MarkFailed` are
its error paths; `RequestRestore`, `CreateItem`, `Restore`, `RecoverUnpaid` are the
recovery. `seen` keeps what the inspection has read until it decides. A worker whose
job was reclaimed goes on, as it does in the code.

### Abstractions

* Instants are day numbers and a month has `DaysPerMonth` days: comparisons keep
  their exact form. Amounts are integers; the product amount × rate × share is
  the deal's `FirstSale` or `Recurring`. One currency, one owner per deal (the
  single-owner credit policy); overrides, credits, rates and currencies only
  change those numbers or add blockers. `CommissionRuns` does not read
  `DealTerms`: the two meet in that product. A `BaseDraw` of 0 is a profile without
  base pay; a base pay recorded as 0, which the code gives a snapshot in every month
  (`commission-run.service.ts:693`), is left out.
* `discoverDealSeeds` reads nine tables with independent queries; the model reads
  them at once, in `Calculate`. Of the eight queries of the first `Promise.all`
  the model keeps the four whose results are state of this model.
* A provider event carries a status and a time. Prices, periods and metadata,
  which the reconciliation compares too, are represented by the status.
* The transactions of Postgres are atomic at their commit; where the code reads
  and writes in two statements of a read-committed transaction without a lock
  (`StripeFacts`, `DealTerms`, the claim of `WebsiteRemoval`), the model has two
  steps.
* `DealTerms` leaves out the lookups of services and reps before the transaction,
  notes, and the audit row; shares of one allocation add up to 1 by the request's
  validation, so a second allocation that a month reads makes the sum 2, and the
  calculation refuses the deal (`commission-run.service.ts:631-641`).
* `ProviderCache` follows one key of one scope. A value that is too large or does
  not validate is one that is not stored or not found.
* `WebsiteRemoval`: a website has both of Stripe's ids or neither, and their
  metadata match; due dates, the ten minutes before a job is reclaimed, and the
  recovery deadline come at any time; a repeated call with one idempotency key is
  answered as the first was; columns that only mirror `removalStatus`, messages
  and `lastError` are left out. Three lookups are one step with the write after
  them: a user's retry and its row, `Load` and the row it completes, the website's
  own item at Stripe and the record of the action (`Decide`). The status of a
  website's subscription row (`website-removal.service.ts:841-844`) is not state of
  the model: any billed website may take over the account's row (`Survivor`); no
  property depends on it. Paying for a website again after an unpaid recovery is
  outside.
* `WebhookLease` takes the handler of an event type as one step, `Handle`: of the
  switch in `controllers/stripe-webhook.controller.ts:1080-1963` it keeps that the
  handler ends or throws.

### The operator's discipline (`CommissionClose`)

Two of the promises do not hold for every order of legal requests (section 4).
`CommissionClose` keeps every action of `CommissionRuns` and restricts when
requests start: one at a time, a month is calculated only when every earlier
month is locked, and locked only on a calculation made after the month ended.
**The code enforces none of the three**; they are how a careful payroll close
would use it, and the module shows that under them the locked history is sound.

## 3. Runs

| run | instance | checks | result |
|---|---|---|---|
| `commission_runs` | 1 one-time sale, 1 rep, 2 symmetric requests, 2 months of 1 day | `TypeOK`, `SnapshotsMatchLines`, `CarriedFromLocked`, `LockIsForever`, `CreateNeverOverwrites` | hold, 2.28 million states |
| `commission_close` | 1 subscription with up to 3 provider events, 2 symmetric reps, 1 request, 3 months of 1 day and a day after them | `DrawChain`, `ReleasedAtMostHeld`, `HeldClearedWhenCurrent`, `LockedRunIsImmutable`, `PaysLikeADrawAccount` | hold, 946 thousand states |
| `commission_lifetime` | every start, cancellation and departure day in 3 months of 3 days, every set of past-due months, windows 0, 2, 4, both departure policies | `PaidPlusHeldIsWorth`, `NothingHeldWhenCurrent`, `OnlyUnpostedClawbackCosts` | hold, 62 640 states |
| `deal_terms` | 2 symmetric admins, 2 symmetric reps, 2 months of 2 days, 3 rows | `TypeOK`, `NewestAllocationApplies`, `OnlyBlindAllocationsOverlap`, `RatesFollowHistory` | hold, 2.20 million states |
| `webhook_lease` | 3 deliveries, lease of 2, clock to 6 | `AcknowledgedWasHandled`, `OneHandlerPerLease`, `ProcessedIsFinal`, `EventuallyAcknowledged` | hold, 544 thousand states |
| `stripe_facts` | 3 changes, 3 deliveries by 2 workers, 1 failing job, clock to 2 | `TypeOK`, `SnapshotNotBehind`, `StartNeverMovesLater`, `SnapshotConverges` | hold, 1.64 million states |
| `provider_cache` | 2 callers, 2 processes, soft and hard age 1, lifetime 2, fetches up to 1, revision kept for 2, 1 invalidation per revision | `TypeOK`, `AnswersAreBounded`, `FoundSinceInvalidation`, `EventuallyAnswered` | hold, 677 thousand states |
| `website_removal` | 3 websites, 2 on one subscription, 2 workers, 2 operations, 2 retries, 1 trouble | `TypeOK`, `PendingIsQueued`, `RemovedIsNotBilled`, `UntouchedStaysBilled`, `RestoreOutlivesItsRemoval`, `EventuallySettled` | hold, 344 thousand states |
| `late_write` | 2 requests, 1 month | `LockedRunIsImmutable` | violated |
| `double_release` | 1 request, 3 months | `ReleasedAtMostHeld` | violated |
| `double_clawback` | 1 GHL subscription, 2 months | `ClawedBackOnce` | violated |
| `cancellation_date` | as `stripe_facts` | `CancellationDatedByStripe` | violated |

Why the bounds are enough. The races of `CommissionRuns` are between a
calculation and one other request on the same or an earlier month: two requests
and two months contain every pair of them. Holding, releasing and closing need a
month that holds, a month that releases and a month after it that could release
again: three, and since a month is locked only once it has ended, the clock goes on
for a day after the third. Two reps let a deal change hands. In the lifetime, three days per month put every pair of
dates on both sides of a boundary and in the middle, and the windows are
shorter than, about, and longer than a month. A lease needs a holder, one that
takes over and one that finds a live lease: three deliveries. For the facts, three
changes give active, past due, canceled in one history, and three deliveries let
each be delivered once, or one of them three times. Terms need an older row, a
newer one and one that comes between them, from two transactions that overlap:
three rows, two admins; two months of two days put a
reallocation on a month's first day, inside it, and in another month. The cache needs a value that is fresh, stale and
expired, a fetch of this and of another process, and a revision that is
incremented and then forgotten. A removal needs its worker and one that overtakes
it, an operation and the one after its restore, one trouble to set them apart, and
a failure after the retry; the primary website, its sibling on the shared
subscription and the dedicated one are the three kinds of website. Only the third
may replace another, which keeps the run short; with all three, the safety
properties hold as well (3.2 million states). The theorems of section 5 lift these
bounds. Bounded things are named in the `CONSTANTS` of each module with the word
*bound*.

`CommissionRuns`, `CommissionClose`, `DealTerms` and `ProviderCache` are checked
for deadlock. The other four may stop: a deal's months end, an acknowledged
event's deliveries end with the clock, a bounded number of removals settles, and
the facts' fairness excludes stopping where it must not.

### Fairness

* `WebhookLease`: time passes, Stripe keeps delivering what was not acknowledged,
  and a request that does not die goes on (weak fairness of each). Failures,
  deaths and overlapping attempts end at `LastTrouble`. After it an attempt starts
  only when no other is running (`BackedOff`): Stripe's retries back off to
  hours, a lease lasts five minutes. Without that assumption deliveries could
  overlap for ever: a failing delivery that outlived its lease frees the lease of
  the one that took over.
* `StripeFacts`: the nightly cron fires and its steps go on; a webhook's
  transaction ends in a commit or an abort. **Nothing** is assumed about
  deliveries: convergence rests on the job alone.
* `ProviderCache`: Redis and the provider answer or time out (weak fairness of
  each caller's read and of each step of a fetch). Restarts, failures and
  invalidations are never bounded.
* `WebsiteRemoval`: a worker that is not dead goes on (weak fairness of its
  steps), and the cron of `inngest/client.ts:9115-9133` fires every five minutes,
  reclaims (weak fairness) and takes each job that is time and again in the queue
  (strong fairness: between two batches a job may be with a worker). The cron runs
  only where `WEBSITE_REMOVAL_RETRY_CRON_ENABLED` is set; without it a removal
  whose request dies waits for its user.
* `CommissionRuns`, `CommissionClose` and `DealTerms` state safety only; requests
  may never be made. `CommissionLifetime` is about every complete life.

## 4. What the code does not do

Four documented promises are broken by runs that expect a violation, each listed
under `findings` with the quoted line:

1. `late_write` — a calculation that found its run open rewrites it after it was
   locked: the persist transaction does not ask for the status again.
2. `double_release` — two months calculated before either is locked both release
   the same held amount, and both can be locked.
3. `double_clawback` — a GHL subscription's cancellation date is its last
   provider update, so a later update claws the first sale back a second time.
4. `cancellation_date` — payroll dates a cancellation by the latest inactive row,
   reconciliation rows included, which are dated by the job's clock.

Some properties are as weak as the code is, and say so in their statement:

* `OneHandlerPerLease` speaks of the time before a first lease can run out: later,
  a failing delivery may free the lease of another.
* `OnlyBlindAllocationsOverlap` excuses two things. Allocations made in overlapping
  transactions: nothing in the schema refuses them. And the month an allocation
  starts in: closing the older rows at its start leaves them with that month, whose
  calculation reads every row that touches it, `effectiveTo >= period.start` included
  (`commission-run.service.ts:504-510`). So a plain reallocation inside a month, or on
  its first day, one after the other and without any race, makes the sum of the
  shares 2 and blocks that month's run under split credit (`:631-641`).
* `OnlyUnpostedClawbackCosts` names the deal whose rep had left when it started. With
  departures stopping commission, its first sale is not posted
  (`commission-engine.ts:117-123`), but the clawback asks for no departure
  (`:166-174`): a cancellation within the window takes an amount from the rep that
  was never paid.
* `FoundSinceInvalidation` allows one fetch: a provider answer that was on its way
  when the scope was invalidated is stored under the new revision. For the provider
  catalog, which `utils/command-cache.ts:83-86` drops in order to go and look again,
  the value found may be from before. It also excuses a revision number from 1 on
  that is used again after the revision has expired: values written late under it can
  be found for less than a lifetime. Revision 0, of which the comment at
  `utils/tenant-response-cache.ts:261-264` speaks, is never reused that way, as long
  as lifetimes stay within `REVISION_TTL` (`CacheAssumption`): those of all callers
  do, at 24 hours and a tenth, but the writer's own cap of 30 days with the same
  tenth would allow 33 days against 31.
* `AnswersAreBounded` gives the hard lifetime as the bound of a served value: after an
  idle time the first caller gets a value older than the soft period that
  `utils/provider-cache.ts:39-41` speaks of.
* `SnapshotConverges` speaks of the end: a repeated event of the same second, or a
  listing older than a webhook that committed meanwhile, may roll the snapshot back
  until the next run.
* `EventuallySettled` counts a job that ended in `failed` as settled: it waits for its
  user.
* `RemovedIsNotBilled` and `UntouchedStaysBilled` exclude restored websites where
  the restore itself is what breaks them; the hazards list the four places in
  `website-removal.service.ts` where the restore or two claims at once do.

## 5. Theorems

For every value of the constants that satisfies the named assumptions
(`DaysPerMonthAssumption`, `LifetimeAssumption`, `RunsAssumption`,
`TermsAssumption`, `LeaseAssumption`, `FactsAssumption`, `CacheAssumption`,
`RemovalAssumption`; the runs evaluate them).

The assumptions on amounts come from the code's inputs. Commission rates lie
between 0 and 1 (`command/service-rate-input.ts:3-6`), base pay is not negative
(`command/rep-input.ts:6`, `controllers/command-reps.controller.ts:475`) and a
provider amount that is not positive makes no deal (`commission-run.service.ts:233`,
`:423`): `FirstSale`, `Recurring` and `BaseDraw` are natural numbers. A data
override of an admin may set a negative amount
(`controllers/command-overrides.controller.ts:63`); a deal with one is outside of
these theorems: held months could then owe less than nothing.

* `RunsTyped`, `CarriesLockedHistory` (`CommissionRunsProofs`): `TypeOK` is proved
  with the tables (`TablesOK`) and the locals (`LocalsOK`) apart. That a stored
  line's rep is a rep, and not *no owner*, is where the mapping blockers are
  used: `Calculate` is not taken when a discovered deal has no owner.
  `CarriedFromLocked` is inductive with typing: a query returns rows of locked
  months, and no step unlocks one.
* `LocksAreForever`, `CreatesNeverOverwrite`: action properties, one case per
  action. The lock is kept by `Persist` because the update does not touch the
  status, not because it checks it: the finding `late_write` is the other side.
* `StoredTotalsMatch`: `SnapshotsMatchLines`, from the invariant `Totals` that says
  it of the stored months and of every computed result. It rests on typing: a
  line without a rep would have no snapshot.
* `ClosedRunsAreImmutable`, `BalancesChain` (`CommissionRunsProofs`):
  `LockedRunIsImmutable` and `DrawChain` under the discipline. The invariant
  `CloseInv` says that a month with a run has only locked months before it
  (`InOrder`), that at most one request is not idle (`OneAtATime`), that what this
  one has read is what the tables still say (`Current`), and that every snapshot
  opens with the balance of the rep's newest locked month (`Chained`). The newest
  month exists by the well-foundedness of the naturals (`LatestMonth`).
* `ReleasesAreCovered`, `EarningClearsHeld` (`CommissionRunsProofs`):
  `ReleasedAtMostHeld` and `HeldClearedWhenCurrent` under the discipline. `HeldInv`
  says of every stored month and of every computed result that, for a deal and a
  rep, it holds one amount or releases one, never both; that a release is all that
  its locked history owed; and that posting something as earned clears what is
  owed. By `CloseInv` the history a month was calculated from is that of the months
  before it, so what the first *n* months held and released (`LedgerOK`) follows by
  induction on *n* (`LedgerHolds`), and the locked months are the first ones
  (`LockedMonthsAreFirst`). Without the discipline the same property is the
  finding `double_release`.
* `LockedPayrollIsADrawAccount` (`CommissionRunsProofs`): the refinement
  `PaysLikeADrawAccount`. `DrawInv` says that every stored and every computed
  snapshot settles the draw with the balance it opens with (`SettlesWith`), and that
  no rep with base pay is left out (`Covers`). Locking month *m* then adds one
  snapshot of each rep to a history of the months `1..m-1` (`HistoryAfterLock`): the
  totals grow by its totals (`TotalWithRep`), the balance becomes its closing
  balance (`MonthCloses`), and the three branches of the draw settlement are the
  abstract `FairMonth` (`RepSettles`). Every other step leaves the account alone
  (`AccountStays`). Hypothesis `AllRecoverable`: every approved version of the
  decisions makes base draw recoverable, as in the run. With a version that does
  not, the code pays the draw without booking an advance (`commission-engine.ts:217`,
  `:249`), which is no draw account.
* `MoneyIsConserved`, `CurrentHoldsNothing`, `ClawbackCosts`
  (`CommissionLifetimeProofs`): `PaidPlusHeldIsWorth`, `NothingHeldWhenCurrent` and
  `OnlyUnpostedClawbackCosts`, from one invariant (`LifetimeInv`): paid plus held is the
  worth so far, what is held is natural and 0 after a month that was current, and
  paid is natural until a clawback. A deal whose first sale the departure
  stopped has no residual either, so its clawback is all it ever posts; any other
  clawback meets the first sale that was posted. A month moves what is new in it, what it
  releases and what it claws back (`MonthMoves`), and the closed form of the worth
  grows by the same amounts, which rests on division of days into months.
* `CommissionSums` holds the lemmas these need. The sums of the models are the
  community modules' `MapThenSumSet`, a recursive function over subsets. That the
  function exists for every finite set, that the order of adding does not matter
  and that a member can be taken out (`TotalWithMember`) is shown by a smallest
  counterexample among the subsets, without an induction theorem.
* `TermsTyped`, `RatesAreAHistory`, `CreditOverlapsOnlyBlind`, `NewestCreditApplies`
  (`DealTermsProofs`). The refinement rests on `Coverage`: an approved rate ends
  only where a later approved one starts (`Handed`), and an open request will only
  end a rate that starts before its own (`Reads`). That is enough because a
  calculation takes the latest start among the rates in force: two that overlap
  after concurrent approvals do not disagree. Allocations rest on `Succession`: what
  an allocation saw ends by its start (`SeenAreOver`), ends are starts of newer
  allocations (`EndsAtAStart`), and what an open update saw and did not match was
  already over (`Matching`). A month after the later start then begins after the end
  of what it saw; a month no newer allocation has reached lies before the end of the
  newest one.
* `NoEventIsLost`, `ProcessedForever` (`WebhookLeaseProofs`): the inductive
  invariant `HandledFirst` adds that a delivery about to complete the row or to
  answer does so after some handler has run to its end. It says nothing of
  leases: no event is lost whatever expires. `HandlersTakeTurns` does: until the
  time of one lease has passed (`SoleHolder`), at most one delivery is working, and
  no lease of a row that is processing can have run out.
* `FactsTyped`, `SnapshotKeepsUp` (`StripeFactsProofs`): `SnapshotNotBehind` needs
  the account lock (`OneTransaction`: at most one webhook transaction is open),
  that what an open transaction decided still holds when it commits
  (`DecisionHolds`: the row it compared with may have been corrected meanwhile,
  and then a reconciled row is in the log), and that corrections are dated in
  order and never in the future (`Dated`). `StartStaysOrMovesEarlier`: the log only
  grows, and the start is its earliest billing row.
* `CacheTyped`, `AnswersBounded`, `InvalidatedStaysHidden` (`ProviderCacheProofs`):
  ages of fetches and of stored values (`FetchAges`, `StoredAges`) give the bounds of
  the answers. For invalidations, `Dated` says of every stored or storing envelope
  when it was made, by the number it is under: after the last invalidation, or before
  the last expiry of the revision, or, under 0 while there is a revision, so long ago
  that it expires first. What was asked for is at most a fetch older. That a fetch is
  shorter than a lifetime and a lifetime no longer than `RevisionTtl` is assumed.
* `RemovalTyped`, `KeysReachTheirRows`, `RemovalsStayQueued`, `RemovalsEndBilling`, `RestoresAreKept`,
  `UntouchedStayBilled` (`WebsiteRemovalProofs`), for any number of websites,
  subscriptions, workers and operations. Six layers: shapes (`Typing`); an
  operation key belongs to one website and one row (`Queue`); the row of a pending
  removal is not completed (`Unfinished`); the item a website or a worker knows was
  sold with it or made by an earlier restore, never by one of the operation in
  progress (`Items`); what a worker about to finalise has confirmed at Stripe stays
  so, whatever other workers and restores do meanwhile (`Billing`); and a
  subscription is canceled, or its cancellation recorded, only when every website it
  bills has been claimed at some time (`Sharing`). That the inspection reads at three
  moments needs two more facts: a subscription read as canceled stays so
  (`SeenCanceled`, in `Items`), and a worker that counted no siblings has had every
  website of the subscription claimed before, restored since or not (`Sharing`).
  `KeysReachTheirRows` is `Queue`, `RemovalTyped` only the shapes.
  Unbilled websites are covered here only, not by the run.

Every safety property of the passing runs is the statement of a theorem. Only
model-checked: the liveness properties (`EventuallyAcknowledged`,
`SnapshotConverges`, `EventuallyAnswered`, `EventuallySettled`), since liveness
under fairness and `ENABLED` are out of the provers' reach; the four violations
of section 4 are counterexamples of TLC.

## 6. Not modelled, and why

* Dashboards and metrics are reads over the same tables. Authentication is a
  library's, access control a lookup in constant tables. Invoice facts follow the
  same pattern as subscription facts. The GHL sync is taken as provider events.
* Revenue shares and settlements are one or two plain statements per operation
  without a status to ask for; data overrides are single rows that a calculation
  reads. There is no protocol of which something could be said that is not the
  statement itself. The hazards name what is missing there.
* Call reviews are text from a language model behind a queue; only the lease of
  the call webhooks is shared with `WebhookLease`. The event types' own handlers
  are one step of that module: whether each of them tolerates running twice is not
  shown.
* The bulk of the repository's 235 thousand lines is content: prompts and pipelines
  over language models, publishing adapters, search and map data, page and image
  generation, dashboards. It is input and output around text, with little state
  that lasts from one step to the next, and it lies outside of the admin runtime
  surface. The models cover the commission, provider-fact, cache and removal
  services, which are a small share of those lines: the mapped lines cannot be
  more than a few percent of the whole.

## 7. Plan

Done: engine, lifetime, runs, close and draw account; terms and rate history;
lease; facts; response cache; website removal; the theorems of section 5. What
would come next, in order:

1. Split credit and the start dates of reps in `CommissionRuns`, which would let a
   calculation read `DealTerms` and show the hazard at
   `commission-run.service.ts:704`.
2. `discoverDealSeeds` as nine reads at different moments.
3. Publish locks and generation runs of the wider backend; call reviews with their
   retries.
