---------------------------- MODULE StripeFacts ----------------------------
(***************************************************************************)
(* How one Stripe subscription becomes Command facts: webhook deliveries   *)
(* (persistCommandSubscriptionFact) and the nightly reconciliation         *)
(* (reconcileCommandStripeFacts) append to the same lifecycle log and      *)
(* write the same snapshot row.                                            *)
(*                                                                         *)
(* Deliveries come in any order, more than once, or never.  A webhook's    *)
(* transaction updates the subscription's account row before it reads the  *)
(* snapshot, so two webhooks of one subscription never overlap; the        *)
(* reconciliation updates the account outside of its transaction, so it    *)
(* can fall between a webhook's read and its write.                        *)
(***************************************************************************)
EXTENDS Integers, Sequences, FiniteSets, FiniteSetsExt

CONSTANTS
    Workers,        \* webhook requests that can be in flight together
    MaxChanges,     \* bound: changes of the subscription at the provider
    MaxDeliveries,  \* bound: webhook deliveries in all, of whichever events
    MaxFailures,    \* bound: reconciliation runs that fail
    LastTime,       \* bound: the clock stops here
    NoFact

VARIABLES
    now,            \* the clock, shared by Stripe and the server
    provider,       \* the subscription's history at Stripe, oldest first
    delivered,      \* number of webhook deliveries so far
    log,            \* CommandStripeSubscriptionEvent rows of the subscription
    snapshot,       \* its CommandStripeSubscriptionSnapshot row, or NoFact
    webhook,        \* the transaction of each webhook request, or NoFact
    job,            \* the reconciliation job
    failures        \* reconciliation runs that failed so far

vars == <<now, provider, delivered, log, snapshot, webhook, job, failures>>

Statuses == {"active", "past_due", "canceled"}

Ids == ({"event"} \X (1..MaxChanges)) \cup ({"reconcile"} \X Statuses)
Facts == [id : Ids, status : Statuses, occurredAt : 0..LastTime]

Transactions == [fact : Facts, advance : BOOLEAN]

ASSUME FactsAssumption ==
    /\ MaxChanges \in Nat
    /\ MaxDeliveries \in Nat
    /\ MaxFailures \in Nat
    /\ LastTime \in Nat
    /\ NoFact \notin Facts
    /\ NoFact \notin Transactions

Fact(id, status, at) == [id |-> id, status |-> status, occurredAt |-> at]

EventId(i) == <<"event", i>>

(* Variant for mutation: every run gives a state an id of its own. *)
StateIdOfRun(status) == <<"reconcile", status, now>>

(* The id a reconciled state gets: a fingerprint of the state alone. *)
StateId(status) == <<"reconcile", status>>

Reconciled(fact) == fact.id[1] = "reconcile"

NotRunning == [at |-> "idle", latest |-> NoFact, listed |-> "none", dated |-> 0]

Init ==
    /\ now = 0
    /\ provider = <<>>
    /\ delivered = 0
    /\ log = {}
    /\ snapshot = NoFact
    /\ webhook = [w \in Workers |-> NoFact]
    /\ job = NotRunning
    /\ failures = 0

---------------------------------------------------------------------------
(* Stripe *)

Tick ==
    /\ now < LastTime
    /\ now' = now + 1
    /\ UNCHANGED <<provider, delivered, log, snapshot, webhook, job, failures>>

Follows ==
    IF provider = <<>> THEN {"active"}
    ELSE CASE provider[Len(provider)].status = "active"   -> {"past_due", "canceled"}
           [] provider[Len(provider)].status = "past_due" -> {"active", "canceled"}
           [] provider[Len(provider)].status = "canceled" -> {}

(* Two changes may carry the same second. *)
SubscriptionChanges ==
    /\ Len(provider) < MaxChanges
    /\ \E s \in Follows :
          provider' = Append(provider, [status |-> s, at |-> now])
    /\ UNCHANGED <<now, delivered, log, snapshot, webhook, job, failures>>

---------------------------------------------------------------------------
(* Webhooks *)

ShouldAdvance(existing, candidate) ==
    existing = NoFact \/ existing.occurredAt <= candidate.occurredAt

(* Variant for mutation: the account row is not locked. *)
AccountAlwaysFree == TRUE

(* No webhook transaction holds the account row. *)
AccountFree == \A w \in Workers : webhook[w] = NoFact

(* The fact is inserted, the account row locked, the snapshot's occurredAt  *)
(* read; nothing is visible to others yet.                                  *)
WebhookReads(w, i) ==
    /\ AccountFree
    /\ webhook[w] = NoFact
    /\ delivered < MaxDeliveries
    /\ delivered' = delivered + 1
    /\ LET fact == Fact(EventId(i), provider[i].status, provider[i].at)
       IN  webhook' = [webhook EXCEPT ![w] =
              [fact |-> fact, advance |-> ShouldAdvance(snapshot, fact)]]
    /\ UNCHANGED <<now, provider, log, snapshot, job, failures>>

(* Variant for mutation: the row of a known id is written again. *)
RecordUpsert(fact) == {f \in log : f.id # fact.id} \cup {fact}

(* createMany with skipDuplicates. *)
Record(fact) ==
    IF \E f \in log : f.id = fact.id THEN log ELSE log \cup {fact}

WebhookCommits(w) ==
    /\ webhook[w] # NoFact
    /\ log' = Record(webhook[w].fact)
    /\ snapshot' = IF webhook[w].advance THEN webhook[w].fact ELSE snapshot
    /\ webhook' = [webhook EXCEPT ![w] = NoFact]
    /\ UNCHANGED <<now, provider, delivered, job, failures>>

(* The request dies or its transaction times out: nothing is written. *)
WebhookAborts(w) ==
    /\ webhook[w] # NoFact
    /\ webhook' = [webhook EXCEPT ![w] = NoFact]
    /\ UNCHANGED <<now, provider, delivered, log, snapshot, job, failures>>

---------------------------------------------------------------------------
(* The nightly reconciliation, one run at a time *)

(* It reads the snapshots before it lists the provider. *)
JobReadsSnapshots ==
    /\ job.at = "idle"
    /\ job' = [job EXCEPT !.at = "list", !.latest = snapshot]
    /\ UNCHANGED <<now, provider, delivered, log, snapshot, webhook, failures>>

JobLists ==
    /\ job.at = "list"
    /\ provider # <<>>
    /\ job' = [job EXCEPT !.at = "account", !.listed = provider[Len(provider)].status]
    /\ UNCHANGED <<now, provider, delivered, log, snapshot, webhook, failures>>

(* The listing does not hold the subscription yet. *)
JobListsNothing ==
    /\ job.at = "list"
    /\ provider = <<>>
    /\ job' = NotRunning
    /\ UNCHANGED <<now, provider, delivered, log, snapshot, webhook, failures>>

(* projectCommandAccount updates the account row, and waits for its lock. *)
JobProjectsAccount ==
    /\ job.at = "account"
    /\ AccountFree
    /\ job' = [job EXCEPT !.at = "compare"]
    /\ UNCHANGED <<now, provider, delivered, log, snapshot, webhook, failures>>

(* Variant for mutation: a state that was reconciled before is skipped. *)
KnownState ==
    \/ job.latest # NoFact /\ job.latest.status = job.listed
    \/ \E f \in log : f.id = StateId(job.listed)

SameProjection == job.latest # NoFact /\ job.latest.status = job.listed

JobFindsNothingNew ==
    /\ job.at = "compare"
    /\ SameProjection
    /\ job' = NotRunning
    /\ UNCHANGED <<now, provider, delivered, log, snapshot, webhook, failures>>

(* The correction is dated now, before its transaction begins. *)
JobDates ==
    /\ job.at = "compare"
    /\ ~SameProjection
    /\ job' = [job EXCEPT !.at = "correct", !.dated = now]
    /\ UNCHANGED <<now, provider, delivered, log, snapshot, webhook, failures>>

(* It overwrites the snapshot, whatever the snapshot holds by now. *)
JobCorrects ==
    /\ job.at = "correct"
    /\ LET fact == Fact(StateId(job.listed), job.listed, job.dated)
       IN  /\ log' = Record(fact)
           /\ snapshot' = fact
    /\ job' = NotRunning
    /\ UNCHANGED <<now, provider, delivered, webhook, failures>>

(* The step fails and is retried from its beginning. *)
JobFails ==
    /\ job.at # "idle"
    /\ failures < MaxFailures
    /\ failures' = failures + 1
    /\ job' = NotRunning
    /\ UNCHANGED <<now, provider, delivered, log, snapshot, webhook>>

---------------------------------------------------------------------------
Webhook(w) ==
    \/ \E i \in DOMAIN provider : WebhookReads(w, i)
    \/ WebhookCommits(w)
    \/ WebhookAborts(w)

Job ==
    \/ JobReadsSnapshots
    \/ JobLists
    \/ JobListsNothing
    \/ JobProjectsAccount
    \/ JobFindsNothingNew
    \/ JobDates
    \/ JobCorrects

Next ==
    \/ Tick
    \/ SubscriptionChanges
    \/ \E w \in Workers : Webhook(w)
    \/ Job
    \/ JobFails

(* The cron fires every night and its run goes on; a transaction ends, one  *)
(* way or the other.  Nothing is assumed about Stripe's deliveries.         *)
Fairness ==
    /\ WF_vars(Job)
    /\ \A w \in Workers : WF_vars(WebhookCommits(w) \/ WebhookAborts(w))

Spec == Init /\ [][Next]_vars /\ Fairness

---------------------------------------------------------------------------
(* What the commission run makes of the log. *)

StartedAt == Min({f.occurredAt : f \in log})

CanceledAt == Max({f.occurredAt : f \in {g \in log : g.status = "canceled"}})

---------------------------------------------------------------------------
(* Properties *)

Jobs == [at : {"idle", "list", "account", "compare", "correct"},
         latest : Facts \cup {NoFact}, listed : Statuses \cup {"none"},
         dated : 0..LastTime]

TypeOK ==
    /\ now \in 0..LastTime
    /\ provider \in Seq([status : Statuses, at : 0..LastTime])
    /\ delivered \in 0..MaxDeliveries
    /\ log \subseteq Facts
    /\ snapshot \in Facts \cup {NoFact}
    /\ webhook \in [Workers -> Transactions \cup {NoFact}]
    /\ job \in Jobs
    /\ failures \in 0..MaxFailures

(* "Never lets an out-of-order webhook roll the current snapshot backward":  *)
(* whatever order the events are delivered in, the snapshot is older than a  *)
(* Stripe event of the log only when a correction of the reconciliation was  *)
(* dated before both.                                                        *)
SnapshotNotBehind ==
    \A f \in log : ~Reconciled(f) =>
        /\ snapshot # NoFact
        /\ \/ f.occurredAt <= snapshot.occurredAt
           \/ \E r \in log : Reconciled(r) /\ r.occurredAt <= snapshot.occurredAt

(* "A replay cannot create a second fact": no redelivery or repeated         *)
(* reconciliation moves the start of a subscription to a later date; only a  *)
(* fact that really is older moves it, to an earlier one.                    *)
StartNeverMovesLater ==
    [][log # {} => StartedAt' <= StartedAt]_vars

(* The snapshot is "current provider state": once the subscription stops     *)
(* changing, nightly runs bring it to the provider's state for good, though  *)
(* webhooks are lost, repeated, reordered, and race with the job.            *)
SnapshotConverges ==
    <>[](provider # <<>> =>
            /\ snapshot # NoFact
            /\ snapshot.status = provider[Len(provider)].status)

(* "Reconciliation rows are trusted for STATE and never for TIMING": once    *)
(* Stripe's own cancellation event is in the log, the cancellation date that *)
(* commissions are calculated from is that event's.                          *)
CancellationDatedByStripe ==
    \A f \in log : ~Reconciled(f) /\ f.status = "canceled" => CanceledAt = f.occurredAt
=============================================================================
