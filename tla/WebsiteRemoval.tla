--------------------------- MODULE WebsiteRemoval ---------------------------
(***************************************************************************)
(* The removal and the recovery of an account's websites                   *)
(* (services/website-removal.service.ts): a request claims the website and *)
(* queues a job, a worker confirms with Stripe that the website is no      *)
(* longer billed and then finalises it, failed and abandoned jobs are      *)
(* tried again, and a removed website can be restored.  User requests and  *)
(* the retry cron run at the same time: what a call to the database or to  *)
(* Stripe has answered is kept in "worker" until a later step uses it.  A  *)
(* lookup is one step with the write that follows it at once: Load and the *)
(* row it completes, the website's own item and the record of the action.  *)
(***************************************************************************)
EXTENDS Naturals, FiniteSets

CONSTANTS
    Websites,       \* the websites of one account, numbered as created
    Switchable,     \* those whose status and onboarding allow selecting them
    Subscriptions,  \* Stripe subscriptions
    NoSubscription, \* of a website without Stripe objects
    SubscriptionOf, \* the Stripe subscription that bills each website
    Workers,        \* user requests and retry workers in flight
    MaxRetries,     \* failures after which a job waits for its user
    MaxOperations,  \* bound: removal requests
    MaxTroubles     \* bound: failing calls, crashes and overdue workers

ASSUME RemovalAssumption ==
    /\ Websites \subseteq Nat \ {0}
    /\ IsFiniteSet(Websites)
    /\ Switchable \subseteq Websites
    /\ NoSubscription \notin Subscriptions
    /\ SubscriptionOf \in [Websites -> Subscriptions \union {NoSubscription}]
    /\ MaxRetries \in Nat \ {0}
    /\ MaxOperations \in Nat
    /\ MaxTroubles \in Nat

VARIABLES
    website,      \* the business row of each website
    job,          \* the retry queue row of each removal operation
    issued,       \* operation keys issued so far
    items,        \* Stripe's live subscription items, <<website, item id>>
    canceled,     \* Stripe's canceled subscriptions
    restoredBy,   \* restore idempotency keys Stripe has answered
    anchor,       \* the Stripe subscription the account's row points to
    websiteCount, \* the number of websites the account's row records
    worker,       \* what each request or worker is doing, with its locals
    troubles      \* failures, crashes and overdue workers so far

stripe == <<items, canceled, restoredBy>>
vars == <<website, job, issued, stripe, anchor, websiteCount, worker, troubles>>

-----------------------------------------------------------------------------
Operations == 1..MaxOperations

(* Item 0 is the one a website was sold with; a restore makes the item       *)
(* numbered by the operation it undoes.                                      *)
ItemIds == 0..MaxOperations

BillingActions == {"none", "cancel_dedicated_subscription",
                   "delete_shared_subscription_item", "unknown"}

Website == [isActive: BOOLEAN, isPrimary: BOOLEAN,
            removalStatus: {"active", "cancellation_pending", "removed"},
            billingAction: BillingActions,
            operationKey: ItemIds, item: ItemIds,
            recoverable: BOOLEAN]     \* the recovery deadline has not passed

NoWebsite == 0

Job == [website: Websites \union {NoWebsite},
        status: {"no row", "pending", "processing", "completed", "failed"},
        retryCount: 0..MaxRetries]

NoJob == [website |-> NoWebsite, status |-> "no row", retryCount |-> 0]

(* What a worker has read of a website's subscription: its live items and    *)
(* its status at Stripe, then whether the database has siblings on it.       *)
Inspection == [live: SUBSET (Websites \X ItemIds), canceled: BOOLEAN, siblings: BOOLEAN]

NothingSeen == [live |-> {}, canceled |-> FALSE, siblings |-> FALSE]

Idle == [pc |-> "idle", website |-> NoWebsite, operationKey |-> 0, item |-> 0,
         action |-> "none", target |-> "item", replacement |-> NoWebsite,
         handOver |-> FALSE, count |-> 0, retries |-> 0, seen |-> NothingSeen]

Worker ==
    [pc: {"idle", "select", "claim", "process", "load", "inspect", "siblings",
          "decide", "effect", "finalize", "fail", "mark", "count", "recount",
          "createItem", "restore", "expire"},
     website: Websites \union {NoWebsite}, operationKey: ItemIds, item: ItemIds,
     action: BillingActions, target: {"subscription", "item"},
     replacement: Websites \union {NoWebsite}, handOver: BOOLEAN,
     count: 0..Cardinality(Websites), retries: 0..MaxRetries, seen: Inspection]

TypeOK ==
    /\ website \in [Websites -> Website]
    /\ job \in [Operations -> Job]
    /\ issued \in 0..MaxOperations
    /\ items \subseteq Websites \X ItemIds
    /\ canceled \subseteq Subscriptions
    /\ restoredBy \subseteq Operations
    /\ anchor \in Subscriptions \union {NoSubscription}
    /\ websiteCount \in 0..Cardinality(Websites)
    /\ worker \in [Workers -> Worker]
    /\ troubles \in 0..MaxTroubles

-----------------------------------------------------------------------------
Billed == {s \in Websites : SubscriptionOf[s] # NoSubscription}
IsListed(s) == website[s].isActive /\ website[s].removalStatus = "active"
Listed == {s \in Websites : IsListed(s)}
Primaries == {s \in Listed : website[s].isPrimary}
Earliest(S) == CHOOSE s \in S : \A t \in S : s <= t

(* Whether an operation is still the one that removes its website: the       *)
(* condition of every update a worker makes of the business row.             *)
Pending(s, op) ==
    /\ website[s].removalStatus = "cancellation_pending"
    /\ website[s].operationKey = op

Init ==
    \E primary \in Websites, anchored \in {SubscriptionOf[s] : s \in Websites} :
        /\ website = [s \in Websites |->
                        [isActive |-> TRUE, isPrimary |-> s = primary,
                         removalStatus |-> "active", billingAction |-> "none",
                         operationKey |-> 0, item |-> 0, recoverable |-> FALSE]]
        /\ job = [op \in Operations |-> NoJob]
        /\ issued = 0
        /\ items = Billed \X {0}
        /\ canceled = {}
        /\ restoredBy = {}
        /\ anchor = anchored
        /\ websiteCount = Cardinality(Websites)
        /\ worker = [w \in Workers |-> Idle]
        /\ troubles = 0

-----------------------------------------------------------------------------
(* Every step of a worker is one of these: it goes on with some locals       *)
(* changed, or it is done.                                                   *)
At(w, pc) == worker[w].pc = pc
GoTo(w, pc) == worker' = [worker EXCEPT ![w].pc = pc]
Done(w) == worker' = [worker EXCEPT ![w] = Idle]

(* Whoever processes an operation starts from its key and its website alone. *)
Process(w, s, op) ==
    worker' = [worker EXCEPT ![w] = [Idle EXCEPT !.pc = "process", !.website = s,
                                                 !.operationKey = op]]
Trouble == troubles < MaxTroubles /\ troubles' = troubles + 1

-----------------------------------------------------------------------------
(* Removing a website.                                                       *)

(* The preferred replacement: the primary website if it may be selected,     *)
(* else the one created first.                                               *)
SelectReplacement(candidates) ==
    LET eligible == candidates \intersect Switchable
    IN  IF eligible \intersect Primaries # {}
        THEN Earliest(eligible \intersect Primaries)
        ELSE Earliest(eligible)

HasReplacement(s) == (Listed \ {s}) \intersect Switchable # {}

(* A user asks for the removal of a listed website, and the request loads    *)
(* it.                                                                       *)
RequestRemoval(w, s) ==
    /\ At(w, "idle")
    /\ IsListed(s)
    /\ issued < MaxOperations
    /\ worker' = [worker EXCEPT ![w] = [Idle EXCEPT !.pc = "select", !.website = s,
                                                    !.handOver = website[s].isPrimary]]
    /\ UNCHANGED <<website, job, issued, stripe, anchor, websiteCount, troubles>>

(* The claim transaction counts the websites listed by now and picks the     *)
(* replacement among the other ones, for an operation key of its own.        *)
PickReplacement(w) ==
    LET me == worker[w]
        replacement == SelectReplacement(Listed \ {me.website})
    IN  /\ At(w, "select")
        /\ HasReplacement(me.website)
        /\ issued < MaxOperations
        /\ issued' = issued + 1
        /\ worker' = [worker EXCEPT
                        ![w].pc = "claim",
                        ![w].operationKey = issued + 1,
                        ![w].replacement = replacement,
                        ![w].handOver = me.handOver \/ ~website[replacement].isPrimary,
                        ![w].count = Cardinality(Listed)]
        /\ UNCHANGED <<website, job, stripe, anchor, websiteCount, troubles>>

(* An account without a replacement is refused (and so is a request beyond   *)
(* the bound).                                                               *)
LastWebsite(w) ==
    /\ At(w, "select")
    /\ ~HasReplacement(worker[w].website) \/ issued = MaxOperations
    /\ Done(w)
    /\ UNCHANGED <<website, job, issued, stripe, anchor, websiteCount, troubles>>

Claimed(s, op, replacement, handOver) ==
    [t \in Websites |->
        CASE t = s ->
               [website[t] EXCEPT !.isActive = FALSE, !.isPrimary = FALSE,
                                  !.removalStatus = "cancellation_pending",
                                  !.billingAction = "unknown",
                                  !.operationKey = op, !.recoverable = TRUE]
          [] t # s /\ t = replacement /\ handOver ->
               [website[t] EXCEPT !.isPrimary = TRUE]
          [] t # s /\ t # replacement /\ handOver /\ IsListed(t) ->
               [website[t] EXCEPT !.isPrimary = FALSE]
          [] OTHER -> website[t]]

(* The claim transaction's writes.  They are conditional on the website      *)
(* still being listed, and on nothing else the request has read.             *)
Claim(w) ==
    LET me == worker[w]
    IN  /\ At(w, "claim")
        /\ IsListed(me.website)
        /\ website' = Claimed(me.website, me.operationKey, me.replacement, me.handOver)
        /\ job' = [job EXCEPT ![me.operationKey] =
                     [website |-> me.website, status |-> "pending", retryCount |-> 0]]
        /\ websiteCount' = me.count - 1
        /\ Process(w, me.website, me.operationKey)
        /\ UNCHANGED <<issued, stripe, anchor, troubles>>

ClaimLost(w) ==
    /\ At(w, "claim")
    /\ ~IsListed(worker[w].website)
    /\ Done(w)
    /\ UNCHANGED <<website, job, issued, stripe, anchor, websiteCount, troubles>>

-----------------------------------------------------------------------------
(* Jobs: the request that queued one, its user's retry, and the cron's batch *)
(* all run the same operation.                                               *)

Retry(w, s) ==
    LET op == website[s].operationKey
    IN  /\ At(w, "idle")
        /\ website[s].removalStatus = "cancellation_pending"
        /\ job[op].status \in {"pending", "failed"}
        /\ job' = [job EXCEPT ![op].status = "pending", ![op].retryCount = 0]
        /\ Process(w, s, op)
        /\ UNCHANGED <<website, issued, stripe, anchor, websiteCount, troubles>>

(* Mutant of Reclaim: only jobs that have failed before are taken back.      *)
ReclaimFailedBefore(op) ==
    /\ job[op].status = "processing"
    /\ job[op].retryCount > 0
    /\ job' = [job EXCEPT ![op].status = "pending"]
    /\ UNCHANGED <<website, issued, stripe, anchor, websiteCount, worker, troubles>>

(* The batch returns a job that has been processing for ten minutes to the   *)
(* queue: its worker is dead, or overdue and still running.                  *)
Reclaim(op) ==
    /\ job[op].status = "processing"
    /\ IF \E w \in Workers : ~At(w, "idle") /\ worker[w].operationKey = op
       THEN Trouble
       ELSE UNCHANGED troubles
    /\ job' = [job EXCEPT ![op].status = "pending"]
    /\ UNCHANGED <<website, issued, stripe, anchor, websiteCount, worker>>

RunBatch(w, op) ==
    /\ At(w, "idle")
    /\ job[op].status = "pending"
    /\ Process(w, job[op].website, op)
    /\ UNCHANGED <<website, job, issued, stripe, anchor, websiteCount, troubles>>

TakeJob(w) ==
    LET op == worker[w].operationKey
    IN  /\ At(w, "process")
        /\ job[op].status \in {"pending", "failed"}
        /\ job' = [job EXCEPT ![op].status = "processing"]
        /\ GoTo(w, "load")
        /\ UNCHANGED <<website, issued, stripe, anchor, websiteCount, troubles>>

JobTaken(w) ==
    /\ At(w, "process")
    /\ job[worker[w].operationKey].status \notin {"pending", "failed"}
    /\ Done(w)
    /\ UNCHANGED <<website, job, issued, stripe, anchor, websiteCount, troubles>>

(* Mutants of Load: a removal still pending completes its row; an operation  *)
(* the website no longer knows goes on.                                      *)
LoadCompletingPending(w) ==
    LET me == worker[w]
        s == me.website
    IN  /\ At(w, "load")
        /\ IF website[s].removalStatus # "active"
           THEN job' = [job EXCEPT ![me.operationKey].status = "completed"] /\ Done(w)
           ELSE Done(w) /\ UNCHANGED job
        /\ UNCHANGED <<website, issued, stripe, anchor, websiteCount, troubles>>

LoadAnyOperation(w) ==
    LET me == worker[w]
        s == me.website
    IN  /\ At(w, "load")
        /\ worker' = [worker EXCEPT ![w].pc = "inspect", ![w].item = website[s].item,
                                    ![w].action = website[s].billingAction]
        /\ UNCHANGED <<website, job, issued, stripe, anchor, websiteCount, troubles>>

(* The worker loads the website.  An operation the website no longer knows   *)
(* is given up, its row left processing; a website already removed only      *)
(* completes the row.                                                        *)
Load(w) ==
    LET me == worker[w]
        s == me.website
    IN  /\ At(w, "load")
        /\ \/ /\ website[s].operationKey # me.operationKey
              /\ Done(w)
              /\ UNCHANGED job
           \/ /\ website[s].operationKey = me.operationKey
              /\ website[s].removalStatus = "removed"
              /\ job' = [job EXCEPT ![me.operationKey].status = "completed"]
              /\ Done(w)
           \/ /\ website[s].operationKey = me.operationKey
              /\ website[s].removalStatus # "removed"
              /\ worker' = [worker EXCEPT ![w].pc = "inspect",
                                          ![w].item = website[s].item,
                                          ![w].action = website[s].billingAction]
              /\ UNCHANGED job
        /\ UNCHANGED <<website, issued, stripe, anchor, websiteCount, troubles>>

-----------------------------------------------------------------------------
(* Billing: what has to be undone at Stripe, and undoing it.                 *)

IsLive(s, item) == <<s, item>> \in items
ItemsOf(sub) == {i \in items : SubscriptionOf[i[1]] = sub}

(* Other websites on the same subscription, in the database's view.          *)
Siblings(s) == {t \in Websites \ {s} :
                    /\ SubscriptionOf[t] = SubscriptionOf[s]
                    /\ website[t].removalStatus # "removed"}

(* The live items a worker goes by: those of the subscription it has read,   *)
(* and the website's own one if Stripe still has it when asked for it.       *)
LiveItems(s, item, seen) == seen.live \union ({<<s, item>>} \intersect items)

(* Mutant of ClassifyRemoval: every subscription is taken to be dedicated.   *)
ClassifyAsDedicated(s, item, seen) ==
    IF seen.live # {} /\ <<s, item>> \notin LiveItems(s, item, seen) THEN "unknown"
    ELSE "cancel_dedicated_subscription"

(* A subscription somebody else still uses keeps running without this        *)
(* website's item; one whose items do not match the database is left alone.  *)
ClassifyRemoval(s, item, seen) ==
    LET live == LiveItems(s, item, seen)
        shared == \/ seen.siblings
                  \/ <<s, item>> \in live /\ live # {<<s, item>>}
    IN  IF shared THEN "delete_shared_subscription_item"
        ELSE IF live # {} /\ <<s, item>> \notin live THEN "unknown"
        ELSE "cancel_dedicated_subscription"

(* The action an earlier attempt recorded wins over a new classification.    *)
ActionFor(s, item, recorded, seen) ==
    IF recorded \in {"delete_shared_subscription_item", "cancel_dedicated_subscription"}
    THEN recorded
    ELSE ClassifyRemoval(s, item, seen)

(* The subscription was gone already: nothing is left to do at Stripe.       *)
ActionAfterCancellation(action, seen) ==
    IF action # "unknown" THEN action
    ELSE IF seen.siblings THEN "delete_shared_subscription_item"
    ELSE "cancel_dedicated_subscription"

(* The inspection asks Stripe for the subscription, ...                      *)
RetrieveSubscription(w) ==
    LET s == worker[w].website
    IN  /\ At(w, "inspect")
        /\ s \in Billed
        /\ worker' = [worker EXCEPT
                        ![w].pc = "siblings",
                        ![w].seen = [live |-> ItemsOf(SubscriptionOf[s]),
                                     canceled |-> SubscriptionOf[s] \in canceled,
                                     siblings |-> FALSE]]
        /\ UNCHANGED <<website, job, issued, stripe, anchor, websiteCount, troubles>>

(* ... counts the website's siblings in the database, ...                    *)
CountSiblings(w) ==
    /\ At(w, "siblings")
    /\ worker' = [worker EXCEPT ![w].pc = "decide",
                                ![w].seen.siblings = Siblings(worker[w].website) # {}]
    /\ UNCHANGED <<website, job, issued, stripe, anchor, websiteCount, troubles>>

Confirmed(w, action, target) ==
    worker' = [worker EXCEPT ![w].pc = "finalize", ![w].action = action,
                             ![w].target = target, ![w].seen = NothingSeen]

Record(s, op, action) ==
    website' = IF Pending(s, op)
               THEN [website EXCEPT ![s].billingAction = action]
               ELSE website

(* Mutant of NothingToUndo: a recorded deletion is taken to have happened.   *)
NothingToUndoOnceRecorded(w) ==
    /\ At(w, "decide")
    /\ worker[w].action = "delete_shared_subscription_item"
    /\ Confirmed(w, worker[w].action, "item")
    /\ UNCHANGED <<website, job, issued, stripe, anchor, websiteCount, troubles>>

(* ... and asks Stripe for the website's own item.                           *)
NothingToUndo(w) ==
    LET me == worker[w]
        s == me.website
        action == ActionFor(s, me.item, me.action, me.seen)
    IN  /\ \/ /\ At(w, "inspect")
              /\ s \notin Billed
              /\ Confirmed(w, "none", "item")
           \/ /\ At(w, "decide")
              /\ me.action = "delete_shared_subscription_item"
              /\ ~IsLive(s, me.item)
              /\ Confirmed(w, me.action, "item")
           \/ /\ At(w, "decide")
              /\ me.action = "delete_shared_subscription_item" => IsLive(s, me.item)
              /\ me.seen.canceled
              /\ Confirmed(w, ActionAfterCancellation(action, me.seen),
                           IF me.seen.siblings THEN "item" ELSE "subscription")
        /\ UNCHANGED <<website, job, issued, stripe, anchor, websiteCount, troubles>>

(* The action is recorded before Stripe is called.  An item that is already  *)
(* gone needs no call.                                                       *)
Decide(w) ==
    LET me == worker[w]
        s == me.website
        action == ActionFor(s, me.item, me.action, me.seen)
    IN  /\ At(w, "decide")
        /\ ~me.seen.canceled
        /\ me.action = "delete_shared_subscription_item" => IsLive(s, me.item)
        /\ \/ /\ action = "unknown"
              /\ GoTo(w, "fail")
              /\ UNCHANGED website
           \/ /\ action = "delete_shared_subscription_item"
              /\ ~IsLive(s, me.item)
              /\ Record(s, me.operationKey, action)
              /\ Confirmed(w, action, "item")
           \/ /\ action # "unknown"
              /\ action = "delete_shared_subscription_item" => IsLive(s, me.item)
              /\ Record(s, me.operationKey, action)
              /\ worker' = [worker EXCEPT ![w].pc = "effect", ![w].action = action,
                                          ![w].seen = NothingSeen]
        /\ UNCHANGED <<job, issued, stripe, anchor, websiteCount, troubles>>

CallStripe(s, item, action) ==
    /\ IF action = "cancel_dedicated_subscription"
       THEN /\ canceled' = canceled \union {SubscriptionOf[s]}
            /\ UNCHANGED items
       ELSE /\ items' = items \ {<<s, item>>}
            /\ UNCHANGED canceled
    /\ UNCHANGED restoredBy

Undo(w) ==
    LET me == worker[w]
    IN  /\ At(w, "effect")
        /\ CallStripe(me.website, me.item, me.action)
        /\ Confirmed(w, me.action, IF me.action = "cancel_dedicated_subscription"
                                   THEN "subscription" ELSE "item")
        /\ UNCHANGED <<website, job, issued, anchor, websiteCount, troubles>>

(* Stripe did what it was asked to, but its answer is lost.                  *)
AnswerLost(w) ==
    LET me == worker[w]
    IN  /\ At(w, "effect")
        /\ Trouble
        /\ CallStripe(me.website, me.item, me.action)
        /\ GoTo(w, "fail")
        /\ UNCHANGED <<website, job, issued, anchor, websiteCount>>

(* A call to Stripe or to the database fails and changes nothing.            *)
CallFails(w) ==
    /\ worker[w].pc \in {"inspect", "siblings", "decide", "effect", "finalize",
                         "count", "recount"}
    /\ Trouble
    /\ IF worker[w].operationKey # 0 THEN GoTo(w, "fail") ELSE Done(w)
    /\ UNCHANGED <<website, job, issued, stripe, anchor, websiteCount>>

-----------------------------------------------------------------------------
(* Finalising, and giving a failed operation back to the queue.              *)

(* The website that takes over the account's subscription row: the primary   *)
(* one, else the one created first, among those that are billed.  The status *)
(* that the customer's own billing gives their rows is not modelled: each    *)
(* counts as active or trialing.                                             *)
Survivor(s) ==
    LET paid == (Listed \ {s}) \intersect Billed
    IN  IF paid = {} THEN NoSubscription
        ELSE SubscriptionOf[IF paid \intersect Primaries # {}
                            THEN Earliest(paid \intersect Primaries)
                            ELSE Earliest(paid)]

Finalize(w) ==
    LET me == worker[w]
        s == me.website
        cancels == /\ me.action = "cancel_dedicated_subscription"
                   /\ me.target = "subscription"
    IN  /\ At(w, "finalize")
        /\ GoTo(w, "count")
        /\ IF Pending(s, me.operationKey)
           THEN /\ website' = [website EXCEPT ![s].isActive = FALSE,
                                              ![s].isPrimary = FALSE,
                                              ![s].removalStatus = "removed",
                                              ![s].billingAction = me.action]
                /\ anchor' = IF cancels /\ anchor = SubscriptionOf[s]
                             THEN Survivor(s) ELSE anchor
                /\ job' = [job EXCEPT ![me.operationKey].status = "completed"]
           ELSE UNCHANGED <<website, anchor, job>>
        /\ UNCHANGED <<issued, stripe, websiteCount, troubles>>

(* The account's count is read and then written, outside of a transaction.   *)
CountWebsites(w) ==
    /\ At(w, "count")
    /\ worker' = [worker EXCEPT ![w].pc = "recount", ![w].count = Cardinality(Listed)]
    /\ UNCHANGED <<website, job, issued, stripe, anchor, websiteCount, troubles>>

(* Mutant of UpdateWebsiteCount: the row is decremented, not recounted.      *)
DecrementWebsiteCount(w) ==
    /\ At(w, "recount")
    /\ websiteCount' = websiteCount - 1
    /\ Done(w)
    /\ UNCHANGED <<website, job, issued, stripe, anchor, troubles>>

UpdateWebsiteCount(w) ==
    /\ At(w, "recount")
    /\ websiteCount' = worker[w].count
    /\ Done(w)
    /\ UNCHANGED <<website, job, issued, stripe, anchor, troubles>>

(* The failures counted so far are read, and the queue row is rewritten in a *)
(* transaction of its own, whatever it says by then.                         *)
ReadRetryCount(w) ==
    /\ At(w, "fail")
    /\ worker' = [worker EXCEPT ![w].pc = "mark",
                                ![w].retries = job[worker[w].operationKey].retryCount]
    /\ UNCHANGED <<website, job, issued, stripe, anchor, websiteCount, troubles>>

MarkFailed(w) ==
    LET op == worker[w].operationKey
        retries == worker[w].retries + 1
    IN  /\ At(w, "mark")
        /\ job' = [job EXCEPT
                     ![op].status = IF retries >= MaxRetries THEN "failed" ELSE "pending",
                     ![op].retryCount = IF retries >= MaxRetries THEN MaxRetries ELSE retries]
        /\ Done(w)
        /\ UNCHANGED <<website, issued, stripe, anchor, websiteCount, troubles>>

-----------------------------------------------------------------------------
(* Restoring a removed website.                                              *)

(* A shared item is restored at Stripe; a website without Stripe objects     *)
(* comes back for staff or within its trial; any other one comes back        *)
(* unpaid.                                                                   *)
RequestRestore(w, s) ==
    /\ At(w, "idle")
    /\ website[s].removalStatus = "removed"
    /\ website[s].recoverable
    /\ \E pc \in {"createItem", "restore", "expire"} :
          /\ CASE pc = "createItem" ->
                    website[s].billingAction = "delete_shared_subscription_item"
               [] pc = "restore" -> website[s].billingAction = "none"
               [] OTHER ->
                    website[s].billingAction # "delete_shared_subscription_item"
          /\ worker' = [worker EXCEPT ![w] =
                          [Idle EXCEPT !.pc = pc, !.website = s,
                                       !.item = IF pc = "createItem"
                                                THEN website[s].operationKey
                                                ELSE website[s].item]]
    /\ UNCHANGED <<website, job, issued, stripe, anchor, websiteCount, troubles>>

(* Stripe answers a second call with the same key with the first one's item  *)
(* and creates nothing.                                                      *)
StripeCreates(s, key) ==
    /\ items' = IF key \in restoredBy THEN items ELSE items \union {<<s, key>>}
    /\ restoredBy' = restoredBy \union {key}
    /\ UNCHANGED canceled

CreateItem(w) ==
    LET me == worker[w]
    IN  /\ At(w, "createItem")
        /\ SubscriptionOf[me.website] \notin canceled
        /\ StripeCreates(me.website, me.item)
        /\ GoTo(w, "restore")
        /\ UNCHANGED <<website, job, issued, anchor, websiteCount, troubles>>

CreateAnswerLost(w) ==
    LET me == worker[w]
    IN  /\ At(w, "createItem")
        /\ SubscriptionOf[me.website] \notin canceled
        /\ Trouble
        /\ StripeCreates(me.website, me.item)
        /\ Done(w)
        /\ UNCHANGED <<website, job, issued, anchor, websiteCount>>

NothingToRestoreInto(w) ==
    /\ At(w, "createItem")
    /\ SubscriptionOf[worker[w].website] \in canceled
    /\ Done(w)
    /\ UNCHANGED <<website, job, issued, stripe, anchor, websiteCount, troubles>>

Recovered(s, active, primary, item) ==
    [website EXCEPT ![s] = [isActive |-> active, isPrimary |-> primary,
                            removalStatus |-> "active", billingAction |-> "none",
                            operationKey |-> 0, item |-> item,
                            recoverable |-> FALSE]]

(* Neither write asks for the status the request has read.                   *)
Restore(w) ==
    LET me == worker[w]
    IN  /\ At(w, "restore")
        /\ website' = Recovered(me.website, TRUE, Primaries = {}, me.item)
        /\ GoTo(w, "count")
        /\ UNCHANGED <<job, issued, stripe, anchor, websiteCount, troubles>>

RecoverUnpaid(w) ==
    LET s == worker[w].website
    IN  /\ At(w, "expire")
        /\ website' = Recovered(s, FALSE, FALSE, website[s].item)
        /\ Done(w)
        /\ UNCHANGED <<job, issued, stripe, anchor, websiteCount, troubles>>

DeadlinePasses(s) ==
    /\ website[s].recoverable
    /\ website' = [website EXCEPT ![s].recoverable = FALSE]
    /\ UNCHANGED <<job, issued, stripe, anchor, websiteCount, worker, troubles>>

(* A process dies, or an error ends a request between two steps.             *)
Crash(w) ==
    /\ ~At(w, "idle")
    /\ Trouble
    /\ Done(w)
    /\ UNCHANGED <<website, job, issued, stripe, anchor, websiteCount>>

-----------------------------------------------------------------------------
WorkerStep(w) ==
    \/ PickReplacement(w) \/ LastWebsite(w) \/ Claim(w) \/ ClaimLost(w)
    \/ TakeJob(w) \/ JobTaken(w) \/ Load(w)
    \/ RetrieveSubscription(w) \/ CountSiblings(w)
    \/ NothingToUndo(w) \/ Decide(w) \/ Undo(w)
    \/ Finalize(w) \/ CountWebsites(w) \/ UpdateWebsiteCount(w)
    \/ ReadRetryCount(w) \/ MarkFailed(w)
    \/ CreateItem(w) \/ NothingToRestoreInto(w) \/ Restore(w) \/ RecoverUnpaid(w)

Next ==
    \/ \E w \in Workers :
          \/ \E s \in Websites : RequestRemoval(w, s) \/ Retry(w, s) \/ RequestRestore(w, s)
          \/ \E op \in Operations : RunBatch(w, op)
          \/ WorkerStep(w)
          \/ AnswerLost(w) \/ CreateAnswerLost(w) \/ CallFails(w) \/ Crash(w)
    \/ \E op \in Operations : Reclaim(op)
    \/ \E s \in Websites : DeadlinePasses(s)

(* Workers that are not dead go on, the cron fires every five minutes, and   *)
(* a job that is in the queue is taken by some batch.                        *)
Fairness ==
    /\ \A w \in Workers : WF_vars(WorkerStep(w))
    /\ \A op \in Operations :
          /\ WF_vars(Reclaim(op))
          /\ SF_vars(\E w \in Workers : RunBatch(w, op))

Spec == Init /\ [][Next]_vars /\ Fairness
SafetySpec == Init /\ [][Next]_vars

-----------------------------------------------------------------------------
(* A website whose removal is pending has a queue row of that removal, and   *)
(* the row is not completed: whatever workers overlap, fail late and die, no *)
(* removal drops out of the queue (finalizeRemoval, markRemovalFailed).      *)
PendingIsQueued ==
    \A s \in Websites : website[s].removalStatus = "cancellation_pending" =>
        LET row == job[website[s].operationKey]
        IN  /\ row.website = s
            /\ row.status \in {"pending", "processing", "failed"}

(* A website is reported as removed only when Stripe no longer bills the     *)
(* item its row knows: billing is undone before finalizeRemoval.             *)
RemovedIsNotBilled ==
    \A s \in Billed : website[s].removalStatus = "removed" =>
        \/ ~IsLive(s, website[s].item)
        \/ SubscriptionOf[s] \in canceled

(* Removing websites never takes the billing of one that nobody ever asked   *)
(* to remove (classifyWebsiteRemovalBilling): neither its item nor the       *)
(* subscription it shares.                                                   *)
UntouchedStaysBilled ==
    \A s \in Billed : IsListed(s) /\ website[s].item = 0 =>
        IsLive(s, 0) /\ SubscriptionOf[s] \notin canceled

(* A worker deletes its own website's item, and never the one that restoring *)
(* its own operation has created: a job that was reclaimed, finished and     *)
(* undone meanwhile cannot take back the restore (the operation key loaded   *)
(* by processWebsiteRemovalOperation, the keys of the calls to Stripe).      *)
RestoreOutlivesItsRemoval ==
    [][\A i \in items \ items' :
          \E w \in Workers : /\ At(w, "effect")
                             /\ worker[w].website = i[1]
                             /\ worker[w].operationKey # i[2]]_vars

(* Once Stripe answers again, every pending removal ends, or its job has     *)
(* used up its retries and waits for its user.                               *)
EventuallySettled ==
    \A s \in Websites :
        website[s].removalStatus = "cancellation_pending"
          ~> \/ website[s].removalStatus # "cancellation_pending"
             \/ job[website[s].operationKey].status = "failed"

=============================================================================
