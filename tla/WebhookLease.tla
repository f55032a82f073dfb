---------------------------- MODULE WebhookLease ----------------------------
(***************************************************************************)
(* The processing lease of one Stripe event: deliveries of the event claim *)
(* its row (claimStripeWebhookEvent), run the handler, and complete the    *)
(* row or release it as failed.  A delivery may die at any step, a handler *)
(* may outlive its lease, and Stripe delivers again until it is answered   *)
(* with success.                                                           *)
(*                                                                         *)
(* The webhooks of recorded calls claim, complete and release their events *)
(* with the same statements (command/call-webhook-safety.ts).              *)
(*                                                                         *)
(* Neither completion nor release names the claim it belongs to: both only *)
(* ask for a row that is still processing.                                 *)
(***************************************************************************)
EXTENDS Integers

CONSTANTS
    Deliveries,     \* deliveries of the event that can be in flight together
    Lease,          \* duration of a lease
    LastTrouble,    \* bound: failures, deaths and overlapping attempts end here
    LastTime        \* bound: the clock stops here

ASSUME LeaseAssumption ==
    /\ Lease \in Nat \ {0}
    /\ LastTrouble \in Nat
    /\ LastTime \in Nat

VARIABLES
    now,            \* the clock
    row,            \* the event's StripeWebhookEvent row
    pc,             \* what each delivery is doing
    startedAt,      \* the "now" its claim works with
    handled,        \* a handler of the event has run to its end
    acknowledged    \* Stripe has been answered 200 and delivers no more

vars == <<now, row, pc, startedAt, handled, acknowledged>>

NoLease == -1
Row(status, leaseUntil) == [status |-> status, leaseUntil |-> leaseUntil]

Steps == {"idle", "create", "find", "takeover", "handle", "complete", "release",
          "answer"}
Statuses == {"none", "processing", "failed", "processed"}

Init ==
    /\ now = 0
    /\ row = Row("none", NoLease)
    /\ pc = [d \in Deliveries |-> "idle"]
    /\ startedAt = [d \in Deliveries |-> 0]
    /\ handled = FALSE
    /\ acknowledged = FALSE

Goto(d, step) == pc' = [pc EXCEPT ![d] = step]

Tick ==
    /\ now < LastTime
    /\ now' = now + 1
    /\ UNCHANGED <<row, pc, startedAt, handled, acknowledged>>

(* Stripe backs off: late attempts of one event do not overlap any more.    *)
BackedOff == now > LastTrouble => \A d \in Deliveries : pc[d] = "idle"

Deliver(d) ==
    /\ pc[d] = "idle"
    /\ ~acknowledged
    /\ BackedOff
    /\ Goto(d, "create")
    /\ startedAt' = [startedAt EXCEPT ![d] = now]
    /\ UNCHANGED <<now, row, handled, acknowledged>>

(* The row the claim writes, whether it creates it or takes it over. *)
Claimed(d) == Row("processing", startedAt[d] + Lease)

(* store.create: the first delivery gets the row, the others P2002. *)
CreateRow(d) ==
    /\ pc[d] = "create"
    /\ \/ /\ row.status = "none"
          /\ row' = Claimed(d)
          /\ Goto(d, "handle")
       \/ /\ row.status # "none"
          /\ UNCHANGED row
          /\ Goto(d, "find")
    /\ UNCHANGED <<now, startedAt, handled, acknowledged>>

(* Variant for mutation: a live lease is answered like a duplicate. *)
NextAfterFindAcknowledging(d) ==
    CASE row.status = "processed" -> "answer"
      [] row.status = "processing" /\ row.leaseUntil > startedAt[d] -> "answer"
      [] OTHER -> "takeover"

(* store.findUnique: 200 for a processed event, 503 under a live lease. *)
NextAfterFind(d) ==
    CASE row.status = "processed" -> "answer"
      [] row.status = "processing" /\ row.leaseUntil > startedAt[d] -> "idle"
      [] OTHER -> "takeover"

FindRow(d) ==
    /\ pc[d] = "find"
    /\ Goto(d, NextAfterFind(d))
    /\ UNCHANGED <<now, row, startedAt, handled, acknowledged>>

(* Variants for mutation: the row is taken over by its id alone; only a     *)
(* failed row is taken over.                                                *)
MayTakeOverAny(d) == TRUE
MayTakeOverFailed(d) == row.status = "failed"

MayTakeOver(d) ==
    \/ row.status = "failed"
    \/ row.status = "processing" /\ row.leaseUntil <= startedAt[d]

(* The conditional updateMany; a count of 0 is answered 503. *)
TakeOver(d) ==
    /\ pc[d] = "takeover"
    /\ \/ /\ MayTakeOver(d)
          /\ row' = Claimed(d)
          /\ Goto(d, "handle")
       \/ /\ ~MayTakeOver(d)
          /\ UNCHANGED row
          /\ Goto(d, "idle")
    /\ UNCHANGED <<now, startedAt, handled, acknowledged>>

(* What the handler of the event's type does is one step: its end is what    *)
(* the row and the answer wait for.                                          *)
Handle(d) ==
    /\ pc[d] = "handle"
    /\ handled' = TRUE
    /\ Goto(d, "complete")
    /\ UNCHANGED <<now, row, startedAt, acknowledged>>

(* The handler throws, or its completion cannot be written. *)
HandlerFails(d) ==
    /\ pc[d] \in {"handle", "complete"}
    /\ now <= LastTrouble
    /\ Goto(d, "release")
    /\ UNCHANGED <<now, row, startedAt, handled, acknowledged>>

(* completeStripeWebhookEvent; when it changes no row the handler throws. *)
Complete(d) ==
    /\ pc[d] = "complete"
    /\ \/ /\ row.status = "processing"
          /\ row' = Row("processed", NoLease)
          /\ Goto(d, "answer")
       \/ /\ row.status # "processing"
          /\ UNCHANGED row
          /\ Goto(d, "release")
    /\ UNCHANGED <<now, startedAt, handled, acknowledged>>

Released == IF row.status = "processing" THEN Row("failed", NoLease) ELSE row

(* releaseFailedStripeWebhookEvent, answered 500. *)
Release(d) ==
    /\ pc[d] = "release"
    /\ row' = Released
    /\ Goto(d, "idle")
    /\ UNCHANGED <<now, startedAt, handled, acknowledged>>

Answer(d) ==
    /\ pc[d] = "answer"
    /\ acknowledged' = TRUE
    /\ Goto(d, "idle")
    /\ UNCHANGED <<now, row, startedAt, handled>>

(* The process dies, or the answer is lost. *)
Die(d) ==
    /\ pc[d] # "idle"
    /\ now <= LastTrouble
    /\ Goto(d, "idle")
    /\ UNCHANGED <<now, row, startedAt, handled, acknowledged>>

Progress(d) ==
    \/ CreateRow(d)
    \/ FindRow(d)
    \/ TakeOver(d)
    \/ Handle(d)
    \/ Complete(d)
    \/ Release(d)
    \/ Answer(d)

Next ==
    \/ Tick
    \/ \E d \in Deliveries : Deliver(d) \/ Progress(d) \/ HandlerFails(d) \/ Die(d)

(* Stripe keeps delivering what was not acknowledged, a request that does   *)
(* not die goes on, and time passes.                                        *)
Fairness ==
    /\ WF_vars(Tick)
    /\ WF_vars(\E d \in Deliveries : Deliver(d))
    /\ \A d \in Deliveries : WF_vars(Progress(d))

Spec == Init /\ [][Next]_vars /\ Fairness

---------------------------------------------------------------------------
(* Properties *)

TypeOK ==
    /\ now \in Nat
    /\ row \in [status : Statuses, leaseUntil : Int]
    /\ pc \in [Deliveries -> Steps]
    /\ startedAt \in [Deliveries -> Nat]
    /\ handled \in BOOLEAN
    /\ acknowledged \in BOOLEAN

(* Stripe is told to stop delivering only once some delivery has run the    *)
(* handler to its end: no overlap of claims, expiries, failures and deaths  *)
(* loses the event.                                                         *)
AcknowledgedWasHandled == acknowledged \/ row.status = "processed" => handled

(* Handlers of the event run side by side only once a lease's time has       *)
(* passed: until then failures, deaths and repeated deliveries hand the row  *)
(* from one handler to the next (claim and release).                         *)
Handlers == {d \in Deliveries : pc[d] \in {"handle", "complete"}}

OneHandlerPerLease ==
    now < Lease => \A d, e \in Handlers : d = e

(* A processed event is never claimed, failed or processed again, whatever  *)
(* late delivery still holds an older view of its row.                      *)
ProcessedIsFinal ==
    [][row.status = "processed" => row' = row]_vars

(* Every event is handled and acknowledged in the end: no death leaves its  *)
(* row in a status that no later delivery can take over.                    *)
EventuallyAcknowledged == <>acknowledged
=============================================================================
