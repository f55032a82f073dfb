------------------------- MODULE WebhookLeaseProofs -------------------------
(***************************************************************************)
(* What the processing lease guarantees for any number of overlapping      *)
(* deliveries, any lease duration and any clock.                           *)
(***************************************************************************)
EXTENDS WebhookLease, TLAPS

(* A delivery is about to complete only after its handler ran, and about to *)
(* acknowledge only once the row was processed.                             *)
HandledFirst ==
    /\ pc \in [Deliveries -> Steps]
    /\ row.status \in Statuses
    /\ AcknowledgedWasHandled
    /\ \A d \in Deliveries : pc[d] \in {"complete", "answer"} => handled

LEMMA HandledFirstInit == Init => HandledFirst
  BY DEF Init, HandledFirst, AcknowledgedWasHandled, Row, Steps, Statuses

(* The claim's write of the row never makes it processed. *)
LEMMA ClaimedIsProcessing == \A d : Claimed(d).status = "processing"
  BY DEF Claimed, Row

LEMMA HandledFirstStep == HandledFirst /\ [Next]_vars => HandledFirst'
<1> SUFFICES ASSUME HandledFirst, [Next]_vars PROVE HandledFirst'
  OBVIOUS
<1> USE DEF HandledFirst, AcknowledgedWasHandled, Steps, Statuses, Goto
<1>1. CASE Tick
  BY <1>1 DEF Tick
<1>2. ASSUME NEW d \in Deliveries, Deliver(d) PROVE HandledFirst'
  BY <1>2 DEF Deliver
<1>3. ASSUME NEW d \in Deliveries, CreateRow(d) PROVE HandledFirst'
  BY <1>3, ClaimedIsProcessing DEF CreateRow
<1>4. ASSUME NEW d \in Deliveries, FindRow(d) PROVE HandledFirst'
  BY <1>4 DEF FindRow, NextAfterFind
<1>5. ASSUME NEW d \in Deliveries, TakeOver(d) PROVE HandledFirst'
  BY <1>5, ClaimedIsProcessing DEF TakeOver
<1>6. ASSUME NEW d \in Deliveries, Handle(d) PROVE HandledFirst'
  BY <1>6 DEF Handle
<1>7. ASSUME NEW d \in Deliveries, HandlerFails(d) PROVE HandledFirst'
  BY <1>7 DEF HandlerFails
<1>8. ASSUME NEW d \in Deliveries, Complete(d) PROVE HandledFirst'
  BY <1>8 DEF Complete, Row
<1>9. ASSUME NEW d \in Deliveries, Release(d) PROVE HandledFirst'
  BY <1>9 DEF Release, Released, Row
<1>10. ASSUME NEW d \in Deliveries, Answer(d) PROVE HandledFirst'
  BY <1>10 DEF Answer
<1>11. ASSUME NEW d \in Deliveries, Die(d) PROVE HandledFirst'
  BY <1>11 DEF Die
<1>12. CASE UNCHANGED vars
  BY <1>12 DEF vars
<1> QED
  BY <1>1, <1>2, <1>3, <1>4, <1>5, <1>6, <1>7, <1>8, <1>9, <1>10, <1>11, <1>12
     DEF Next, Progress

(* However deliveries overlap, fail and die, an event Stripe may forget has *)
(* been handled (AcknowledgedWasHandled of claim, complete and release).    *)
THEOREM NoEventIsLost == Spec => []AcknowledgedWasHandled
<1>1. HandledFirst => AcknowledgedWasHandled
  BY DEF HandledFirst
<1> QED
  BY <1>1, HandledFirstInit, HandledFirstStep, PTL DEF Spec

LEMMA ProcessedStays ==
  ASSUME [Next]_vars, row.status = "processed"
  PROVE  row' = row
<1>1. CASE Tick
  BY <1>1 DEF Tick
<1>2. ASSUME NEW d \in Deliveries, Deliver(d) \/ HandlerFails(d) \/ Die(d)
      PROVE  row' = row
  BY <1>2 DEF Deliver, HandlerFails, Die
<1>3. ASSUME NEW d \in Deliveries, Progress(d) PROVE row' = row
  <2>1. CASE CreateRow(d) \/ FindRow(d)
    BY <2>1 DEF CreateRow, FindRow
  <2>2. CASE TakeOver(d)
    BY <2>2 DEF TakeOver, MayTakeOver
  <2>3. CASE Handle(d) \/ Answer(d)
    BY <2>3 DEF Handle, Answer
  <2>4. CASE Complete(d)
    BY <2>4 DEF Complete
  <2>5. CASE Release(d)
    BY <2>5 DEF Release, Released
  <2> QED
    BY <1>3, <2>1, <2>2, <2>3, <2>4, <2>5 DEF Progress
<1>4. CASE UNCHANGED vars
  BY <1>4 DEF vars
<1> QED
  BY <1>1, <1>2, <1>3, <1>4 DEF Next

(* No late claim, completion or release touches the row of a processed      *)
(* event: every update asks for the status it starts from.                  *)
THEOREM ProcessedForever == Spec => ProcessedIsFinal
<1>1. [Next]_vars => [row.status = "processed" => row' = row]_vars
  BY ProcessedStays
<1> QED
  BY <1>1, PTL DEF Spec, ProcessedIsFinal

(* While no lease can have run out, the row is processing for as long as a   *)
(* delivery works under it, and for that delivery alone.                     *)
Working == {d \in Deliveries : pc[d] \in {"handle", "complete", "release"}}

Sole ==
    /\ \A d, e \in Working : d = e
    /\ \A d \in Working : row.status = "processing"
    /\ row.status = "processing" => row.leaseUntil \in Int /\ row.leaseUntil >= Lease

Clock ==
    /\ pc \in [Deliveries -> Steps]
    /\ now \in Nat
    /\ startedAt \in [Deliveries -> Nat]
    /\ \A d \in Deliveries : startedAt[d] <= now

SoleHolder == Clock /\ (now < Lease => Sole)

LEMMA ClockStep == Clock /\ [Next]_vars => Clock'
<1> SUFFICES ASSUME Clock, [Next]_vars PROVE Clock'
  OBVIOUS
<1> USE DEF Clock
<1>1. CASE Tick
  BY <1>1 DEF Tick
<1>2. ASSUME NEW d \in Deliveries, Deliver(d) PROVE Clock'
  BY <1>2 DEF Deliver, Goto, Steps
<1>3. ASSUME NEW d \in Deliveries, Progress(d) \/ HandlerFails(d) \/ Die(d) PROVE Clock'
  <2>1. UNCHANGED <<now, startedAt>>
    BY <1>3 DEF Progress, CreateRow, FindRow, TakeOver, Handle, Complete, Release, Answer,
                HandlerFails, Die
  <2>2. pc' \in [Deliveries -> Steps]
    BY <1>3 DEF Progress, CreateRow, FindRow, NextAfterFind, TakeOver, Handle, Complete,
                Release, Answer, HandlerFails, Die, Goto, Steps
  <2> QED
    BY <2>1, <2>2
<1>4. CASE UNCHANGED vars
  BY <1>4 DEF vars
<1> QED
  BY <1>1, <1>2, <1>3, <1>4 DEF Next

LEMMA SoleHolderInit == Init => SoleHolder
  BY LeaseAssumption DEF Init, SoleHolder, Clock, Sole, Working, Row, Steps

(* A row that is claimed is claimed for a whole lease from now on.           *)
LEMMA ClaimLasts ==
  ASSUME Clock, NEW d \in Deliveries
  PROVE  /\ Claimed(d).status = "processing"
         /\ Claimed(d).leaseUntil \in Int /\ Claimed(d).leaseUntil >= Lease
  BY LeaseAssumption DEF Clock, Claimed, Row

LEMMA SoleHolderStep == SoleHolder /\ [Next]_vars => SoleHolder'
<1> SUFFICES ASSUME SoleHolder, [Next]_vars, now' < Lease PROVE Sole'
  BY ClockStep DEF SoleHolder
<1> USE LeaseAssumption DEF SoleHolder, Clock, Goto
<1>0. now < Lease /\ Sole
  BY DEF Next, Tick, Deliver, Progress, CreateRow, FindRow, TakeOver, Handle, Complete,
         Release, Answer, HandlerFails, Die, vars
<1> USE DEF Sole, Working
<1>1. CASE Tick \/ UNCHANGED vars
  BY <1>0, <1>1 DEF Tick, vars
<1>2. ASSUME NEW d \in Deliveries, Deliver(d) \/ Die(d) \/ Answer(d) \/ HandlerFails(d) \/ Handle(d)
      PROVE  Sole'
  BY <1>0, <1>2 DEF Deliver, Die, Answer, HandlerFails, Handle
<1>3. ASSUME NEW d \in Deliveries, CreateRow(d) PROVE Sole'
  BY <1>0, <1>3, ClaimLasts DEF CreateRow
<1>4. ASSUME NEW d \in Deliveries, FindRow(d) PROVE Sole'
  BY <1>0, <1>4 DEF FindRow, NextAfterFind
<1>5. ASSUME NEW d \in Deliveries, TakeOver(d) PROVE Sole'
  <2>1. CASE MayTakeOver(d)
    <3>1. row.status = "failed"
      BY <1>0, <2>1 DEF MayTakeOver
    <3> QED
      BY <1>0, <1>5, <2>1, <3>1, ClaimLasts DEF TakeOver
  <2>2. CASE ~MayTakeOver(d)
    BY <1>0, <1>5, <2>2 DEF TakeOver
  <2> QED
    BY <2>1, <2>2
<1>6. ASSUME NEW d \in Deliveries, Complete(d) PROVE Sole'
  BY <1>0, <1>6 DEF Complete, Row
<1>7. ASSUME NEW d \in Deliveries, Release(d) PROVE Sole'
  BY <1>0, <1>7 DEF Release, Released, Row
<1> QED
  BY <1>1, <1>2, <1>3, <1>4, <1>5, <1>6, <1>7 DEF Next, Progress

(* Until a lease's time has passed, at most one delivery runs the handlers   *)
(* of the event, whatever fails, dies and is delivered again.                *)
THEOREM HandlersTakeTurns == Spec => []OneHandlerPerLease
<1>1. SoleHolder => OneHandlerPerLease
  BY DEF SoleHolder, Sole, Working, OneHandlerPerLease, Handlers
<1> QED
  BY <1>1, SoleHolderInit, SoleHolderStep, PTL DEF Spec
=============================================================================
