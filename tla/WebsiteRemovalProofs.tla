------------------------ MODULE WebsiteRemovalProofs ------------------------
(***************************************************************************)
(* What removing and restoring websites guarantees for any number of       *)
(* websites, shared subscriptions, overlapping workers, failures and       *)
(* crashes.                                                                *)
(***************************************************************************)
EXTENDS WebsiteRemoval, FiniteSetTheorems, TLAPS

USE RemovalAssumption

(* The steps at which a worker acts on behalf of an operation it took over  *)
(* from the queue, and those at which it knows the website's item.          *)
JobSteps == {"process", "load", "inspect", "siblings", "decide", "effect",
             "finalize", "fail", "mark"}
BillingSteps == {"inspect", "siblings", "decide", "effect", "finalize"}

(* Every worker that is not idle works on a website; the one about to claim *)
(* has counted its website.                                                 *)
WellFormed(r) ==
    /\ r \in Worker
    /\ r.pc # "idle" => r.website \in Websites
    /\ r.pc = "claim" => r.count > 0
    /\ r.pc \in JobSteps \union {"claim"} => r.operationKey \in Operations
    /\ r.pc \in {"siblings", "decide", "effect"} => r.website \in Billed
    /\ r.pc = "createItem" => r.item \in Operations

WorkersTyped ==
    /\ worker \in [Workers -> Worker]
    /\ \A w \in Workers : WellFormed(worker[w])

RowsTyped ==
    /\ job \in [Operations -> Job]
    /\ \A op \in Operations : job[op].status # "no row" => job[op].website \in Websites

KeysTyped ==
    /\ website \in [Websites -> Website]
    /\ \A s \in Websites : website[s].removalStatus # "active"
                             => website[s].operationKey \in Operations

RestTyped ==
    /\ issued \in 0..MaxOperations
    /\ items \subseteq Websites \X ItemIds
    /\ canceled \subseteq Subscriptions
    /\ restoredBy \subseteq Operations
    /\ anchor \in Subscriptions \union {NoSubscription}
    /\ websiteCount \in 0..Cardinality(Websites)
    /\ troubles \in 0..MaxTroubles

Typing == WorkersTyped /\ RowsTyped /\ KeysTyped /\ RestTyped

LEMMA CardinalityOfSome ==
  ASSUME NEW S, S \subseteq Websites
  PROVE  /\ Cardinality(S) \in 0..Cardinality(Websites)
         /\ \A s \in S : Cardinality(S) > 0
<1>1. IsFiniteSet(S) /\ Cardinality(S) <= Cardinality(Websites)
  BY FS_Subset
<1>2. Cardinality(S) \in Nat /\ Cardinality(Websites) \in Nat
  BY <1>1, FS_CardinalityType
<1>3. (Cardinality(S) = 0) <=> (S = {})
  BY <1>1, FS_EmptySet
<1> QED
  BY <1>1, <1>2, <1>3

LEMMA IdleFields == NothingSeen \in Inspection /\ 0 \in 0..MaxRetries
  BY DEF NothingSeen, Inspection

LEMMA TypingInit == Init => Typing
<1> SUFFICES ASSUME Init PROVE Typing
  OBVIOUS
<1> USE DEF Init
<1>0. job = [op \in Operations |-> NoJob]
  OBVIOUS
<1>1. website \in [Websites -> Website]
  BY DEF Website, BillingActions, ItemIds
<1>2. job \in [Operations -> Job]
  <2>1. NoJob \in Job
    <3>1. 0 \in 0..MaxRetries
      OBVIOUS
    <3> QED
      BY <3>1 DEF Job, NoJob
  <2> HIDE DEF Init
  <2> QED
    BY <1>0, <2>1
<1>3. items \subseteq Websites \X ItemIds
  BY DEF Billed, ItemIds
<1>4. anchor \in Subscriptions \union {NoSubscription}
  OBVIOUS
<1>5. websiteCount \in 0..Cardinality(Websites)
  BY CardinalityOfSome
<1>6. worker \in [Workers -> Worker]
  BY CardinalityOfSome, IdleFields DEF Worker, Idle, ItemIds, BillingActions, NoWebsite
<1>7. issued \in 0..MaxOperations /\ troubles \in 0..MaxTroubles
  OBVIOUS
<1>8. /\ \A w \in Workers : worker[w].pc = "idle"
      /\ \A op \in Operations : job[op].status = "no row"
      /\ \A s \in Websites : website[s].removalStatus = "active"
  <2>1. \A w \in Workers : worker[w].pc = "idle"
    BY DEF Idle
  <2>2. \A op \in Operations : job[op].status = "no row"
    <3> HIDE DEF Init
    <3> QED
      BY <1>0 DEF NoJob
  <2>3. \A s \in Websites : website[s].removalStatus = "active"
    OBVIOUS
  <2> QED
    BY <2>1, <2>2, <2>3
<1>9. RestTyped
  BY <1>3, <1>4, <1>5, <1>7 DEF RestTyped
<1> QED
  BY <1>1, <1>2, <1>6, <1>8, <1>9
     DEF Typing, WorkersTyped, WellFormed, RowsTyped, KeysTyped, JobSteps

(* An action that moves one worker has to show that its record is well      *)
(* formed.                                                                  *)
LEMMA WorkerMoves ==
  ASSUME Typing, NEW w \in Workers, NEW r, WellFormed(r),
         worker' = [worker EXCEPT ![w] = r]
  PROVE  WorkersTyped'
  BY DEF WorkersTyped, Typing, WellFormed

LEMMA IdleTyped == Idle \in Worker /\ WellFormed(Idle)
  BY CardinalityOfSome, IdleFields
     DEF Worker, Idle, ItemIds, BillingActions, NoWebsite, WellFormed, JobSteps

LEMMA DoneTyped ==
  ASSUME Typing, NEW w \in Workers, Done(w)
  PROVE  WorkersTyped'
  BY WorkerMoves, IdleTyped DEF Done

LEMMA GoToTyped ==
  ASSUME Typing, NEW w \in Workers, worker[w].pc # "idle",
         NEW pc \in {"load", "finalize", "fail", "count", "restore"},
         GoTo(w, pc),
         pc \in JobSteps => worker[w].operationKey \in Operations
  PROVE  WorkersTyped'
<1> DEFINE r == [worker[w] EXCEPT !.pc = pc]
<1>1. worker[w] \in Worker /\ worker[w].website \in Websites
  BY DEF WorkersTyped, Typing, WellFormed
<1>2. r \in Worker /\ r.pc = pc /\ r.website = worker[w].website
      /\ r.operationKey = worker[w].operationKey
  BY <1>1 DEF Worker
<1>3. worker' = [worker EXCEPT ![w] = r]
  BY DEF GoTo, WorkersTyped, Typing
<1>4. pc \notin {"claim", "idle", "siblings", "decide", "effect", "createItem"}
  OBVIOUS
<1> HIDE DEF r
<1>5. WellFormed(r)
  BY <1>1, <1>2, <1>4 DEF WellFormed
<1> QED
  BY <1>3, <1>5, WorkerMoves

LEMMA ProcessTyped ==
  ASSUME Typing, NEW w \in Workers, NEW s \in Websites, NEW op \in Operations,
         Process(w, s, op)
  PROVE  WorkersTyped'
<1> DEFINE r == [Idle EXCEPT !.pc = "process", !.website = s, !.operationKey = op]
<1>1. op \in ItemIds
  BY DEF Operations, ItemIds
<1>2. r \in Worker /\ r.pc = "process" /\ r.website = s /\ r.operationKey = op
  BY <1>1, IdleTyped DEF Idle, Worker
<1>3. worker' = [worker EXCEPT ![w] = r]
  BY DEF Process
<1> HIDE DEF r
<1>4. WellFormed(r)
  BY <1>2 DEF WellFormed
<1> QED
  BY <1>3, <1>4, WorkerMoves

LEMMA RowTyped == ASSUME Typing, NEW s \in Websites PROVE website[s] \in Website
  BY DEF Typing, KeysTyped

LEMMA WorkerTyped ==
  ASSUME Typing, NEW w \in Workers
  PROVE  /\ worker[w] \in Worker
         /\ worker[w].pc # "idle" => worker[w].website \in Websites
         /\ worker[w].pc \in JobSteps \union {"claim"} => worker[w].operationKey \in Operations
         /\ worker[w].pc = "claim" => worker[w].count > 0
         /\ worker[w].pc \in {"siblings", "decide", "effect"}
              => worker[w].website \in Billed
         /\ worker[w].pc = "createItem" => worker[w].item \in Operations
  BY DEF Typing, WorkersTyped, WellFormed

LEMMA KeysAreOperations == \A k \in ItemIds : k # 0 => k \in Operations
  BY DEF ItemIds, Operations

LEMMA OperationsTyped ==
  /\ Operations \subseteq ItemIds
  /\ 0 \notin Operations
  /\ \A op \in Operations : op \in Nat
  BY DEF Operations, ItemIds

LEMMA TypingParts ==
  Typing <=> /\ WorkersTyped /\ RowsTyped /\ KeysTyped
             /\ issued \in 0..MaxOperations
             /\ items \subseteq Websites \X ItemIds
             /\ canceled \subseteq Subscriptions
             /\ restoredBy \subseteq Operations
             /\ anchor \in Subscriptions \union {NoSubscription}
             /\ websiteCount \in 0..Cardinality(Websites)
             /\ troubles \in 0..MaxTroubles
  BY DEF Typing, RestTyped

LEMMA TypingIsEnough == Typing => TypeOK
  BY DEF Typing, RestTyped, WorkersTyped, WellFormed, RowsTyped, KeysTyped, TypeOK

(* A write of one website, of one queue row.                                *)
LEMMA WebsiteWritten ==
  ASSUME Typing, NEW s \in Websites, NEW r \in Website,
         website' = [website EXCEPT ![s] = r],
         r.removalStatus # "active" => r.operationKey \in Operations
  PROVE  KeysTyped'
  BY DEF Typing, KeysTyped

LEMMA JobWritten ==
  ASSUME Typing, NEW op \in Operations, NEW r \in Job,
         job' = [job EXCEPT ![op] = r],
         r.status # "no row" => r.website \in Websites
  PROVE  RowsTyped'
  BY DEF Typing, RowsTyped

LEMMA StatusWritten ==
  ASSUME Typing, NEW op \in Operations,
         job[op].status # "no row",
         NEW st \in {"pending", "processing", "completed", "failed"},
         job' = [job EXCEPT ![op].status = st]
  PROVE  RowsTyped'
<1>1. job[op] \in Job /\ job[op].website \in Websites
  BY DEF Typing, RowsTyped
<1>2. /\ [job[op] EXCEPT !.status = st] \in Job
      /\ [job[op] EXCEPT !.status = st].website = job[op].website
  BY <1>1 DEF Job
<1> QED
  BY <1>1, <1>2, JobWritten

LEMMA EarliestIsMember ==
  ASSUME NEW S, S \subseteq Websites, S # {}
  PROVE  Earliest(S) \in S
<1> DEFINE R == {p \in Nat \X Nat : p[1] < p[2]}
<1>0. IsWellFoundedOn(R, Nat)
  BY NatLessThanWellFounded DEF OpToRel
<1>1. PICK s \in S : \A t \in S : <<t, s>> \notin R
  <2> HIDE DEF R
  <2>1. S \subseteq Nat
    OBVIOUS
  <2> QED
    BY <1>0, <2>1, WFMin, Zenon
<1>2. ASSUME NEW t \in S PROVE s <= t
  <2>1. s \in Nat /\ t \in Nat
    OBVIOUS
  <2>2. t < s => <<t, s>> \in R
    BY <2>1
  <2>3. ~(t < s)
    BY <1>1, <2>2
  <2> QED
    BY <2>1, <2>3
<1>3. \E x \in S : \A t \in S : x <= t
  BY <1>2
<1> QED
  BY <1>3, Zenon DEF Earliest

LEMMA ReplacementIsCandidate ==
  ASSUME Typing, NEW s \in Websites, HasReplacement(s)
  PROVE  SelectReplacement(Listed \ {s}) \in Websites
<1> DEFINE eligible == (Listed \ {s}) \intersect Switchable
<1>1. eligible # {} /\ eligible \subseteq Websites
  BY DEF HasReplacement, Listed
<1>2. Earliest(eligible) \in eligible
  BY <1>1, EarliestIsMember
<1>3. ASSUME eligible \intersect Primaries # {}
      PROVE  Earliest(eligible \intersect Primaries) \in eligible
  BY <1>1, <1>3, EarliestIsMember
<1> QED
  BY <1>1, <1>2, <1>3 DEF SelectReplacement

LEMMA SurvivorTyped ==
  ASSUME Typing, NEW s \in Websites
  PROVE  Survivor(s) \in Subscriptions \union {NoSubscription}
<1> DEFINE paid == (Listed \ {s}) \intersect Billed
<1>1. paid \subseteq Websites
  BY DEF Listed
<1>2. paid # {} => Earliest(paid) \in Websites
  BY <1>1, EarliestIsMember
<1>3. paid \intersect Primaries # {} => Earliest(paid \intersect Primaries) \in Websites
  BY <1>1, EarliestIsMember
<1> QED
  BY <1>2, <1>3 DEF Survivor

LEMMA ZeroRetries == 0 \in 0..MaxRetries
  OBVIOUS

LEMMA ClaimedTyped ==
  ASSUME Typing, NEW s \in Websites, NEW op \in Operations, NEW replacement, NEW handOver,
         website' = Claimed(s, op, replacement, handOver)
  PROVE  KeysTyped'
<1>1. ASSUME NEW t \in Websites
      PROVE  /\ website'[t] \in Website
             /\ website'[t].removalStatus # "active" => website'[t].operationKey \in Operations
  <2>1. website[t] \in Website
        /\ (website[t].removalStatus # "active" => website[t].operationKey \in Operations)
    BY TypingParts DEF KeysTyped
  <2> QED
    BY <2>1, OperationsTyped DEF Claimed, Website, BillingActions
<1> QED
  BY <1>1 DEF KeysTyped, Claimed

LEMMA ActionsTyped ==
  ASSUME NEW s, NEW item, NEW recorded, NEW seen
  PROVE  /\ ActionFor(s, item, recorded, seen) \in BillingActions \ {"none"}
         /\ \A action \in BillingActions :
               ActionAfterCancellation(action, seen) \in BillingActions
  BY DEF ActionFor, ClassifyRemoval, ActionAfterCancellation, BillingActions

LEMMA ConfirmedTyped ==
  ASSUME Typing, NEW w \in Workers, worker[w].pc \in {"inspect", "decide", "effect"},
         NEW action \in BillingActions, NEW target \in {"subscription", "item"},
         Confirmed(w, action, target)
  PROVE  WorkersTyped'
<1> DEFINE r == [worker[w] EXCEPT !.pc = "finalize", !.action = action,
                                  !.target = target, !.seen = NothingSeen]
<1>1. worker[w] \in Worker /\ worker[w].website \in Websites
      /\ worker[w].operationKey \in Operations
  BY WorkerTyped DEF JobSteps
<1>2. WellFormed(r)
  BY <1>1, IdleFields DEF Worker, WellFormed
<1>3. worker' = [worker EXCEPT ![w] = r]
  BY TypingParts DEF Confirmed, WorkersTyped
<1> HIDE DEF r
<1> QED
  BY <1>2, <1>3, WorkerMoves

LEMMA RecordTyped ==
  ASSUME Typing, NEW s \in Websites, NEW op, NEW action \in BillingActions,
         Record(s, op, action)
  PROVE  KeysTyped'
<1> DEFINE r == [website[s] EXCEPT !.billingAction = action]
<1>1. website[s] \in Website
      /\ (website[s].removalStatus # "active" => website[s].operationKey \in Operations)
  BY TypingParts DEF KeysTyped
<1>2. r \in Website /\ r.operationKey = website[s].operationKey
      /\ r.removalStatus = website[s].removalStatus
  BY <1>1 DEF Website
<1>3. CASE website' = website
  BY <1>3, TypingParts DEF KeysTyped
<1>4. CASE website' = [website EXCEPT ![s] = r]
  <2> HIDE DEF r
  <2> QED
    BY <1>1, <1>2, <1>4, WebsiteWritten
<1> QED
  BY <1>3, <1>4, TypingParts DEF Record, KeysTyped

LEMMA RecoveredTyped ==
  ASSUME Typing, NEW s \in Websites, NEW active \in BOOLEAN, NEW primary \in BOOLEAN,
         NEW item \in ItemIds, website' = Recovered(s, active, primary, item)
  PROVE  KeysTyped'
<1> DEFINE r == [isActive |-> active, isPrimary |-> primary, removalStatus |-> "active",
                 billingAction |-> "none", operationKey |-> 0, item |-> item,
                 recoverable |-> FALSE]
<1>1. r \in Website /\ r.removalStatus = "active"
  BY DEF Website, BillingActions, ItemIds
<1>2. website' = [website EXCEPT ![s] = r]
  BY DEF Recovered
<1> HIDE DEF r
<1> QED
  BY <1>1, <1>2, WebsiteWritten

(* Every operation a worker processes, and every one a website is being or  *)
(* was removed by, has a row of that website in the queue; the operation a  *)
(* worker is about to claim has none yet, and is its own.                   *)
HasRow(op, s) == job[op].status # "no row" /\ job[op].website = s

WorkersQueued ==
    \A w \in Workers : worker[w].pc # "claim" /\ worker[w].operationKey # 0 =>
        HasRow(worker[w].operationKey, worker[w].website)

ClaimsFresh ==
    /\ \A w \in Workers : worker[w].pc = "claim" =>
          /\ worker[w].operationKey <= issued
          /\ job[worker[w].operationKey].status = "no row"
    /\ \A w, v \in Workers :
          worker[w].pc = "claim" /\ worker[v].pc = "claim" /\ v # w
            => worker[v].operationKey # worker[w].operationKey
    /\ \A op \in Operations : op > issued => job[op].status = "no row"

KeysQueued ==
    \A s \in Websites : website[s].operationKey # 0 =>
        HasRow(website[s].operationKey, s)

Queue == WorkersQueued /\ ClaimsFresh /\ KeysQueued

LEMMA TypingStep == Typing /\ Queue /\ [Next]_vars => Typing'
<1> SUFFICES ASSUME Typing, Queue, [Next]_vars PROVE Typing'
  OBVIOUS
<1> USE DEF stripe
<1>1. ASSUME NEW w \in Workers, NEW s \in Websites, RequestRemoval(w, s) PROVE Typing'
  <2> DEFINE r == [Idle EXCEPT !.pc = "select", !.website = s,
                               !.handOver = website[s].isPrimary]
  <2>1. website[s].isPrimary \in BOOLEAN
    BY RowTyped DEF Website
  <2>2. r \in Worker /\ r.pc = "select" /\ r.website = s
    BY <2>1, IdleTyped DEF Idle, Worker
  <2>3. WorkersTyped'
    <3> HIDE DEF r
    <3>1. worker' = [worker EXCEPT ![w] = r]
      BY <1>1 DEF RequestRemoval, r
    <3>2. WellFormed(r)
      BY <2>2 DEF WellFormed, JobSteps
    <3> QED
      BY <3>1, <3>2, WorkerMoves
  <2> QED
    BY <1>1, <2>3, TypingParts DEF Typing, RestTyped, RequestRemoval, RowsTyped, KeysTyped
<1>24. ASSUME NEW w \in Workers, PickReplacement(w) PROVE Typing'
  <2> DEFINE me == worker[w]
             replacement == SelectReplacement(Listed \ {me.website})
             handOver == me.handOver \/ ~website[replacement].isPrimary
             count == Cardinality(Listed)
             r == [me EXCEPT !.pc = "claim", !.operationKey = issued + 1,
                             !.replacement = replacement,
                             !.handOver = handOver, !.count = count]
  <2>1. me \in Worker /\ me.pc = "select" /\ me.website \in Websites
    BY <1>24, WorkerTyped DEF PickReplacement, At
  <2>2. replacement \in Websites
    BY <1>24, <2>1, ReplacementIsCandidate DEF PickReplacement
  <2>3. issued + 1 \in Operations
    BY <1>24, TypingParts DEF PickReplacement, Operations
  <2>4. count \in 0..Cardinality(Websites) /\ count > 0
    <3>1. Listed \subseteq Websites /\ Listed # {}
      BY <1>24 DEF PickReplacement, HasReplacement, Listed
    <3> QED
      BY <3>1, CardinalityOfSome
  <2>5. handOver \in BOOLEAN
    OBVIOUS
  <2>6. worker' = [worker EXCEPT ![w] = r]
    BY <1>24, TypingParts DEF PickReplacement, WorkersTyped
  <2>7. WorkersTyped'
    <3> HIDE DEF replacement, handOver, count, me
    <3>1. WellFormed(r)
      BY <2>1, <2>2, <2>3, <2>4, <2>5, OperationsTyped DEF WellFormed, Worker
    <3> HIDE DEF r
    <3> QED
      BY <2>6, <3>1, WorkerMoves
  <2>8. issued' \in 0..MaxOperations
    BY <1>24, TypingParts DEF PickReplacement
  <2>9. UNCHANGED <<website, job, items, canceled, restoredBy, anchor, websiteCount, troubles>>
    BY <1>24 DEF PickReplacement
  <2> QED
    BY <2>7, <2>8, <2>9, TypingParts DEF Typing, RestTyped, RowsTyped, KeysTyped
<1>2. ASSUME NEW w \in Workers, Claim(w) PROVE Typing'
  <2> DEFINE me == worker[w]
             r == [website |-> me.website, status |-> "pending", retryCount |-> 0]
  <2>1. /\ me \in Worker /\ me.website \in Websites /\ me.operationKey \in Operations
        /\ me.count > 0 /\ me.pc = "claim"
    BY <1>2, WorkerTyped DEF Claim, At
  <2>2. WorkersTyped'
    BY <1>2, <2>1, ProcessTyped DEF Claim
  <2>3. r \in Job /\ r.website = me.website
    BY <2>1, ZeroRetries DEF Job
  <2>4. RowsTyped'
    BY <1>2, <2>1, <2>3, JobWritten DEF Claim
  <2>5. KeysTyped'
    BY <1>2, <2>1, ClaimedTyped DEF Claim
  <2>6. websiteCount' \in 0..Cardinality(Websites)
    <3>1. Cardinality(Websites) \in Nat
      BY FS_CardinalityType
    <3>2. me.count \in 0..Cardinality(Websites)
      BY <2>1 DEF Worker
    <3>3. websiteCount' = me.count - 1
      BY <1>2 DEF Claim
    <3> QED
      BY <2>1, <3>1, <3>2, <3>3
  <2>7. UNCHANGED <<issued, items, canceled, restoredBy, anchor, troubles>>
    BY <1>2 DEF Claim
  <2> QED
    BY <2>2, <2>4, <2>5, <2>6, <2>7, TypingParts DEF Typing, RestTyped
<1>3. ASSUME NEW w \in Workers,
             LastWebsite(w) \/ ClaimLost(w) \/ JobTaken(w) \/ NothingToRestoreInto(w)
      PROVE  Typing'
  <2>1. WorkersTyped' /\ UNCHANGED <<website, job, issued, items, canceled, restoredBy,
                                     anchor, websiteCount, troubles>>
    BY <1>3, DoneTyped DEF LastWebsite, ClaimLost, JobTaken, NothingToRestoreInto
  <2> QED
    BY <2>1, TypingParts DEF Typing, RestTyped, RowsTyped, KeysTyped
<1>4. ASSUME NEW w \in Workers, NEW s \in Websites, Retry(w, s) PROVE Typing'
  <2> DEFINE op == website[s].operationKey
             row == [job[op] EXCEPT !.status = "pending", !.retryCount = 0]
  <2>1. op \in Operations /\ job[op].status # "no row"
    BY <1>4, TypingParts DEF Retry, KeysTyped
  <2>2. job[op] \in Job /\ job[op].website \in Websites
    BY <2>1, TypingParts DEF RowsTyped
  <2>3. row \in Job /\ row.website = job[op].website
    BY <2>2, ZeroRetries DEF Job
  <2>4. Process(w, s, op) /\ job' = [job EXCEPT ![op] = row]
        /\ UNCHANGED <<website, issued, items, canceled, restoredBy, anchor,
                       websiteCount, troubles>>
    BY <1>4, <2>1, TypingParts DEF Retry, RowsTyped
  <2> HIDE DEF row, op
  <2>5. WorkersTyped'
    BY <2>1, <2>4, ProcessTyped
  <2>6. RowsTyped'
    BY <2>1, <2>2, <2>3, <2>4, JobWritten
  <2> QED
    BY <2>4, <2>5, <2>6, TypingParts DEF Typing, RestTyped, KeysTyped
<1>5. ASSUME NEW op \in Operations, Reclaim(op) PROVE Typing'
  <2>1. RowsTyped'
    BY <1>5, StatusWritten DEF Reclaim
  <2>2. troubles' \in 0..MaxTroubles
    BY <1>5, TypingParts DEF Reclaim, Trouble
  <2>3. UNCHANGED <<website, issued, items, canceled, restoredBy, anchor,
                    websiteCount, worker>>
    BY <1>5 DEF Reclaim
  <2> QED
    BY <2>1, <2>2, <2>3, TypingParts DEF Typing, RestTyped, WorkersTyped, KeysTyped
<1>6. ASSUME NEW w \in Workers, NEW op \in Operations, RunBatch(w, op) PROVE Typing'
  <2>1. job[op].website \in Websites
    BY <1>6, TypingParts DEF RunBatch, RowsTyped
  <2>2. WorkersTyped'
    BY <1>6, <2>1, ProcessTyped DEF RunBatch
  <2> QED
    BY <1>6, <2>2, TypingParts DEF Typing, RestTyped, RunBatch, RowsTyped, KeysTyped
<1>7. ASSUME NEW w \in Workers, TakeJob(w) PROVE Typing'
  <2> DEFINE op == worker[w].operationKey
  <2>1. op \in Operations /\ worker[w].pc = "process"
    BY <1>7, WorkerTyped DEF TakeJob, At, JobSteps
  <2>2. WorkersTyped'
    BY <1>7, <2>1, GoToTyped DEF TakeJob
  <2>3. job[op].status # "no row" /\ job' = [job EXCEPT ![op].status = "processing"]
        /\ UNCHANGED <<website, issued, items, canceled, restoredBy, anchor,
                       websiteCount, troubles>>
    BY <1>7 DEF TakeJob
  <2>4. RowsTyped'
    BY <2>1, <2>3, StatusWritten
  <2> QED
    BY <2>2, <2>3, <2>4, TypingParts DEF Typing, RestTyped, KeysTyped
<1>8. ASSUME NEW w \in Workers, Load(w) PROVE Typing'
  <2> DEFINE op == worker[w].operationKey
             s == worker[w].website
             r == [worker[w] EXCEPT !.pc = "inspect", !.item = website[s].item,
                                    !.action = website[s].billingAction]
  <2>1. op \in Operations /\ worker[w] \in Worker /\ s \in Websites /\ worker[w].pc = "load"
    BY <1>8, WorkerTyped DEF Load, At, JobSteps
  <2>2. job[op].status # "no row"
    BY <2>1, OperationsTyped DEF Queue, WorkersQueued, HasRow
  <2>3. website[s] \in Website
    BY <2>1, RowTyped
  <2>4. r \in Worker /\ r.pc = "inspect" /\ r.website = s /\ r.operationKey = op
    BY <2>1, <2>3 DEF Worker, Website
  <2>5. UNCHANGED <<website, issued, items, canceled, restoredBy, anchor,
                    websiteCount, troubles>>
    BY <1>8 DEF Load
  <2>6. WorkersTyped' /\ RowsTyped'
    <3>1. CASE Done(w) /\ UNCHANGED job
      BY <3>1, DoneTyped, TypingParts DEF RowsTyped
    <3>2. CASE job' = [job EXCEPT ![op].status = "completed"] /\ Done(w)
      BY <2>1, <2>2, <3>2, DoneTyped, StatusWritten
    <3>3. CASE /\ worker' = [worker EXCEPT ![w].pc = "inspect",
                                           ![w].item = website[s].item,
                                           ![w].action = website[s].billingAction]
               /\ UNCHANGED job
      <4>1. worker' = [worker EXCEPT ![w] = r]
        BY <3>3, TypingParts DEF WorkersTyped
      <4> HIDE DEF r, op, s
      <4>2. WellFormed(r)
        BY <2>1, <2>4 DEF WellFormed
      <4>3. WorkersTyped'
        BY <4>1, <4>2, WorkerMoves
      <4> QED
        BY <3>3, <4>3, TypingParts DEF RowsTyped
    <3> QED
      BY <1>8, <3>1, <3>2, <3>3 DEF Load
  <2> QED
    BY <2>5, <2>6, TypingParts DEF Typing, RestTyped, KeysTyped
<1>25. ASSUME NEW w \in Workers, RetrieveSubscription(w) PROVE Typing'
  <2> DEFINE me == worker[w]
             seen == [live |-> ItemsOf(SubscriptionOf[me.website]),
                      canceled |-> SubscriptionOf[me.website] \in canceled,
                      siblings |-> FALSE]
             r == [me EXCEPT !.pc = "siblings", !.seen = seen]
  <2>1. me \in Worker /\ me.pc = "inspect" /\ me.website \in Billed
        /\ me.website \in Websites /\ me.operationKey \in Operations
    BY <1>25, WorkerTyped DEF RetrieveSubscription, At, JobSteps
  <2>2. seen \in Inspection
    BY TypingParts DEF Inspection, ItemsOf
  <2>3. worker' = [worker EXCEPT ![w] = r]
    BY <1>25, TypingParts DEF RetrieveSubscription, WorkersTyped
  <2>4. WorkersTyped'
    <3> HIDE DEF seen, me
    <3>1. WellFormed(r)
      BY <2>1, <2>2 DEF WellFormed, Worker
    <3> HIDE DEF r
    <3> QED
      BY <2>3, <3>1, WorkerMoves
  <2> QED
    BY <1>25, <2>4, TypingParts
       DEF Typing, RestTyped, RetrieveSubscription, RowsTyped, KeysTyped
<1>26. ASSUME NEW w \in Workers, CountSiblings(w) PROVE Typing'
  <2> DEFINE me == worker[w]
             found == Siblings(me.website) # {}
             r == [me EXCEPT !.pc = "decide", !.seen.siblings = found]
  <2>1. me \in Worker /\ me.pc = "siblings" /\ me.website \in Billed
        /\ me.website \in Websites /\ me.operationKey \in Operations
    BY <1>26, WorkerTyped DEF CountSiblings, At, JobSteps
  <2>2. found \in BOOLEAN
    OBVIOUS
  <2>3. worker' = [worker EXCEPT ![w] = r]
    BY <1>26, TypingParts DEF CountSiblings, WorkersTyped
  <2>4. WorkersTyped'
    <3> HIDE DEF found, me
    <3>1. WellFormed(r)
      BY <2>1, <2>2 DEF WellFormed, Worker, Inspection
    <3> HIDE DEF r
    <3> QED
      BY <2>3, <3>1, WorkerMoves
  <2> QED
    BY <1>26, <2>4, TypingParts DEF Typing, RestTyped, CountSiblings, RowsTyped, KeysTyped
<1>9. ASSUME NEW w \in Workers, NothingToUndo(w) PROVE Typing'
  <2>1. PICK action \in BillingActions, target \in {"subscription", "item"} :
            Confirmed(w, action, target)
    BY <1>9, ActionsTyped, WorkerTyped DEF NothingToUndo, BillingActions, Worker, At
  <2>2. worker[w].pc \in {"inspect", "decide"}
    BY <1>9 DEF NothingToUndo, At
  <2>3. WorkersTyped'
    BY <2>1, <2>2, ConfirmedTyped
  <2> QED
    BY <1>9, <2>3, TypingParts DEF Typing, RestTyped, NothingToUndo, RowsTyped, KeysTyped
<1>10. ASSUME NEW w \in Workers, Decide(w) PROVE Typing'
  <2> DEFINE me == worker[w]
             s == me.website
             action == ActionFor(s, me.item, me.action, me.seen)
             r == [me EXCEPT !.pc = "effect", !.action = action, !.seen = NothingSeen]
  <2>1. me \in Worker /\ me.pc = "decide" /\ s \in Websites /\ me.operationKey \in Operations
        /\ s \in Billed
    BY <1>10, WorkerTyped DEF Decide, At, JobSteps
  <2>2. action \in BillingActions
    BY <2>1, ActionsTyped DEF Worker
  <2>3. r \in Worker /\ r.pc = "effect" /\ r.website = s /\ r.operationKey = me.operationKey
    BY <2>1, <2>2, IdleFields DEF Worker
  <2>4. UNCHANGED website \/ Record(s, me.operationKey, action)
    BY <1>10 DEF Decide
  <2>5. KeysTyped'
    BY <2>1, <2>2, <2>4, RecordTyped, TypingParts DEF KeysTyped
  <2>6. WorkersTyped'
    <3>1. CASE GoTo(w, "fail")
      BY <2>1, <3>1, GoToTyped
    <3>2. CASE Confirmed(w, action, "item")
      BY <2>1, <2>2, <3>2, ConfirmedTyped
    <3>3. CASE worker' = [worker EXCEPT ![w].pc = "effect", ![w].action = action,
                                        ![w].seen = NothingSeen]
      <4>1. worker' = [worker EXCEPT ![w] = r]
        BY <3>3, TypingParts DEF WorkersTyped
      <4> HIDE DEF r, s
      <4>3. WellFormed(r)
        BY <2>1, <2>3 DEF WellFormed
      <4> QED
        BY <4>1, <4>3, WorkerMoves
    <3> QED
      BY <1>10, <3>1, <3>2, <3>3 DEF Decide
  <2>7. UNCHANGED <<job, issued, items, canceled, restoredBy, anchor, websiteCount, troubles>>
    BY <1>10 DEF Decide
  <2> QED
    BY <2>5, <2>6, <2>7, TypingParts DEF Typing, RestTyped, RowsTyped
<1>11. ASSUME NEW w \in Workers, Undo(w) \/ AnswerLost(w) PROVE Typing'
  <2> DEFINE me == worker[w]
  <2>1. me \in Worker /\ me.pc = "effect" /\ me.website \in Websites
        /\ me.operationKey \in Operations /\ me.action \in BillingActions
    BY <1>11, WorkerTyped DEF Undo, AnswerLost, At, JobSteps, Worker
  <2>2. WorkersTyped'
    BY <1>11, <2>1, ConfirmedTyped, GoToTyped DEF Undo, AnswerLost
  <2>3. CallStripe(me.website, me.item, me.action)
    BY <1>11 DEF Undo, AnswerLost
  <2>4. items' \subseteq Websites \X ItemIds /\ canceled' \subseteq Subscriptions
        /\ restoredBy' = restoredBy
    BY <2>1, <2>3, TypingParts, WorkerTyped DEF CallStripe, Billed
  <2>5. UNCHANGED <<website, job, issued, anchor, websiteCount>>
        /\ troubles' \in 0..MaxTroubles
    BY <1>11, TypingParts DEF Undo, AnswerLost, Trouble
  <2> QED
    BY <2>2, <2>4, <2>5, TypingParts DEF Typing, RestTyped, RowsTyped, KeysTyped
<1>12. ASSUME NEW w \in Workers, CallFails(w) PROVE Typing'
  <2>1. worker[w] \in Worker /\ worker[w].pc \in BillingSteps \union {"count", "recount"}
    BY <1>12, WorkerTyped DEF CallFails, BillingSteps
  <2>2. WorkersTyped'
    <3>1. CASE Done(w)
      BY <3>1, DoneTyped
    <3>2. CASE worker[w].operationKey # 0 /\ GoTo(w, "fail")
      <4>1. worker[w].operationKey \in Operations
        BY <2>1, <3>2 DEF Worker, ItemIds, Operations
      <4> QED
        BY <2>1, <3>2, <4>1, GoToTyped DEF BillingSteps
    <3> QED
      BY <1>12, <3>1, <3>2 DEF CallFails
  <2>3. troubles' \in 0..MaxTroubles
    BY <1>12, TypingParts DEF CallFails, Trouble
  <2> QED
    BY <1>12, <2>2, <2>3, TypingParts DEF Typing, RestTyped, CallFails, RowsTyped, KeysTyped
<1>13. ASSUME NEW w \in Workers, Finalize(w) PROVE Typing'
  <2> DEFINE me == worker[w]
             s == me.website
             r == [website[s] EXCEPT !.isActive = FALSE, !.isPrimary = FALSE,
                                     !.removalStatus = "removed", !.billingAction = me.action]
  <2>1. me \in Worker /\ me.pc = "finalize" /\ s \in Websites /\ me.operationKey \in Operations
        /\ me.action \in BillingActions
    BY <1>13, WorkerTyped DEF Finalize, At, JobSteps, Worker
  <2>2. WorkersTyped'
    BY <1>13, <2>1, GoToTyped DEF Finalize
  <2>3. CASE Pending(s, me.operationKey)
    <3>1. website[s] \in Website /\ website[s].operationKey \in Operations
      BY <2>1, <2>3, RowTyped DEF Pending
    <3>2. r \in Website /\ r.operationKey = website[s].operationKey
      BY <2>1, <3>1 DEF Website
    <3>3. website' = [website EXCEPT ![s] = r]
      BY <1>13, <2>3, TypingParts DEF Finalize, KeysTyped
    <3>4. KeysTyped'
      <4> HIDE DEF r, s
      <4> QED
        BY <2>1, <3>1, <3>2, <3>3, WebsiteWritten
    <3>5. RowsTyped'
      <4>1. job[me.operationKey].status # "no row"
        BY <2>1, OperationsTyped DEF Queue, WorkersQueued, HasRow
      <4>2. job' = [job EXCEPT ![me.operationKey].status = "completed"]
        BY <1>13, <2>3 DEF Finalize
      <4> QED
        BY <2>1, <4>1, <4>2, StatusWritten
    <3>6. anchor' \in Subscriptions \union {NoSubscription}
      BY <1>13, <2>1, <2>3, SurvivorTyped, TypingParts DEF Finalize
    <3> QED
      BY <1>13, <2>2, <3>4, <3>5, <3>6, TypingParts DEF Typing, RestTyped, Finalize, stripe
  <2>4. CASE ~Pending(s, me.operationKey)
    <3>1. UNCHANGED <<website, anchor, job, issued, stripe, websiteCount, troubles>>
      BY <1>13, <2>4 DEF Finalize
    <3> QED
      BY <2>2, <3>1, TypingParts DEF Typing, RestTyped, RowsTyped, KeysTyped, stripe
  <2> QED
    BY <2>3, <2>4
<1>14. ASSUME NEW w \in Workers, CountWebsites(w) PROVE Typing'
  <2> DEFINE r == [worker[w] EXCEPT !.pc = "recount", !.count = Cardinality(Listed)]
  <2>1. worker[w] \in Worker /\ worker[w].pc = "count" /\ worker[w].website \in Websites
    BY <1>14, WorkerTyped DEF CountWebsites, At
  <2>2. Cardinality(Listed) \in 0..Cardinality(Websites)
    BY CardinalityOfSome DEF Listed
  <2>3. WellFormed(r)
    BY <2>1, <2>2 DEF WellFormed, Worker, JobSteps
  <2>4. worker' = [worker EXCEPT ![w] = r]
    BY <1>14, TypingParts DEF CountWebsites, WorkersTyped
  <2>5. WorkersTyped'
    <3> HIDE DEF r
    <3> QED
      BY <2>3, <2>4, WorkerMoves
  <2> QED
    BY <1>14, <2>5, TypingParts DEF Typing, RestTyped, CountWebsites, RowsTyped, KeysTyped
<1>15. ASSUME NEW w \in Workers, UpdateWebsiteCount(w) PROVE Typing'
  <2>1. WorkersTyped'
    BY <1>15, DoneTyped DEF UpdateWebsiteCount
  <2>2. websiteCount' \in 0..Cardinality(Websites)
    BY <1>15, WorkerTyped DEF UpdateWebsiteCount, Worker
  <2> QED
    BY <1>15, <2>1, <2>2, TypingParts DEF Typing, RestTyped, UpdateWebsiteCount, RowsTyped, KeysTyped
<1>27. ASSUME NEW w \in Workers, ReadRetryCount(w) PROVE Typing'
  <2> DEFINE me == worker[w]
             n == job[me.operationKey].retryCount
             r == [me EXCEPT !.pc = "mark", !.retries = n]
  <2>1. me \in Worker /\ me.pc = "fail" /\ me.website \in Websites
        /\ me.operationKey \in Operations
    BY <1>27, WorkerTyped DEF ReadRetryCount, At, JobSteps
  <2>2. n \in 0..MaxRetries
    <3>1. job[me.operationKey] \in Job
      BY <2>1, TypingParts DEF RowsTyped
    <3> QED
      BY <3>1 DEF Job
  <2>3. worker' = [worker EXCEPT ![w] = r]
    BY <1>27, TypingParts DEF ReadRetryCount, WorkersTyped
  <2>4. WorkersTyped'
    <3> HIDE DEF n, me
    <3>1. WellFormed(r)
      BY <2>1, <2>2 DEF WellFormed, Worker
    <3> HIDE DEF r
    <3> QED
      BY <2>3, <3>1, WorkerMoves
  <2> QED
    BY <1>27, <2>4, TypingParts DEF Typing, RestTyped, ReadRetryCount, RowsTyped, KeysTyped
<1>16. ASSUME NEW w \in Workers, MarkFailed(w) PROVE Typing'
  <2> DEFINE op == worker[w].operationKey
             retries == worker[w].retries + 1
             row == [job[op] EXCEPT
                       !.status = IF retries >= MaxRetries THEN "failed" ELSE "pending",
                       !.retryCount = IF retries >= MaxRetries THEN MaxRetries ELSE retries]
  <2>1. op \in Operations /\ worker[w].pc = "mark" /\ worker[w].retries \in 0..MaxRetries
    BY <1>16, WorkerTyped DEF MarkFailed, At, JobSteps, Worker
  <2>2. job[op].status # "no row"
    BY <2>1, OperationsTyped DEF Queue, WorkersQueued, HasRow
  <2>3. job[op] \in Job /\ job[op].website \in Websites
    BY <2>1, <2>2, TypingParts DEF RowsTyped
  <2>4. row \in Job /\ row.website = job[op].website
    <3>1. (IF retries >= MaxRetries THEN MaxRetries ELSE retries) \in 0..MaxRetries
      BY <2>1
    <3> QED
      BY <2>3, <3>1 DEF Job
  <2>5. job' = [job EXCEPT ![op] = row]
    BY <1>16, <2>1, TypingParts DEF MarkFailed, RowsTyped
  <2>6. RowsTyped'
    <3> HIDE DEF row, op
    <3> QED
      BY <2>1, <2>3, <2>4, <2>5, JobWritten
  <2>7. WorkersTyped'
    BY <1>16, DoneTyped DEF MarkFailed
  <2> QED
    BY <1>16, <2>6, <2>7, TypingParts DEF Typing, RestTyped, MarkFailed, KeysTyped
<1>17. ASSUME NEW w \in Workers, NEW s \in Websites, RequestRestore(w, s) PROVE Typing'
  <2>1. PICK pc \in {"createItem", "restore", "expire"} :
          worker' = [worker EXCEPT ![w] =
                       [Idle EXCEPT !.pc = pc, !.website = s,
                                    !.item = IF pc = "createItem"
                                             THEN website[s].operationKey
                                             ELSE website[s].item]]
    BY <1>17 DEF RequestRestore
  <2>2. website[s] \in Website /\ website[s].operationKey \in Operations
    BY <1>17, RowTyped, TypingParts DEF RequestRestore, KeysTyped
  <2> DEFINE r == [Idle EXCEPT !.pc = pc, !.website = s,
                               !.item = IF pc = "createItem"
                                        THEN website[s].operationKey ELSE website[s].item]
  <2>3. WellFormed(r)
    BY <2>2, IdleTyped, OperationsTyped DEF WellFormed, Idle, Worker, Website, JobSteps
  <2>4. WorkersTyped'
    <3> HIDE DEF r
    <3>1. worker' = [worker EXCEPT ![w] = r]
      BY <2>1 DEF r
    <3> QED
      BY <2>3, <3>1, WorkerMoves
  <2> QED
    BY <1>17, <2>4, TypingParts DEF Typing, RestTyped, RequestRestore, RowsTyped, KeysTyped
<1>18. ASSUME NEW w \in Workers, CreateItem(w) \/ CreateAnswerLost(w) PROVE Typing'
  <2> DEFINE me == worker[w]
  <2>1. me \in Worker /\ me.pc = "createItem" /\ me.website \in Websites /\ me.item \in Operations
    BY <1>18, WorkerTyped DEF CreateItem, CreateAnswerLost, At
  <2>2. WorkersTyped'
    BY <1>18, <2>1, GoToTyped, DoneTyped DEF CreateItem, CreateAnswerLost, JobSteps
  <2>3. StripeCreates(me.website, me.item)
    BY <1>18 DEF CreateItem, CreateAnswerLost
  <2>4. items' \subseteq Websites \X ItemIds /\ canceled' = canceled
        /\ restoredBy' \subseteq Operations
    <3>1. <<me.website, me.item>> \in Websites \X ItemIds
      BY <2>1, OperationsTyped
    <3>2. /\ items' = items \/ items' = items \union {<<me.website, me.item>>}
          /\ restoredBy' = restoredBy \union {me.item}
          /\ canceled' = canceled
      BY <2>3 DEF StripeCreates
    <3> HIDE DEF me
    <3> QED
      BY <2>1, <3>1, <3>2, TypingParts
  <2>5. UNCHANGED <<website, job, issued, anchor, websiteCount>>
        /\ troubles' \in 0..MaxTroubles
    BY <1>18, TypingParts DEF CreateItem, CreateAnswerLost, Trouble
  <2> QED
    BY <2>2, <2>4, <2>5, TypingParts DEF Typing, RestTyped, RowsTyped, KeysTyped
<1>19. ASSUME NEW w \in Workers, Restore(w) PROVE Typing'
  <2>1. worker[w] \in Worker /\ worker[w].pc = "restore" /\ worker[w].website \in Websites
    BY <1>19, WorkerTyped DEF Restore, At
  <2>2. WorkersTyped'
    BY <1>19, <2>1, GoToTyped DEF Restore, JobSteps
  <2>3. KeysTyped'
    BY <1>19, <2>1, RecoveredTyped DEF Restore, Worker
  <2> QED
    BY <1>19, <2>2, <2>3, TypingParts DEF Typing, RestTyped, Restore, RowsTyped
<1>20. ASSUME NEW w \in Workers, RecoverUnpaid(w) PROVE Typing'
  <2>1. worker[w].website \in Websites
    BY <1>20, WorkerTyped DEF RecoverUnpaid, At
  <2>2. website[worker[w].website].item \in ItemIds
    BY <2>1, RowTyped DEF Website
  <2>3. KeysTyped'
    BY <1>20, <2>1, <2>2, RecoveredTyped DEF RecoverUnpaid
  <2> QED
    BY <1>20, <2>3, DoneTyped, TypingParts DEF Typing, RestTyped, RecoverUnpaid, RowsTyped
<1>21. ASSUME NEW s \in Websites, DeadlinePasses(s) PROVE Typing'
  <2> DEFINE r == [website[s] EXCEPT !.recoverable = FALSE]
  <2>1. website[s] \in Website
    BY RowTyped
  <2>2. r \in Website /\ r.operationKey = website[s].operationKey
        /\ r.removalStatus = website[s].removalStatus
    BY <2>1 DEF Website
  <2>3. website' = [website EXCEPT ![s] = r]
    BY <1>21, TypingParts DEF DeadlinePasses, KeysTyped
  <2>4. website[s].removalStatus # "active" => website[s].operationKey \in Operations
    BY TypingParts DEF KeysTyped
  <2>5. KeysTyped'
    <3> HIDE DEF r
    <3> QED
      BY <2>2, <2>3, <2>4, WebsiteWritten
  <2> QED
    BY <1>21, <2>5, TypingParts DEF Typing, RestTyped, DeadlinePasses, WorkersTyped, RowsTyped
<1>22. ASSUME NEW w \in Workers, Crash(w) PROVE Typing'
  <2>1. troubles' \in 0..MaxTroubles
    BY <1>22, TypingParts DEF Crash, Trouble
  <2> QED
    BY <1>22, <2>1, DoneTyped, TypingParts DEF Typing, RestTyped, Crash, RowsTyped, KeysTyped
<1>23. CASE UNCHANGED vars
  BY <1>23 DEF Typing, RestTyped, stripe, vars, WorkersTyped, RowsTyped, KeysTyped
<1> QED
  BY <1>1, <1>2, <1>3, <1>4, <1>5, <1>6, <1>7, <1>8, <1>9, <1>10, <1>11, <1>12,
     <1>13, <1>14, <1>15, <1>16, <1>17, <1>18, <1>19, <1>20, <1>21, <1>22, <1>23,
     <1>24, <1>25, <1>26, <1>27
     DEF Next, WorkerStep

(* What a claim makes of its own website, and of all others.                *)
LEMMA ClaimedWebsites ==
  ASSUME Typing, NEW w \in Workers, Claim(w), NEW t \in Websites
  PROVE  /\ t = worker[w].website =>
              /\ website'[t].operationKey = worker[w].operationKey
              /\ website'[t].removalStatus = "cancellation_pending"
              /\ website'[t].billingAction = "unknown"
              /\ website'[t].isActive = FALSE
         /\ t # worker[w].website =>
              /\ website'[t].operationKey = website[t].operationKey
              /\ website'[t].removalStatus = website[t].removalStatus
              /\ website'[t].billingAction = website[t].billingAction
              /\ website'[t].isActive = website[t].isActive
         /\ website'[t].item = website[t].item
<1>1. website[t] \in Website
  BY RowTyped
<1>2. website' = Claimed(worker[w].website, worker[w].operationKey,
                         worker[w].replacement, worker[w].handOver)
  BY DEF Claim
<1>3. CASE t = worker[w].website
  BY <1>1, <1>2, <1>3 DEF Claimed, Website
<1>4. CASE t # worker[w].website
  BY <1>1, <1>2, <1>4 DEF Claimed, Website
<1> QED
  BY <1>3, <1>4

(* Rows of the queue are never lost and never change their website.         *)
RowsStay ==
    \A op \in Operations : job[op].status # "no row" =>
        /\ job'[op].status # "no row"
        /\ job'[op].website = job[op].website

NoNewRows ==
    \A op \in Operations : job[op].status = "no row" => job'[op].status = "no row"

LEMMA StatusKeepsRows ==
  ASSUME Typing, NEW op \in Operations, job[op].status # "no row",
         NEW st \in {"pending", "processing", "completed", "failed"},
         job' = [job EXCEPT ![op].status = st]
  PROVE  RowsStay /\ NoNewRows
<1>1. \A o \in Operations : job[o] \in Job
  BY TypingParts DEF RowsTyped
<1> QED
  BY <1>1, TypingParts DEF RowsStay, NoNewRows, RowsTyped, Job

(* The steps that take no key and claim nothing keep the queue as it is.    *)
LEMMA QueueStays ==
  ASSUME Typing, Queue, RowsStay, NoNewRows, issued' = issued,
         \A s \in Websites : website'[s].operationKey \in {0, website[s].operationKey},
         \A w \in Workers :
             /\ worker'[w].pc # "claim" /\ worker'[w].operationKey # 0
                  => /\ worker'[w].operationKey \in Operations
                     /\ HasRow(worker'[w].operationKey, worker'[w].website)
             /\ worker'[w].pc = "claim" => worker'[w] = worker[w]
  PROVE  Queue'
<1>1. WorkersQueued'
  BY DEF WorkersQueued, HasRow, RowsStay
<1>2. ClaimsFresh'
  <2>1. ASSUME NEW w \in Workers, worker'[w].pc = "claim"
        PROVE  /\ worker[w].pc = "claim" /\ worker'[w] = worker[w]
               /\ worker[w].operationKey \in Operations
               /\ worker[w].operationKey <= issued
               /\ job[worker[w].operationKey].status = "no row"
    BY <2>1, WorkerTyped DEF Queue, ClaimsFresh
  <2>11. ASSUME NEW w \in Workers, worker'[w].pc = "claim"
         PROVE  job'[worker[w].operationKey].status = "no row"
    BY <2>1, <2>11 DEF NoNewRows
  <2>2. ASSUME NEW w \in Workers, NEW v \in Workers, v # w,
               worker'[w].pc = "claim", worker'[v].pc = "claim"
        PROVE  worker'[v].operationKey # worker'[w].operationKey
    <3>1. /\ worker[w].pc = "claim" /\ worker'[w] = worker[w]
          /\ worker[v].pc = "claim" /\ worker'[v] = worker[v]
      BY <2>1, <2>2
    <3>2. worker[v].operationKey # worker[w].operationKey
      BY <2>2, <3>1 DEF Queue, ClaimsFresh
    <3> QED
      BY <3>1, <3>2
  <2>3. ASSUME NEW op \in Operations, op > issued PROVE job'[op].status = "no row"
    BY <2>3 DEF Queue, ClaimsFresh, NoNewRows
  <2> QED
    BY <2>1, <2>11, <2>2, <2>3 DEF ClaimsFresh
<1>3. KeysQueued'
  <2> SUFFICES ASSUME NEW s \in Websites, website'[s].operationKey # 0
               PROVE  HasRow(website[s].operationKey, s)'
    BY DEF KeysQueued
  <2>1. website'[s].operationKey = website[s].operationKey
    OBVIOUS
  <2>2. HasRow(website[s].operationKey, s)
    BY <2>1 DEF Queue, KeysQueued
  <2>3. website[s].operationKey \in Operations
    <3>1. website[s].operationKey \in ItemIds /\ website[s].operationKey # 0
      BY <2>1, RowTyped DEF Website
    <3> QED
      BY <3>1, KeysAreOperations
  <2> QED
    BY <2>1, <2>2, <2>3 DEF HasRow, RowsStay
<1> QED
  BY <1>1, <1>2, <1>3 DEF Queue

(* What a worker's step makes of the records of the workers.                *)
LEMMA DoneWorkers ==
  ASSUME Typing, NEW w \in Workers, Done(w), NEW v \in Workers
  PROVE  worker'[v] = IF v = w THEN Idle ELSE worker[v]
  BY TypingParts DEF Done, WorkersTyped

LEMMA GoToWorkers ==
  ASSUME Typing, NEW w \in Workers, NEW pc, GoTo(w, pc), NEW v \in Workers
  PROVE  /\ v # w => worker'[v] = worker[v]
         /\ v = w => /\ worker'[v].pc = pc
                     /\ worker'[v].website = worker[w].website
                     /\ worker'[v].operationKey = worker[w].operationKey
                     /\ worker'[v].item = worker[w].item
                     /\ worker'[v].action = worker[w].action
<1>1. worker[w] \in Worker
  BY WorkerTyped
<1> QED
  BY <1>1, TypingParts DEF GoTo, WorkersTyped, Worker

LEMMA ProcessWorkers ==
  ASSUME Typing, NEW w \in Workers, NEW s, NEW op, Process(w, s, op), NEW v \in Workers
  PROVE  /\ v # w => worker'[v] = worker[v]
         /\ v = w => /\ worker'[v].pc = "process"
                     /\ worker'[v].website = s
                     /\ worker'[v].operationKey = op
  BY TypingParts DEF Process, WorkersTyped, Idle

LEMMA ConfirmedWorkers ==
  ASSUME Typing, NEW w \in Workers, NEW action, NEW target, Confirmed(w, action, target),
         NEW v \in Workers
  PROVE  /\ v # w => worker'[v] = worker[v]
         /\ v = w => /\ worker'[v].pc = "finalize"
                     /\ worker'[v].website = worker[w].website
                     /\ worker'[v].operationKey = worker[w].operationKey
                     /\ worker'[v].item = worker[w].item
                     /\ worker'[v].action = action
<1>1. worker[w] \in Worker
  BY WorkerTyped
<1> QED
  BY <1>1, TypingParts DEF Confirmed, WorkersTyped, Worker

(* A step of a worker that goes on with its operation or drops it.          *)
Keeps(w) ==
    /\ worker'[w].pc # "claim"
    /\ worker'[w].operationKey # 0 =>
          /\ worker'[w].operationKey = worker[w].operationKey
          /\ worker'[w].website = worker[w].website
    /\ \A v \in Workers \ {w} : worker'[v] = worker[v]

LEMMA DoneKeeps ==
  ASSUME Typing, NEW w \in Workers, Done(w) PROVE Keeps(w) /\ worker'[w] = Idle
<1>1. worker'[w] = Idle /\ \A v \in Workers \ {w} : worker'[v] = worker[v]
  BY DoneWorkers
<1>2. Idle.pc # "claim" /\ Idle.operationKey = 0
  BY DEF Idle
<1> QED
  BY <1>1, <1>2 DEF Keeps

LEMMA GoToKeeps ==
  ASSUME Typing, NEW w \in Workers, NEW pc, pc # "claim", GoTo(w, pc) PROVE Keeps(w)
  BY GoToWorkers DEF Keeps

LEMMA ConfirmedKeeps ==
  ASSUME Typing, NEW w \in Workers, NEW action, NEW target, Confirmed(w, action, target)
  PROVE  Keeps(w)
  BY ConfirmedWorkers DEF Keeps

LEMMA CountKeeps ==
  ASSUME Typing, NEW w \in Workers, CountWebsites(w) PROVE Keeps(w)
<1>1. worker[w] \in Worker
  BY WorkerTyped
<1> QED
  BY <1>1, TypingParts DEF CountWebsites, Keeps, WorkersTyped, Worker

LEMMA InspectionKeeps ==
  ASSUME Typing, NEW w \in Workers, RetrieveSubscription(w) \/ CountSiblings(w)
  PROVE  Keeps(w)
<1>1. worker[w] \in Worker
  BY WorkerTyped
<1> QED
  BY <1>1, TypingParts
     DEF RetrieveSubscription, CountSiblings, Keeps, WorkersTyped, Worker

LEMMA RetryCountKeeps ==
  ASSUME Typing, NEW w \in Workers, ReadRetryCount(w) PROVE Keeps(w)
<1>1. worker[w] \in Worker
  BY WorkerTyped
<1> QED
  BY <1>1, TypingParts DEF ReadRetryCount, Keeps, WorkersTyped, Worker

LEMMA LoadKeeps ==
  ASSUME Typing, NEW w \in Workers, Load(w) PROVE Keeps(w)
<1>1. worker[w] \in Worker
  BY WorkerTyped
<1>2. CASE Done(w)
  BY <1>2, DoneKeeps
<1>3. CASE worker' = [worker EXCEPT ![w].pc = "inspect",
                                    ![w].item = website[worker[w].website].item,
                                    ![w].action = website[worker[w].website].billingAction]
  BY <1>1, <1>3, TypingParts DEF Keeps, WorkersTyped, Worker
<1> QED
  BY <1>2, <1>3 DEF Load

LEMMA DecideKeeps ==
  ASSUME Typing, NEW w \in Workers, Decide(w) PROVE Keeps(w)
<1> DEFINE action == ActionFor(worker[w].website, worker[w].item, worker[w].action,
                              worker[w].seen)
<1>1. worker[w] \in Worker
  BY WorkerTyped
<1>2. \/ GoTo(w, "fail")
      \/ Confirmed(w, action, "item")
      \/ worker' = [worker EXCEPT ![w].pc = "effect", ![w].action = action,
                                    ![w].seen = NothingSeen]
  BY DEF Decide
<1>3. CASE worker' = [worker EXCEPT ![w].pc = "effect", ![w].action = action,
                                    ![w].seen = NothingSeen]
  <2> HIDE DEF action
  <2> QED
    BY <1>1, <1>3, TypingParts DEF Keeps, WorkersTyped, Worker
<1> QED
  BY <1>2, <1>3, GoToKeeps, ConfirmedKeeps

LEMMA RequestKeeps ==
  ASSUME Typing, NEW w \in Workers, NEW s \in Websites, RequestRemoval(w, s) PROVE Keeps(w)
  BY TypingParts DEF RequestRemoval, Keeps, WorkersTyped, Idle

LEMMA RestoreKeeps ==
  ASSUME Typing, NEW w \in Workers, NEW s \in Websites, RequestRestore(w, s) PROVE Keeps(w)
<1>1. PICK pc \in {"createItem", "restore", "expire"} :
        worker' = [worker EXCEPT ![w] =
                     [Idle EXCEPT !.pc = pc, !.website = s,
                                  !.item = IF pc = "createItem"
                                           THEN website[s].operationKey
                                           ELSE website[s].item]]
  BY DEF RequestRestore
<1> QED
  BY <1>1, TypingParts DEF Keeps, WorkersTyped, Idle

(* What the writes of websites keep.                                        *)
LEMMA RecordKeeps ==
  ASSUME Typing, NEW s \in Websites, NEW op, NEW action,
         UNCHANGED website \/ Record(s, op, action), NEW t \in Websites
  PROVE  /\ website'[t].operationKey = website[t].operationKey
         /\ website'[t].removalStatus = website[t].removalStatus
         /\ website'[t].item = website[t].item
         /\ website'[t].isActive = website[t].isActive
         /\ website'[t].billingAction # website[t].billingAction =>
               t = s /\ website'[t].billingAction = action
<1>1. website[t] \in Website
  BY RowTyped
<1> QED
  BY <1>1, TypingParts DEF Record, Website, KeysTyped

LEMMA FinalizedWebsites ==
  ASSUME Typing, NEW w \in Workers, Finalize(w), NEW t \in Websites
  PROVE  /\ website'[t].operationKey = website[t].operationKey
         /\ website'[t].item = website[t].item
         /\ website'[t] # website[t] =>
               /\ t = worker[w].website
               /\ Pending(t, worker[w].operationKey)
               /\ website'[t].isActive = FALSE
               /\ website'[t].removalStatus = "removed"
               /\ website'[t].billingAction = worker[w].action
<1>1. website[t] \in Website
  BY RowTyped
<1> QED
  BY <1>1, TypingParts DEF Finalize, Website, KeysTyped

LEMMA RecoveredWebsites ==
  ASSUME Typing, NEW s \in Websites, NEW active, NEW primary, NEW item,
         website' = Recovered(s, active, primary, item), NEW t \in Websites
  PROVE  /\ t # s => website'[t] = website[t]
         /\ t = s => /\ website'[t].operationKey = 0
                     /\ website'[t].removalStatus = "active"
                     /\ website'[t].item = item
                     /\ website'[t].isActive = active
                     /\ website'[t].billingAction = "none"
  BY TypingParts DEF Recovered, KeysTyped

LEMMA DeadlineWebsites ==
  ASSUME Typing, NEW s \in Websites, DeadlinePasses(s), NEW t \in Websites
  PROVE  /\ website'[t].operationKey = website[t].operationKey
         /\ website'[t].removalStatus = website[t].removalStatus
         /\ website'[t].item = website[t].item
         /\ website'[t].isActive = website[t].isActive
         /\ website'[t].billingAction = website[t].billingAction
<1>1. website[t] \in Website
  BY RowTyped
<1> QED
  BY <1>1, TypingParts DEF DeadlinePasses, Website, KeysTyped

LEMMA FailedRows ==
  ASSUME Typing, NEW w \in Workers, MarkFailed(w),
         worker[w].operationKey \in Operations, job[worker[w].operationKey].status # "no row"
  PROVE  RowsStay /\ NoNewRows
<1> DEFINE op == worker[w].operationKey
           st == IF worker[w].retries + 1 >= MaxRetries THEN "failed" ELSE "pending"
<1>1. st # "no row"
  OBVIOUS
<1>2. PICK n : job' = [job EXCEPT ![op].status = st, ![op].retryCount = n]
  BY DEF MarkFailed
<1>3. \A o \in Operations : job[o] \in Job
  BY TypingParts DEF RowsTyped
<1> HIDE DEF op, st
<1>4. op \in Operations /\ job[op].status # "no row"
  BY DEF op
<1> QED
  BY <1>1, <1>2, <1>3, <1>4, TypingParts DEF RowsStay, NoNewRows, RowsTyped, Job

LEMMA QueueInit == Init => Queue
<1> SUFFICES ASSUME Init PROVE Queue
  OBVIOUS
<1>1. job = [op \in Operations |-> NoJob] /\ issued = 0
  BY DEF Init
<1>2. \A w \in Workers : worker[w].pc = "idle" /\ worker[w].operationKey = 0
  BY DEF Init, Idle
<1>3. \A s \in Websites : website[s].operationKey = 0
  BY DEF Init
<1> HIDE DEF Init
<1>4. WorkersQueued
  BY <1>2 DEF WorkersQueued
<1>5. KeysQueued
  BY <1>3 DEF KeysQueued
<1>6. \A op \in Operations : job[op].status = "no row"
  BY <1>1 DEF NoJob
<1> QED
  BY <1>2, <1>4, <1>5, <1>6 DEF Queue, ClaimsFresh

LEMMA QueueStep == Typing /\ Queue /\ [Next]_vars => Queue'
<1> SUFFICES ASSUME Typing, Queue, [Next]_vars PROVE Queue'
  OBVIOUS
<1>0. \A w \in Workers :
          worker[w].pc # "claim" /\ worker[w].operationKey # 0
            => /\ worker[w].operationKey \in Operations
               /\ HasRow(worker[w].operationKey, worker[w].website)
  BY WorkerTyped, KeysAreOperations DEF Queue, WorkersQueued, Worker
<1>00. UNCHANGED job =>
         RowsStay /\ NoNewRows
  BY DEF RowsStay, NoNewRows
<1>000. UNCHANGED website =>
          \A s \in Websites : website'[s].operationKey \in {0, website[s].operationKey}
  OBVIOUS
<1>1. ASSUME NEW w \in Workers, PickReplacement(w) PROVE Queue'
  <2>1. /\ worker'[w].pc = "claim" /\ worker'[w].operationKey = issued + 1
        /\ \A v \in Workers \ {w} : worker'[v] = worker[v]
    <3>1. worker[w] \in Worker
      BY WorkerTyped
    <3> QED
      BY <1>1, <3>1, TypingParts DEF PickReplacement, WorkersTyped, Worker
  <2>2. issued' = issued + 1 /\ issued \in Nat /\ issued + 1 \in Operations
        /\ job' = job /\ website' = website
    BY <1>1, TypingParts DEF PickReplacement, Operations
  <2>3. WorkersQueued' /\ KeysQueued'
    BY <2>1, <2>2 DEF Queue, WorkersQueued, KeysQueued, HasRow, JobSteps
  <2>4. job[issued + 1].status = "no row"
    <3>1. issued + 1 > issued
      BY <2>2
    <3> QED
      BY <2>2, <3>1 DEF Queue, ClaimsFresh
  <2>5. ASSUME NEW v \in Workers, worker'[v].pc = "claim"
        PROVE  worker'[v].operationKey <= issued' /\ job'[worker'[v].operationKey].status = "no row"
    <3>1. CASE v = w
      <4>1. worker'[v].operationKey = issued + 1 /\ issued + 1 \in Nat
        BY <2>1, <2>2, <3>1
      <4>2. issued + 1 <= issued + 1
        BY <2>2
      <4> QED
        BY <2>2, <2>4, <4>1, <4>2
    <3>2. CASE v # w
      <4>1. worker'[v] = worker[v] /\ worker[v].operationKey \in Operations
        BY <2>1, <2>5, <3>2, WorkerTyped
      <4>2. worker[v].operationKey <= issued /\ job[worker[v].operationKey].status = "no row"
        BY <2>5, <4>1 DEF Queue, ClaimsFresh
      <4>3. worker[v].operationKey <= issued + 1
        <5>1. worker[v].operationKey \in Nat
          BY <4>1, OperationsTyped
        <5>2. issued \in Nat /\ worker[v].operationKey <= issued
          BY <2>2, <4>2
        <5> QED
          BY <5>1, <5>2
      <4> QED
        BY <2>2, <4>1, <4>2, <4>3
    <3> QED
      BY <3>1, <3>2
  <2>6. ASSUME NEW v \in Workers, NEW u \in Workers, u # v,
               worker'[v].pc = "claim", worker'[u].pc = "claim"
        PROVE  worker'[u].operationKey # worker'[v].operationKey
    <3>1. ASSUME NEW x \in Workers \ {w}, worker'[x].pc = "claim"
          PROVE  /\ worker'[x] = worker[x] /\ worker[x].operationKey \in Operations
                 /\ worker[x].operationKey <= issued
      BY <2>1, <3>1, WorkerTyped DEF Queue, ClaimsFresh
    <3>2. ASSUME NEW x \in Workers \ {w}, worker'[x].pc = "claim"
          PROVE  worker'[x].operationKey # issued + 1
      BY <2>2, <3>1, <3>2, OperationsTyped
    <3>3. CASE u = w
      BY <2>1, <2>6, <3>2, <3>3
    <3>4. CASE v = w
      BY <2>1, <2>6, <3>2, <3>4
    <3>5. CASE u # w /\ v # w
      <4>1. worker'[u] = worker[u] /\ worker'[v] = worker[v]
        BY <2>1, <3>5
      <4> QED
        BY <2>6, <4>1 DEF Queue, ClaimsFresh
    <3> QED
      BY <3>3, <3>4, <3>5
  <2>7. \A op \in Operations : op > issued' => job'[op].status = "no row"
    <3>1. \A op \in Operations : op > issued + 1 => op > issued
      BY <2>2, OperationsTyped
    <3> QED
      BY <2>2, <3>1 DEF Queue, ClaimsFresh
  <2>8. ClaimsFresh'
    BY <2>5, <2>6, <2>7 DEF ClaimsFresh
  <2> QED
    BY <2>3, <2>8 DEF Queue
<1>2. ASSUME NEW w \in Workers, Claim(w) PROVE Queue'
  <2> DEFINE s == worker[w].website
             op == worker[w].operationKey
  <2>1. /\ s \in Websites /\ op \in Operations /\ worker[w].pc = "claim"
        /\ op <= issued /\ job[op].status = "no row" /\ issued' = issued
    BY <1>2, WorkerTyped DEF Claim, At, Queue, ClaimsFresh
  <2>2. /\ \A o \in Operations \ {op} : job'[o] = job[o]
        /\ job'[op].status # "no row" /\ job'[op].website = s
    <3> DEFINE row == [website |-> s, status |-> "pending", retryCount |-> 0]
    <3>1. job' = [job EXCEPT ![op] = row]
      BY <1>2 DEF Claim
    <3>2. row.website = s /\ row.status # "no row"
      OBVIOUS
    <3> HIDE DEF row
    <3> QED
      BY <2>1, <3>1, <3>2, TypingParts DEF RowsTyped
  <2>3. Process(w, s, op)
    BY <1>2 DEF Claim
  <2>4. WorkersQueued'
    <3> SUFFICES ASSUME NEW v \in Workers,
                        worker'[v].pc # "claim", worker'[v].operationKey # 0
                 PROVE  HasRow(worker[v].operationKey, worker[v].website)'
      BY DEF WorkersQueued
    <3>1. CASE v = w
      <4>1. worker'[v].operationKey = op /\ worker'[v].website = s
        <5> HIDE DEF s, op
        <5> QED
          BY <2>3, <3>1, ProcessWorkers
      <4> HIDE DEF s, op
      <4> QED
        BY <2>2, <4>1 DEF HasRow
    <3>2. CASE v # w
      <4>1. worker'[v] = worker[v]
        BY <2>3, <3>2, ProcessWorkers
      <4>2. worker[v].operationKey # op
        BY <1>0, <2>1, <4>1 DEF HasRow
      <4> QED
        BY <1>0, <2>2, <4>1, <4>2 DEF HasRow
    <3> QED
      BY <3>1, <3>2
  <2>5. ClaimsFresh'
    <3>1. ASSUME NEW v \in Workers, worker'[v].pc = "claim"
          PROVE  /\ v # w /\ worker'[v] = worker[v] /\ worker[v].pc = "claim"
                 /\ worker[v].operationKey \in Operations \ {op}
                 /\ worker[v].operationKey <= issued
                 /\ job'[worker[v].operationKey].status = "no row"
      <4>1. v # w /\ worker'[v] = worker[v] /\ worker[v].pc = "claim"
        BY <2>3, <3>1, ProcessWorkers
      <4>2. worker[v].operationKey \in Operations \ {op}
        BY <2>1, <4>1, WorkerTyped DEF Queue, ClaimsFresh
      <4> QED
        BY <2>2, <4>1, <4>2 DEF Queue, ClaimsFresh
    <3>2. ASSUME NEW o \in Operations, o > issued PROVE o # op
      <4>1. issued \in Nat /\ op \in Nat /\ op <= issued
        <5>1. issued \in 0..MaxOperations
          BY TypingParts
        <5>2. op \in Operations /\ op <= issued
          BY <2>1
        <5> HIDE DEF op
        <5> QED
          BY <5>1, <5>2, OperationsTyped
      <4> HIDE DEF op
      <4> QED
        BY <3>2, <4>1
    <3>3. \A o \in Operations : o > issued' => job'[o].status = "no row"
      BY <2>1, <2>2, <3>2 DEF Queue, ClaimsFresh
    <3>4. ASSUME NEW u \in Workers, NEW v \in Workers, u # v,
                 worker'[u].pc = "claim", worker'[v].pc = "claim"
          PROVE  worker'[v].operationKey # worker'[u].operationKey
      <4>1. /\ worker'[u] = worker[u] /\ worker[u].pc = "claim"
            /\ worker'[v] = worker[v] /\ worker[v].pc = "claim"
        BY <3>1, <3>4
      <4>2. worker[v].operationKey # worker[u].operationKey
        BY <3>4, <4>1 DEF Queue, ClaimsFresh
      <4> QED
        BY <4>1, <4>2
    <3> QED
      BY <2>1, <3>1, <3>3, <3>4 DEF ClaimsFresh
  <2>6. KeysQueued'
    <3> SUFFICES ASSUME NEW t \in Websites, website'[t].operationKey # 0
                 PROVE  HasRow(website[t].operationKey, t)'
      BY DEF KeysQueued
    <3>1. /\ t = s => website'[t].operationKey = op
          /\ t # s => website'[t].operationKey = website[t].operationKey
      BY <1>2, ClaimedWebsites
    <3>2. CASE t = s
      <4>1. website'[t].operationKey = op
        BY <3>1, <3>2
      <4> QED
        BY <2>2, <3>2, <4>1 DEF HasRow
    <3>3. CASE t # s
      <4>1. website'[t].operationKey = website[t].operationKey
        BY <3>1, <3>3
      <4>2. HasRow(website[t].operationKey, t) /\ website[t].operationKey \in Operations
        BY <4>1, RowTyped, KeysAreOperations DEF Queue, KeysQueued, Website
      <4>3. website[t].operationKey # op
        BY <2>1, <4>2 DEF HasRow
      <4> QED
        BY <2>2, <4>1, <4>2, <4>3 DEF HasRow
    <3> QED
      BY <3>2, <3>3
  <2> QED
    BY <2>4, <2>5, <2>6 DEF Queue
<1>4. ASSUME NEW w \in Workers, NEW s \in Websites, Retry(w, s) PROVE Queue'
  <2> DEFINE op == website[s].operationKey
  <2>1. op \in Operations /\ HasRow(op, s)
    <3>1. website[s].removalStatus # "active"
      BY <1>4 DEF Retry
    <3>2. op \in Operations
      BY <3>1, TypingParts DEF KeysTyped
    <3> QED
      BY <3>2, OperationsTyped DEF Queue, KeysQueued
  <2>2. /\ worker'[w].pc = "process" /\ worker'[w].operationKey = op /\ worker'[w].website = s
        /\ \A v \in Workers \ {w} : worker'[v] = worker[v]
    BY <1>4, ProcessWorkers DEF Retry
  <2>3. job' = [job EXCEPT ![op].status = "pending", ![op].retryCount = 0]
        /\ UNCHANGED <<website, issued>>
    BY <1>4 DEF Retry
  <2>4. RowsStay /\ NoNewRows
    <3>1. \A o \in Operations : job[o] \in Job
      BY TypingParts DEF RowsTyped
    <3> HIDE DEF op
    <3> QED
      BY <2>1, <2>3, <3>1, TypingParts DEF RowsStay, NoNewRows, RowsTyped, Job, HasRow
  <2>5. ASSUME NEW v \in Workers
        PROVE  /\ worker'[v].pc # "claim" /\ worker'[v].operationKey # 0
                    => /\ worker'[v].operationKey \in Operations
                       /\ HasRow(worker'[v].operationKey, worker'[v].website)
               /\ worker'[v].pc = "claim" => worker'[v] = worker[v]
    BY <1>0, <2>1, <2>2
  <2> QED
    BY <1>000, <2>3, <2>4, <2>5, QueueStays
<1>5. ASSUME NEW op \in Operations, Reclaim(op) PROVE Queue'
  <2>1. RowsStay /\ NoNewRows
    BY <1>5, StatusKeepsRows DEF Reclaim
  <2>2. UNCHANGED <<website, issued, worker>>
    BY <1>5 DEF Reclaim
  <2> QED
    BY <1>0, <1>000, <2>1, <2>2, QueueStays
<1>6. ASSUME NEW w \in Workers, NEW op \in Operations, RunBatch(w, op) PROVE Queue'
  <2>1. /\ worker'[w].pc = "process" /\ worker'[w].operationKey = op
        /\ worker'[w].website = job[op].website
        /\ \A v \in Workers \ {w} : worker'[v] = worker[v]
    BY <1>6, ProcessWorkers DEF RunBatch
  <2>2. HasRow(op, job[op].website) /\ UNCHANGED <<website, job, issued>>
    BY <1>6 DEF RunBatch, HasRow
  <2>3. ASSUME NEW v \in Workers
        PROVE  /\ worker'[v].pc # "claim" /\ worker'[v].operationKey # 0
                    => /\ worker'[v].operationKey \in Operations
                       /\ HasRow(worker'[v].operationKey, worker'[v].website)
               /\ worker'[v].pc = "claim" => worker'[v] = worker[v]
    BY <1>0, <2>1, <2>2
  <2> QED
    BY <1>00, <1>000, <2>2, <2>3, QueueStays
<1>7. ASSUME NEW w \in Workers, Keeps(w), RowsStay, NoNewRows,
             \A s \in Websites : website'[s].operationKey \in {0, website[s].operationKey},
             issued' = issued,
             worker[w].pc = "claim" => worker'[w] = Idle
      PROVE  Queue'
  <2>1. ASSUME NEW v \in Workers
        PROVE  /\ worker'[v].pc # "claim" /\ worker'[v].operationKey # 0
                    => /\ worker'[v].operationKey \in Operations
                       /\ HasRow(worker'[v].operationKey, worker'[v].website)
               /\ worker'[v].pc = "claim" => worker'[v] = worker[v]
    BY <1>0, <1>7 DEF Keeps, Idle
  <2> QED
    BY <1>7, <2>1, QueueStays
<1>8. ASSUME NEW w \in Workers, Keeps(w), UNCHANGED <<website, job, issued>>,
             worker[w].pc = "claim" => worker'[w] = Idle
      PROVE  Queue'
  BY <1>00, <1>000, <1>7, <1>8
<1>9. ASSUME NEW w \in Workers, Done(w), UNCHANGED <<website, job, issued>> PROVE Queue'
  BY <1>8, <1>9, DoneKeeps
<1>10. ASSUME NEW w \in Workers, LastWebsite(w) \/ ClaimLost(w) \/ JobTaken(w) \/ NothingToRestoreInto(w)
                                 \/ UpdateWebsiteCount(w) \/ Crash(w)
       PROVE  Queue'
  BY <1>9, <1>10 DEF LastWebsite, ClaimLost, JobTaken, NothingToRestoreInto, UpdateWebsiteCount, Crash
<1>11. ASSUME NEW w \in Workers,
              RetrieveSubscription(w) \/ CountSiblings(w) \/ NothingToUndo(w) \/ Undo(w)
                \/ AnswerLost(w) \/ CountWebsites(w) \/ ReadRetryCount(w)
                \/ CreateItem(w) \/ CreateAnswerLost(w) \/ CallFails(w)
       PROVE  Queue'
  <2>1. worker[w].pc # "claim" /\ UNCHANGED <<website, job, issued>>
    BY <1>11 DEF RetrieveSubscription, CountSiblings, NothingToUndo, Undo, AnswerLost,
                 CountWebsites, ReadRetryCount, CreateItem, CreateAnswerLost, CallFails, At
  <2>2. Keeps(w)
    BY <1>11, DoneKeeps, GoToKeeps, ConfirmedKeeps, CountKeeps, InspectionKeeps,
       RetryCountKeeps
       DEF NothingToUndo, Undo, AnswerLost, CreateItem, CreateAnswerLost, CallFails
  <2> QED
    BY <1>8, <2>1, <2>2
<1>12. ASSUME NEW w \in Workers, TakeJob(w) PROVE Queue'
  <2>1. worker[w].operationKey \in Operations
    BY <1>12, WorkerTyped DEF TakeJob, At, JobSteps
  <2>2. RowsStay /\ NoNewRows
    BY <1>12, <2>1, StatusKeepsRows DEF TakeJob
  <2>3. Keeps(w)
    BY <1>12, GoToKeeps DEF TakeJob
  <2> QED
    BY <1>7, <1>12, <1>000, <2>2, <2>3 DEF TakeJob, At
<1>13. ASSUME NEW w \in Workers, Load(w) PROVE Queue'
  <2>1. worker[w].pc = "load" /\ issued' = issued /\ website' = website
        /\ worker[w].operationKey \in Operations
    BY <1>13, WorkerTyped DEF Load, At, JobSteps
  <2>2. Keeps(w)
    BY <1>13, LoadKeeps
  <2>3. RowsStay /\ NoNewRows
    <3>1. job[worker[w].operationKey].status # "no row"
      BY <1>0, <2>1, OperationsTyped DEF HasRow
    <3> QED
      BY <1>00, <1>13, <2>1, <3>1, StatusKeepsRows DEF Load
  <2> QED
    BY <1>7, <1>000, <2>1, <2>2, <2>3
<1>14. ASSUME NEW w \in Workers, Decide(w) PROVE Queue'
  <2>1. worker[w].pc = "decide" /\ UNCHANGED <<job, issued>> /\ worker[w].website \in Websites
    BY <1>14, WorkerTyped DEF Decide, At
  <2>2. Keeps(w)
    BY <1>14, DecideKeeps
  <2>3. \A s \in Websites : website'[s].operationKey = website[s].operationKey
    BY <1>14, <2>1, RecordKeeps DEF Decide
  <2> QED
    BY <1>7, <1>00, <2>1, <2>2, <2>3
<1>15. ASSUME NEW w \in Workers, Finalize(w) PROVE Queue'
  <2>1. worker[w].pc = "finalize" /\ issued' = issued
        /\ worker[w].operationKey \in Operations /\ worker[w].website \in Websites
    BY <1>15, WorkerTyped DEF Finalize, At, JobSteps
  <2>2. Keeps(w)
    BY <1>15, GoToKeeps DEF Finalize
  <2>3. RowsStay /\ NoNewRows
    <3>1. job[worker[w].operationKey].status # "no row"
      BY <1>0, <2>1, OperationsTyped DEF HasRow
    <3> QED
      BY <1>00, <1>15, <2>1, <3>1, StatusKeepsRows DEF Finalize
  <2>4. \A s \in Websites : website'[s].operationKey = website[s].operationKey
    BY <1>15, <2>1, FinalizedWebsites
  <2> QED
    BY <1>7, <2>1, <2>2, <2>3, <2>4
<1>16. ASSUME NEW w \in Workers, MarkFailed(w) PROVE Queue'
  <2>1. worker[w].operationKey \in Operations /\ UNCHANGED <<website, issued>> /\ Done(w)
        /\ worker[w].pc = "mark"
    BY <1>16, WorkerTyped DEF MarkFailed, At, JobSteps
  <2>2. job[worker[w].operationKey].status # "no row"
    BY <1>0, <2>1, OperationsTyped DEF HasRow
  <2>3. RowsStay /\ NoNewRows
    BY <1>16, <2>1, <2>2, FailedRows
  <2> QED
    BY <1>7, <1>000, <2>1, <2>3, DoneKeeps
<1>17. ASSUME NEW w \in Workers, NEW s \in Websites, RequestRestore(w, s) PROVE Queue'
  BY <1>8, <1>17, RestoreKeeps DEF RequestRestore, At
<1>21. ASSUME NEW w \in Workers, NEW s \in Websites, RequestRemoval(w, s) PROVE Queue'
  BY <1>8, <1>21, RequestKeeps DEF RequestRemoval, At
<1>18. ASSUME NEW w \in Workers, Restore(w) \/ RecoverUnpaid(w) PROVE Queue'
  <2>1. UNCHANGED <<job, issued>> /\ worker[w].pc # "claim" /\ worker[w].website \in Websites
    BY <1>18, WorkerTyped DEF Restore, RecoverUnpaid, At
  <2>2. Keeps(w)
    BY <1>18, DoneKeeps, GoToKeeps DEF Restore, RecoverUnpaid
  <2>3. \A s \in Websites : website'[s].operationKey \in {0, website[s].operationKey}
    BY <1>18, <2>1, TypingParts DEF Restore, RecoverUnpaid, Recovered, KeysTyped
  <2> QED
    BY <1>7, <1>00, <2>1, <2>2, <2>3
<1>19. ASSUME NEW s \in Websites, DeadlinePasses(s) PROVE Queue'
  <2>1. UNCHANGED <<job, issued, worker>>
    BY <1>19 DEF DeadlinePasses
  <2>2. \A t \in Websites : website'[t].operationKey = website[t].operationKey
    BY <1>19, DeadlineWebsites
  <2> QED
    BY <1>0, <1>00, <2>1, <2>2, QueueStays
<1>20. CASE UNCHANGED vars
  BY <1>20 DEF vars, Queue, WorkersQueued, ClaimsFresh, KeysQueued, HasRow
<1> QED
  BY <1>1, <1>2, <1>4, <1>5, <1>6, <1>10, <1>11, <1>12, <1>13, <1>14, <1>15, <1>16,
     <1>17, <1>18, <1>19, <1>20, <1>21 DEF Next, WorkerStep

(* Websites, queue rows, the objects at Stripe, the counts and what workers  *)
(* remember between two calls keep their shapes and ranges, for any number   *)
(* of websites and of overlapping requests and workers.                      *)
THEOREM RemovalTyped == SafetySpec => []TypeOK
<1>1. Init => Typing /\ Queue
  BY TypingInit, QueueInit
<1>2. Typing /\ Queue /\ [Next]_vars => (Typing /\ Queue)'
  BY TypingStep, QueueStep
<1>3. Typing => TypeOK
  BY TypingIsEnough
<1> QED
  BY <1>1, <1>2, <1>3, PTL DEF SafetySpec

(* Keys never get mixed up: whoever processes an operation works on the      *)
(* website of that operation's row, the key a website carries has a row of   *)
(* that website, and a key still to be claimed has no row and belongs to one *)
(* request (requestWebsiteRemoval to finalizeRemoval).                       *)
THEOREM KeysReachTheirRows == SafetySpec => []Queue
<1>1. Init => Typing /\ Queue
  BY TypingInit, QueueInit
<1>2. Typing /\ Queue /\ [Next]_vars => (Typing /\ Queue)'
  BY TypingStep, QueueStep
<1> QED
  BY <1>1, <1>2, PTL DEF SafetySpec

-----------------------------------------------------------------------------
(* What a step can do to one website, to one worker, to Stripe and to the    *)
(* queue: the invariants below depend on nothing else.                       *)

SameWebsite(t) ==
    /\ website'[t].operationKey = website[t].operationKey
    /\ website'[t].removalStatus = website[t].removalStatus
    /\ website'[t].billingAction = website[t].billingAction
    /\ website'[t].isActive = website[t].isActive
    /\ website'[t].item = website[t].item

IsClaimed(t, w) ==
    /\ worker[w].pc = "claim"
    /\ IsListed(t)
    /\ website'[t].operationKey = worker[w].operationKey
    /\ website'[t].removalStatus = "cancellation_pending"
    /\ website'[t].billingAction = "unknown"
    /\ website'[t].isActive = FALSE
    /\ website'[t].item = website[t].item
    /\ job'[worker[w].operationKey].status = "pending"

IsRecorded(t, w) ==
    /\ worker[w].pc = "decide"
    /\ website'[t].operationKey = website[t].operationKey
    /\ website'[t].removalStatus = website[t].removalStatus
    /\ website'[t].billingAction = ActionFor(t, worker[w].item, worker[w].action,
                                            worker[w].seen)
    /\ website'[t].isActive = website[t].isActive
    /\ website'[t].item = website[t].item

IsRemoved(t, w) ==
    /\ worker[w].pc = "finalize"
    /\ Pending(t, worker[w].operationKey)
    /\ website'[t].operationKey = website[t].operationKey
    /\ website'[t].removalStatus = "removed"
    /\ website'[t].billingAction = worker[w].action
    /\ website'[t].isActive = FALSE
    /\ website'[t].item = website[t].item
    /\ UNCHANGED stripe

IsRestored(t, w) ==
    /\ worker[w].pc = "restore"
    /\ website'[t].operationKey = 0
    /\ website'[t].removalStatus = "active"
    /\ website'[t].billingAction = "none"
    /\ website'[t].item = worker[w].item

IsRecovered(t) ==
    /\ website'[t].operationKey = 0
    /\ website'[t].removalStatus = "active"
    /\ website'[t].billingAction = "none"
    /\ website'[t].isActive = FALSE
    /\ website'[t].item = website[t].item

ChangedBy(t, w) ==
    /\ worker[w].website = t
    /\ \/ IsClaimed(t, w) \/ IsRecorded(t, w) \/ IsRemoved(t, w)
       \/ IsRestored(t, w) \/ IsRecovered(t)

LEMMA WebsiteStep ==
  ASSUME Typing, [Next]_vars, NEW t \in Websites
  PROVE  SameWebsite(t) \/ \E w \in Workers : ChangedBy(t, w)
<1> DEFINE Goal == SameWebsite(t) \/ \E w \in Workers : ChangedBy(t, w)
<1>0. CASE UNCHANGED website
  BY <1>0 DEF SameWebsite
<1>1. ASSUME NEW w \in Workers, Claim(w) PROVE Goal
  <2>1. /\ worker[w].pc = "claim" /\ IsListed(worker[w].website)
        /\ worker[w].website \in Websites /\ worker[w].operationKey \in Operations
    BY <1>1, WorkerTyped DEF Claim, At
  <2>2. job'[worker[w].operationKey].status = "pending"
    BY <1>1, <2>1, TypingParts DEF Claim, RowsTyped
  <2>3. CASE t = worker[w].website
    <3>1. IsClaimed(t, w)
      BY <1>1, <2>1, <2>2, <2>3, ClaimedWebsites DEF IsClaimed
    <3> QED
      BY <2>3, <3>1 DEF ChangedBy
  <2>4. CASE t # worker[w].website
    BY <1>1, <2>4, ClaimedWebsites DEF SameWebsite
  <2> QED
    BY <2>3, <2>4
<1>2. ASSUME NEW w \in Workers, Decide(w) PROVE Goal
  <2> DEFINE s == worker[w].website
             action == ActionFor(s, worker[w].item, worker[w].action, worker[w].seen)
  <2>1. worker[w].pc = "decide" /\ s \in Websites
    BY <1>2, WorkerTyped DEF Decide, At
  <2>2. UNCHANGED website \/ Record(s, worker[w].operationKey, action)
    BY <1>2 DEF Decide
  <2> HIDE DEF s, action
  <2>3. /\ website'[t].operationKey = website[t].operationKey
        /\ website'[t].removalStatus = website[t].removalStatus
        /\ website'[t].item = website[t].item
        /\ website'[t].isActive = website[t].isActive
        /\ website'[t].billingAction # website[t].billingAction =>
              t = s /\ website'[t].billingAction = action
    BY <2>1, <2>2, RecordKeeps
  <2>4. CASE website'[t].billingAction = website[t].billingAction
    BY <2>3, <2>4 DEF SameWebsite
  <2>5. CASE website'[t].billingAction # website[t].billingAction
    BY <2>1, <2>3, <2>5 DEF ChangedBy, IsRecorded, s, action
  <2> QED
    BY <2>4, <2>5
<1>3. ASSUME NEW w \in Workers, Finalize(w) PROVE Goal
  <2>1. CASE website'[t] = website[t]
    BY <2>1 DEF SameWebsite
  <2>2. CASE website'[t] # website[t]
    BY <1>3, <2>2, FinalizedWebsites DEF ChangedBy, IsRemoved, Finalize, At
  <2> QED
    BY <2>1, <2>2
<1>4. ASSUME NEW w \in Workers, NEW active, NEW primary, NEW item, worker[w].website \in Websites,
             website' = Recovered(worker[w].website, active, primary, item),
             \/ worker[w].pc = "restore" /\ item = worker[w].item
             \/ active = FALSE /\ item = website[worker[w].website].item
      PROVE  Goal
  <2> DEFINE s == worker[w].website
  <2>1. s \in Websites /\ website' = Recovered(s, active, primary, item)
    BY <1>4
  <2>2. CASE t # s
    <3> HIDE DEF s
    <3>1. website'[t] = website[t]
      BY <2>1, <2>2, RecoveredWebsites
    <3> QED
      BY <3>1 DEF SameWebsite
  <2>3. CASE t = s
    <3>1. /\ website'[t].operationKey = 0
          /\ website'[t].removalStatus = "active"
          /\ website'[t].item = item
          /\ website'[t].isActive = active
          /\ website'[t].billingAction = "none"
      <4> HIDE DEF s
      <4> QED
        BY <2>1, <2>3, RecoveredWebsites
    <3>2. IsRestored(t, w) \/ IsRecovered(t)
      BY <1>4, <2>3, <3>1 DEF IsRestored, IsRecovered
    <3> QED
      BY <2>3, <3>2 DEF ChangedBy
  <2> QED
    BY <2>2, <2>3
<1>5. ASSUME NEW w \in Workers, Restore(w) PROVE Goal
  BY <1>4, <1>5, WorkerTyped DEF Restore, At
<1>6. ASSUME NEW w \in Workers, RecoverUnpaid(w) PROVE Goal
  BY <1>4, <1>6, WorkerTyped DEF RecoverUnpaid, At
<1>7. ASSUME NEW s \in Websites, DeadlinePasses(s) PROVE Goal
  BY <1>7, DeadlineWebsites DEF SameWebsite
<1>8. \/ UNCHANGED website
      \/ \E w \in Workers : Claim(w) \/ Decide(w) \/ Finalize(w) \/ Restore(w) \/ RecoverUnpaid(w)
      \/ \E s \in Websites : DeadlinePasses(s)
  BY DEF Next, WorkerStep, vars, RequestRemoval, Retry, RequestRestore, RunBatch, Reclaim,
         PickReplacement, LastWebsite, ClaimLost, TakeJob, JobTaken, Load,
         RetrieveSubscription, CountSiblings, NothingToUndo, Undo, CountWebsites,
         UpdateWebsiteCount, ReadRetryCount, MarkFailed, CreateItem, NothingToRestoreInto, AnswerLost,
         CreateAnswerLost, CallFails, Crash
<1> QED
  BY <1>0, <1>1, <1>2, <1>3, <1>5, <1>6, <1>7, <1>8

LEMMA StripeStep ==
  ASSUME [Next]_vars
  PROVE  \/ UNCHANGED stripe
         \/ \E w \in Workers : /\ worker[w].pc = "effect"
                               /\ CallStripe(worker[w].website, worker[w].item, worker[w].action)
         \/ \E w \in Workers : /\ worker[w].pc = "createItem"
                               /\ StripeCreates(worker[w].website, worker[w].item)
  BY DEF Next, WorkerStep, vars, RequestRemoval, Retry, RequestRestore, RunBatch, Reclaim,
         PickReplacement, LastWebsite, Claim, ClaimLost, TakeJob, JobTaken, Load,
         RetrieveSubscription, CountSiblings, NothingToUndo, Decide, Undo, Finalize,
         CountWebsites, UpdateWebsiteCount, ReadRetryCount, MarkFailed, CreateItem, NothingToRestoreInto,
         Restore, RecoverUnpaid, DeadlinePasses, AnswerLost, CreateAnswerLost, CallFails,
         Crash, At

LEMMA RowsStep ==
  ASSUME Typing, Queue, [Next]_vars
  PROVE  RowsStay
<1>0. CASE UNCHANGED job
  BY <1>0 DEF RowsStay
<1>1. ASSUME NEW w \in Workers, worker[w].pc \in JobSteps
      PROVE  worker[w].operationKey \in Operations /\ job[worker[w].operationKey].status # "no row"
  BY <1>1, WorkerTyped, OperationsTyped DEF Queue, WorkersQueued, HasRow, JobSteps
<1>2. ASSUME NEW w \in Workers, Claim(w) PROVE RowsStay
  BY <1>2, WorkerTyped, TypingParts
     DEF Claim, At, Queue, ClaimsFresh, RowsStay, RowsTyped
<1>3. ASSUME NEW w \in Workers, NEW s \in Websites, Retry(w, s) PROVE RowsStay
  <2> DEFINE op == website[s].operationKey
  <2>1. op \in Operations /\ job[op].status # "no row"
    BY <1>3, TypingParts DEF Retry, KeysTyped
  <2>2. job' = [job EXCEPT ![op].status = "pending", ![op].retryCount = 0]
    BY <1>3 DEF Retry
  <2>3. \A o \in Operations : job[o] \in Job
    BY TypingParts DEF RowsTyped
  <2> HIDE DEF op
  <2> QED
    BY <2>1, <2>2, <2>3, TypingParts DEF RowsStay, RowsTyped, Job
<1>4. ASSUME NEW op \in Operations, Reclaim(op) PROVE RowsStay
  BY <1>4, StatusKeepsRows DEF Reclaim
<1>5. ASSUME NEW w \in Workers, TakeJob(w) PROVE RowsStay
  BY <1>5, <1>1, StatusKeepsRows DEF TakeJob, At, JobSteps
<1>6. ASSUME NEW w \in Workers, Load(w) PROVE RowsStay
  <2>1. worker[w].pc = "load"
    BY <1>6 DEF Load, At
  <2>2. worker[w].operationKey \in Operations /\ job[worker[w].operationKey].status # "no row"
    BY <1>1, <2>1 DEF JobSteps
  <2> QED
    BY <1>0, <1>6, <2>2, StatusKeepsRows DEF Load
<1>7. ASSUME NEW w \in Workers, Finalize(w) PROVE RowsStay
  <2>1. worker[w].pc = "finalize"
    BY <1>7 DEF Finalize, At
  <2>2. worker[w].operationKey \in Operations /\ job[worker[w].operationKey].status # "no row"
    BY <1>1, <2>1 DEF JobSteps
  <2> QED
    BY <1>0, <1>7, <2>2, StatusKeepsRows DEF Finalize
<1>8. ASSUME NEW w \in Workers, MarkFailed(w) PROVE RowsStay
  BY <1>8, <1>1, FailedRows DEF MarkFailed, At, JobSteps
<1>9. \/ UNCHANGED job
      \/ \E w \in Workers : \/ Claim(w) \/ TakeJob(w) \/ Load(w) \/ Finalize(w) \/ MarkFailed(w)
                            \/ \E s \in Websites : Retry(w, s)
      \/ \E op \in Operations : Reclaim(op)
  BY DEF Next, WorkerStep, vars, RequestRemoval, RequestRestore, RunBatch,
         PickReplacement, LastWebsite, ClaimLost, JobTaken, RetrieveSubscription,
         CountSiblings, NothingToUndo, Decide, Undo, CountWebsites,
         UpdateWebsiteCount, ReadRetryCount, CreateItem, NothingToRestoreInto, Restore, RecoverUnpaid,
         DeadlinePasses, AnswerLost, CreateAnswerLost, CallFails, Crash
<1> QED
  BY <1>0, <1>2, <1>3, <1>4, <1>5, <1>6, <1>7, <1>8, <1>9

(* Only a claim makes a new row.                                            *)
LEMMA NewRowIsClaimed ==
  ASSUME Typing, Queue, [Next]_vars, NEW op \in Operations,
         job[op].status = "no row", job'[op].status # "no row"
  PROVE  \E w \in Workers : Claim(w) /\ op = worker[w].operationKey
<1>0. \A o \in Operations : job[o] \in Job
  BY TypingParts DEF RowsTyped
<1>1. ASSUME NEW o \in Operations, job[o].status # "no row" PROVE o # op
  BY <1>1
<1>2. ASSUME NEW w \in Workers, worker[w].pc \in JobSteps
      PROVE  worker[w].operationKey \in Operations /\ worker[w].operationKey # op
  BY <1>2, WorkerTyped, OperationsTyped DEF Queue, WorkersQueued, HasRow, JobSteps
<1>3. ASSUME NEW w \in Workers, Claim(w) PROVE op = worker[w].operationKey
  BY <1>3, TypingParts DEF Claim, RowsTyped
<1>4. ASSUME NEW w \in Workers, NEW s \in Websites, Retry(w, s) PROVE FALSE
  BY <1>0, <1>4, TypingParts DEF Retry, RowsTyped, KeysTyped
<1>5. ASSUME NEW o \in Operations, Reclaim(o) PROVE FALSE
  BY <1>0, <1>5, TypingParts DEF Reclaim, RowsTyped
<1>6. ASSUME NEW w \in Workers, TakeJob(w) \/ Load(w) \/ Finalize(w) \/ MarkFailed(w)
      PROVE  FALSE
  <2>1. worker[w].pc \in JobSteps
    BY <1>6 DEF TakeJob, Load, Finalize, MarkFailed, At, JobSteps
  <2> QED
    BY <1>0, <1>2, <1>6, <2>1, TypingParts DEF TakeJob, Load, Finalize, MarkFailed, RowsTyped
<1>7. \/ UNCHANGED job
      \/ \E w \in Workers : \/ Claim(w) \/ TakeJob(w) \/ Load(w) \/ Finalize(w) \/ MarkFailed(w)
                            \/ \E s \in Websites : Retry(w, s)
      \/ \E o \in Operations : Reclaim(o)
  BY DEF Next, WorkerStep, vars, RequestRemoval, RequestRestore, RunBatch,
         PickReplacement, LastWebsite, ClaimLost, JobTaken, RetrieveSubscription,
         CountSiblings, NothingToUndo, Decide, Undo, CountWebsites,
         UpdateWebsiteCount, ReadRetryCount, CreateItem, NothingToRestoreInto, Restore, RecoverUnpaid,
         DeadlinePasses, AnswerLost, CreateAnswerLost, CallFails, Crash
<1> QED
  BY <1>3, <1>4, <1>5, <1>6, <1>7

SameJob(v) ==
    /\ worker'[v].website = worker[v].website
    /\ worker'[v].operationKey = worker[v].operationKey
    /\ worker'[v].item = worker[v].item

Elsewhere(v) == worker'[v].pc \notin BillingSteps \union {"restore", "createItem"}

Loads(v) ==
    /\ worker[v].website \in Websites
    /\ worker[v].operationKey \in Operations
    /\ website[worker[v].website].operationKey = worker[v].operationKey
    /\ worker'[v].pc = "inspect"
    /\ worker'[v].website = worker[v].website
    /\ worker'[v].operationKey = worker[v].operationKey
    /\ worker'[v].item = website[worker[v].website].item
    /\ worker'[v].action = website[worker[v].website].billingAction
    /\ UNCHANGED <<website, stripe>>

(* A read of the inspection, of the subscription or of the siblings.        *)
Inspects(v) ==
    /\ SameJob(v)
    /\ worker'[v].action = worker[v].action
    /\ \/ /\ worker[v].pc = "inspect" /\ worker'[v].pc = "siblings"
          /\ worker'[v].seen.canceled => SubscriptionOf[worker[v].website] \in canceled
       \/ /\ worker[v].pc = "siblings" /\ worker'[v].pc = "decide"
          /\ worker'[v].seen.canceled = worker[v].seen.canceled
          /\ worker'[v].seen.siblings = (Siblings(worker[v].website) # {})
    /\ UNCHANGED <<website, stripe>>

(* Why a worker goes on to the effect or straight to finalising.            *)
Verdict(v, s, item, action) ==
    \/ /\ worker'[v].action = worker[v].action
       /\ worker'[v].action = "delete_shared_subscription_item"
       /\ ~IsLive(s, item)
    \/ /\ worker[v].seen.canceled
       /\ worker'[v].action = ActionAfterCancellation(action, worker[v].seen)
    \/ /\ worker'[v].action = action
       /\ action # "unknown"
       /\ worker'[v].pc = "finalize" => ~IsLive(s, item)

Judges(v) ==
    /\ worker'[v].pc \in {"effect", "finalize"}
    /\ SameJob(v)
    /\ UNCHANGED stripe
    /\ \/ /\ worker[v].pc = "inspect"
          /\ worker[v].website \notin Billed
          /\ worker'[v].pc = "finalize"
       \/ /\ worker[v].pc = "decide"
          /\ Verdict(v, worker[v].website, worker[v].item,
                     ActionFor(worker[v].website, worker[v].item, worker[v].action,
                               worker[v].seen))

Undoes(v) ==
    /\ worker[v].pc = "effect"
    /\ worker'[v].pc = "finalize"
    /\ SameJob(v)
    /\ worker'[v].action = worker[v].action
    /\ CallStripe(worker[v].website, worker[v].item, worker[v].action)
    /\ UNCHANGED website

StartsRestore(v) ==
    /\ worker'[v].website \in Websites
    /\ website[worker'[v].website].removalStatus = "removed"
    /\ \/ /\ worker'[v].pc = "createItem"
          /\ worker'[v].item = website[worker'[v].website].operationKey
       \/ /\ worker'[v].pc = "restore"
          /\ worker'[v].item = website[worker'[v].website].item
          /\ website[worker'[v].website].billingAction = "none"
    /\ UNCHANGED <<website, stripe>>

Creates(v) ==
    /\ worker[v].pc = "createItem"
    /\ worker'[v].pc = "restore"
    /\ SameJob(v)
    /\ worker[v].item \in restoredBy'
    /\ UNCHANGED website

LEMMA WorkerMoved ==
  ASSUME Typing, [Next]_vars, NEW v \in Workers
  PROVE  \/ worker'[v] = worker[v] \/ Elsewhere(v) \/ Loads(v) \/ Inspects(v) \/ Judges(v)
         \/ Undoes(v) \/ StartsRestore(v) \/ Creates(v)
<1> DEFINE Goal == \/ worker'[v] = worker[v] \/ Elsewhere(v) \/ Loads(v)
                   \/ Inspects(v) \/ Judges(v)
                   \/ Undoes(v) \/ StartsRestore(v) \/ Creates(v)
<1> USE DEF stripe
<1>0. worker[v] \in Worker
  BY WorkerTyped
<1>1. ASSUME NEW w \in Workers, Done(w) PROVE Goal
  BY <1>1, DoneWorkers DEF Elsewhere, BillingSteps, Idle
<1>2. ASSUME NEW w \in Workers, NEW pc \in {"load", "fail", "count"}, GoTo(w, pc)
      PROVE  Goal
  BY <1>2, GoToWorkers DEF Elsewhere, BillingSteps
<1>3. ASSUME NEW w \in Workers,
             \/ \E s \in Websites : RequestRemoval(w, s)
             \/ PickReplacement(w) \/ ReadRetryCount(w)
      PROVE  Goal
  <2>1. v # w => worker'[v] = worker[v]
    BY <1>3, TypingParts DEF RequestRemoval, PickReplacement, ReadRetryCount, WorkersTyped
  <2>2. (\E s \in Websites : RequestRemoval(w, s)) => worker'[w].pc = "select"
    BY TypingParts DEF RequestRemoval, WorkersTyped, Idle
  <2>3. worker[w] \in Worker
    BY WorkerTyped
  <2>4. /\ PickReplacement(w) => worker'[w].pc = "claim"
        /\ ReadRetryCount(w) => worker'[w].pc = "mark"
    BY <2>3, TypingParts DEF PickReplacement, ReadRetryCount, WorkersTyped, Worker
  <2> QED
    BY <1>3, <2>1, <2>2, <2>4 DEF Elsewhere, BillingSteps
<1>4. ASSUME NEW w \in Workers, NEW s, NEW op, Process(w, s, op) PROVE Goal
  BY <1>4, ProcessWorkers DEF Elsewhere, BillingSteps
<1>15. ASSUME NEW w \in Workers, RetrieveSubscription(w) \/ CountSiblings(w) PROVE Goal
  <2>1. v # w => worker'[v] = worker[v]
    BY <1>15, TypingParts DEF RetrieveSubscription, CountSiblings, WorkersTyped
  <2>2. CASE v = w
    <3>1. UNCHANGED <<website, stripe>>
      BY <1>15 DEF RetrieveSubscription, CountSiblings
    <3>2. CASE RetrieveSubscription(w)
      <4>1. /\ worker[v].pc = "inspect" /\ worker'[v].pc = "siblings"
            /\ SameJob(v) /\ worker'[v].action = worker[v].action
            /\ worker'[v].seen.canceled => SubscriptionOf[worker[v].website] \in canceled
        BY <1>0, <2>2, <3>2, TypingParts
           DEF RetrieveSubscription, At, WorkersTyped, Worker, SameJob
      <4> QED
        BY <3>1, <4>1 DEF Inspects
    <3>3. CASE CountSiblings(w)
      <4>1. /\ worker[v].pc = "siblings" /\ worker'[v].pc = "decide"
            /\ SameJob(v) /\ worker'[v].action = worker[v].action
            /\ worker'[v].seen.canceled = worker[v].seen.canceled
            /\ worker'[v].seen.siblings = (Siblings(worker[v].website) # {})
        BY <1>0, <2>2, <3>3, TypingParts
           DEF CountSiblings, At, WorkersTyped, Worker, Inspection, SameJob
      <4> QED
        BY <3>1, <4>1 DEF Inspects
    <3> QED
      BY <1>15, <3>2, <3>3
  <2> QED
    BY <2>1, <2>2
<1>5. ASSUME NEW w \in Workers, NEW s \in Websites, RequestRestore(w, s) PROVE Goal
  <2>1. PICK pc \in {"createItem", "restore", "expire"} :
          /\ CASE pc = "createItem" ->
                    website[s].billingAction = "delete_shared_subscription_item"
               [] pc = "restore" -> website[s].billingAction = "none"
               [] OTHER ->
                    website[s].billingAction # "delete_shared_subscription_item"
          /\ worker' = [worker EXCEPT ![w] =
                          [Idle EXCEPT !.pc = pc, !.website = s,
                                       !.item = IF pc = "createItem"
                                                THEN website[s].operationKey
                                                ELSE website[s].item]]
    BY <1>5 DEF RequestRestore
  <2>2. /\ v # w => worker'[v] = worker[v]
        /\ v = w => /\ worker'[v].pc = pc
                    /\ worker'[v].website = s
                    /\ worker'[v].item = IF pc = "createItem" THEN website[s].operationKey
                                                              ELSE website[s].item
    BY <2>1, TypingParts DEF WorkersTyped, Idle
  <2>3. pc = "restore" => website[s].billingAction = "none"
    BY <2>1
  <2>4. website[s].removalStatus = "removed" /\ UNCHANGED <<website, stripe>>
    BY <1>5 DEF RequestRestore
  <2> QED
    BY <2>2, <2>3, <2>4 DEF StartsRestore, Elsewhere, BillingSteps
<1>6. ASSUME NEW w \in Workers, Load(w) PROVE Goal
  <2>1. CASE Done(w)
    BY <1>1, <2>1
  <2>2. CASE ~Done(w)
    <3>1. /\ website[worker[w].website].operationKey = worker[w].operationKey
          /\ worker' = [worker EXCEPT ![w].pc = "inspect",
                                      ![w].item = website[worker[w].website].item,
                                      ![w].action = website[worker[w].website].billingAction]
          /\ UNCHANGED <<website, stripe>> /\ worker[w].pc = "load"
      BY <1>6, <2>2 DEF Load, At
    <3>2. worker[w] \in Worker /\ worker[w].website \in Websites
          /\ worker[w].operationKey \in Operations
      BY <3>1, WorkerTyped DEF JobSteps
    <3>3. v # w => worker'[v] = worker[v]
      BY <3>1, TypingParts DEF WorkersTyped
    <3>4. v = w => Loads(v)
      BY <3>1, <3>2, TypingParts DEF WorkersTyped, Worker, Loads
    <3> QED
      BY <3>3, <3>4
  <2> QED
    BY <2>1, <2>2
<1>7. ASSUME NEW w \in Workers, NothingToUndo(w) PROVE Goal
  <2> DEFINE s == worker[w].website
             action == ActionFor(s, worker[w].item, worker[w].action, worker[w].seen)
  <2>1. UNCHANGED stripe
    BY <1>7 DEF NothingToUndo
  <2>2. PICK a, target :
          /\ Confirmed(w, a, target)
          /\ \/ worker[w].pc = "inspect" /\ s \notin Billed
             \/ /\ worker[w].pc = "decide"
                /\ a = worker[w].action
                /\ a = "delete_shared_subscription_item"
                /\ ~IsLive(s, worker[w].item)
             \/ /\ worker[w].pc = "decide"
                /\ worker[w].seen.canceled
                /\ a = ActionAfterCancellation(action, worker[w].seen)
    BY <1>7 DEF NothingToUndo, At
  <2> HIDE DEF s, action
  <2>3. /\ v # w => worker'[v] = worker[v]
        /\ v = w => worker'[v].pc = "finalize" /\ SameJob(v) /\ worker'[v].action = a
    BY <2>2, ConfirmedWorkers DEF SameJob
  <2>4. v = w => \/ worker[v].pc = "inspect" /\ s \notin Billed
                 \/ worker[v].pc = "decide" /\ Verdict(v, s, worker[v].item, action)
    BY <2>2, <2>3 DEF Verdict
  <2> QED
    BY <2>1, <2>3, <2>4 DEF Judges, s, action
<1>8. ASSUME NEW w \in Workers, Decide(w) PROVE Goal
  <2> DEFINE s == worker[w].website
             action == ActionFor(s, worker[w].item, worker[w].action, worker[w].seen)
  <2>1. worker[w].pc = "decide" /\ UNCHANGED stripe
    BY <1>8 DEF Decide, At
  <2>2. \/ GoTo(w, "fail")
        \/ /\ action = "delete_shared_subscription_item"
           /\ ~IsLive(s, worker[w].item)
           /\ Confirmed(w, action, "item")
        \/ /\ action # "unknown"
           /\ worker' = [worker EXCEPT ![w].pc = "effect", ![w].action = action,
                                       ![w].seen = NothingSeen]
    BY <1>8 DEF Decide
  <2> HIDE DEF s, action
  <2>3. CASE GoTo(w, "fail")
    BY <1>2, <2>3
  <2>4. CASE /\ action = "delete_shared_subscription_item"
             /\ ~IsLive(s, worker[w].item)
             /\ Confirmed(w, action, "item")
    <3>1. /\ v # w => worker'[v] = worker[v]
          /\ v = w => worker'[v].pc = "finalize" /\ SameJob(v) /\ worker'[v].action = action
      BY <2>4, ConfirmedWorkers DEF SameJob
    <3>2. v = w => Verdict(v, s, worker[v].item, action)
      BY <2>4, <3>1 DEF Verdict
    <3> QED
      BY <2>1, <3>1, <3>2 DEF Judges, s, action
  <2>5. CASE /\ action # "unknown"
             /\ worker' = [worker EXCEPT ![w].pc = "effect", ![w].action = action,
                                       ![w].seen = NothingSeen]
    <3>1. v # w => worker'[v] = worker[v]
      BY <2>5, TypingParts DEF WorkersTyped
    <3>2. v = w => worker'[v].pc = "effect" /\ SameJob(v) /\ worker'[v].action = action
      BY <1>0, <2>5, TypingParts DEF SameJob, WorkersTyped, Worker
    <3>3. v = w => Verdict(v, s, worker[v].item, action)
      BY <2>5, <3>2 DEF Verdict
    <3> QED
      BY <2>1, <3>1, <3>2, <3>3 DEF Judges, s, action
  <2> QED
    BY <2>2, <2>3, <2>4, <2>5
<1>9. ASSUME NEW w \in Workers, Undo(w) PROVE Goal
  <2>1. PICK target : Confirmed(w, worker[w].action, target)
    BY <1>9 DEF Undo
  <2>2. /\ v # w => worker'[v] = worker[v]
        /\ v = w => worker'[v].pc = "finalize" /\ SameJob(v)
                    /\ worker'[v].action = worker[v].action
    BY <2>1, ConfirmedWorkers DEF SameJob
  <2> QED
    BY <1>9, <2>2 DEF Undoes, Undo, At
<1>10. ASSUME NEW w \in Workers, CreateItem(w) PROVE Goal
  <2>1. /\ v # w => worker'[v] = worker[v]
        /\ v = w => worker'[v].pc = "restore" /\ SameJob(v)
    BY <1>10, GoToWorkers DEF CreateItem, SameJob
  <2> QED
    BY <1>10, <2>1 DEF CreateItem, StripeCreates, Creates, At
<1>11. ASSUME NEW w \in Workers, CountWebsites(w) PROVE Goal
  BY <1>0, <1>11, TypingParts DEF CountWebsites, WorkersTyped, Worker, Elsewhere, BillingSteps
<1>12. ASSUME NEW w \in Workers,
              \/ LastWebsite(w) \/ ClaimLost(w) \/ TakeJob(w) \/ JobTaken(w) \/ Finalize(w)
              \/ UpdateWebsiteCount(w) \/ MarkFailed(w) \/ NothingToRestoreInto(w)
              \/ Restore(w) \/ RecoverUnpaid(w) \/ AnswerLost(w) \/ CreateAnswerLost(w)
              \/ CallFails(w) \/ Crash(w)
       PROVE  Goal
  <2>1. Done(w) \/ \E pc \in {"load", "fail", "count"} : GoTo(w, pc)
    BY <1>12 DEF LastWebsite, ClaimLost, TakeJob, JobTaken, Finalize, UpdateWebsiteCount, MarkFailed,
                 NothingToRestoreInto, Restore, RecoverUnpaid, AnswerLost, CreateAnswerLost,
                 CallFails, Crash
  <2> QED
    BY <1>1, <1>2, <2>1
<1>16. ASSUME NEW w \in Workers,
              \/ \E s \in Websites : Retry(w, s)
              \/ \E op \in Operations : RunBatch(w, op)
              \/ Claim(w)
       PROVE  Goal
  BY <1>4, <1>16 DEF Retry, RunBatch, Claim
<1>13. CASE UNCHANGED worker
  BY <1>13
<1>14. (\E op \in Operations : Reclaim(op)) \/ (\E s \in Websites : DeadlinePasses(s))
         \/ UNCHANGED vars
       => UNCHANGED worker
  BY DEF Reclaim, DeadlinePasses, vars
<1> QED
  BY <1>3, <1>5, <1>6, <1>7, <1>8, <1>9, <1>10, <1>11, <1>12, <1>13, <1>14, <1>15, <1>16
     DEF Next, WorkerStep

-----------------------------------------------------------------------------
(* A pending removal's row is never completed: rows are completed for a      *)
(* website that is removed, or together with removing it.                    *)
Unfinished ==
    \A s \in Websites : website[s].removalStatus = "cancellation_pending" =>
        job[website[s].operationKey].status # "completed"

Base == Typing /\ Queue

(* No two websites are being removed by the same operation.                  *)
LEMMA KeysDiffer ==
  ASSUME Base, NEW s \in Websites, NEW t \in Websites,
         website[s].operationKey = website[t].operationKey, website[s].operationKey # 0
  PROVE  s = t
  BY DEF Base, Queue, KeysQueued, HasRow

LEMMA CompletedStep ==
  ASSUME Typing, Queue, [Next]_vars, NEW op \in Operations,
         job'[op].status = "completed", job[op].status # "completed"
  PROVE  \E s \in Websites : /\ website[s].operationKey = op
                             /\ website'[s].removalStatus = "removed"
<1>1. ASSUME NEW w \in Workers, Load(w)
      PROVE  \E s \in Websites : /\ website[s].operationKey = op
                                 /\ website'[s].removalStatus = "removed"
  BY <1>1, WorkerTyped, TypingParts DEF Load, At, JobSteps, RowsTyped
<1>2. ASSUME NEW w \in Workers, Finalize(w)
      PROVE  \E s \in Websites : /\ website[s].operationKey = op
                                 /\ website'[s].removalStatus = "removed"
  <2>1. worker[w].website \in Websites
    BY <1>2, WorkerTyped DEF Finalize, At
  <2>2. Pending(worker[w].website, worker[w].operationKey) /\ worker[w].operationKey = op
    BY <1>2, TypingParts DEF Finalize, RowsTyped
  <2>3. website'[worker[w].website].removalStatus = "removed"
    BY <1>2, <2>1, <2>2, TypingParts, RowTyped DEF Finalize, KeysTyped, Website
  <2> QED
    BY <2>1, <2>2, <2>3 DEF Pending
<1>3. ASSUME \A w \in Workers : ~Load(w) /\ ~Finalize(w)
      PROVE  FALSE
  <2>1. ASSUME NEW o, NEW st, st # "completed", job' = [job EXCEPT ![o].status = st]
        PROVE  FALSE
    <3>1. \A q \in Operations : job[q] \in Job
      BY TypingParts DEF RowsTyped
    <3> QED
      BY <2>1, <3>1, TypingParts DEF RowsTyped, Job
  <2>2. ASSUME NEW o, NEW st, NEW n, st # "completed",
               job' = [job EXCEPT ![o].status = st, ![o].retryCount = n]
        PROVE  FALSE
    <3>1. \A q \in Operations : job[q] \in Job
      BY TypingParts DEF RowsTyped
    <3> QED
      BY <2>2, <3>1, TypingParts DEF RowsTyped, Job
  <2>3. ASSUME NEW w \in Workers, Claim(w) PROVE FALSE
    BY <2>3, TypingParts DEF Claim, RowsTyped
  <2>4. ASSUME NEW w \in Workers, NEW s \in Websites, Retry(w, s) PROVE FALSE
    BY <2>2, <2>4 DEF Retry
  <2>5. ASSUME NEW w \in Workers, MarkFailed(w) PROVE FALSE
    BY <2>2, <2>5 DEF MarkFailed
  <2>6. (\E o \in Operations : Reclaim(o)) \/ (\E w \in Workers : TakeJob(w))
          => \E o, st : st # "completed" /\ job' = [job EXCEPT ![o].status = st]
    BY DEF Reclaim, TakeJob
  <2>7. \/ UNCHANGED job
        \/ \E w \in Workers : \/ Claim(w) \/ TakeJob(w) \/ MarkFailed(w)
                              \/ \E s \in Websites : Retry(w, s)
        \/ \E o \in Operations : Reclaim(o)
    BY <1>3 DEF Next, WorkerStep, vars, RequestRemoval, RequestRestore, RunBatch,
           PickReplacement, LastWebsite, ClaimLost, JobTaken, RetrieveSubscription,
           CountSiblings, NothingToUndo, Decide, Undo, CountWebsites,
           UpdateWebsiteCount, ReadRetryCount, CreateItem, NothingToRestoreInto, Restore, RecoverUnpaid,
           DeadlinePasses, AnswerLost, CreateAnswerLost, CallFails, Crash
  <2> QED
    BY <2>1, <2>3, <2>4, <2>5, <2>6, <2>7
<1> QED
  BY <1>1, <1>2, <1>3

LEMMA UnfinishedStep == Base /\ Unfinished /\ [Next]_vars => Unfinished'
<1> SUFFICES ASSUME Base, Unfinished, [Next]_vars, NEW s \in Websites,
                    website'[s].removalStatus = "cancellation_pending",
                    job'[website'[s].operationKey].status = "completed"
             PROVE  FALSE
  BY DEF Unfinished
<1> USE DEF Base
<1>1. Typing'
  BY TypingStep
<1>2. SameWebsite(s) \/ \E w \in Workers : ChangedBy(s, w)
  BY WebsiteStep
<1>3. ASSUME NEW w \in Workers, IsClaimed(s, w) PROVE FALSE
  BY <1>3 DEF IsClaimed
<1>4. CASE /\ website'[s].operationKey = website[s].operationKey
           /\ website'[s].removalStatus = website[s].removalStatus
  <2> DEFINE op == website[s].operationKey
  <2>1. op \in Operations /\ job[op].status # "completed" /\ job'[op].status = "completed"
    BY <1>4, TypingParts DEF Unfinished, KeysTyped
  <2>2. PICK t \in Websites : website[t].operationKey = op /\ website'[t].removalStatus = "removed"
    BY <2>1, CompletedStep
  <2>3. s = t
    BY <2>1, <2>2, KeysDiffer, OperationsTyped
  <2> QED
    BY <2>2, <2>3
<1> QED
  BY <1>2, <1>3, <1>4 DEF SameWebsite, ChangedBy, IsRecorded, IsRemoved, IsRestored, IsRecovered

(* Every removal that is pending is in the queue, whichever workers overlap, *)
(* fail late and die (finalizeRemoval, markRemovalFailed, the retry batch).  *)
THEOREM RemovalsStayQueued == SafetySpec => []PendingIsQueued
<1>1. Init => Base /\ Unfinished
  <2>1. Init => Unfinished
    BY DEF Init, Unfinished
  <2> QED
    BY <2>1, TypingInit, QueueInit DEF Base
<1>2. Base /\ Unfinished /\ [Next]_vars => (Base /\ Unfinished)'
  BY TypingStep, QueueStep, UnfinishedStep DEF Base
<1>3. Base /\ Unfinished => PendingIsQueued
  <2> SUFFICES ASSUME Base, Unfinished, NEW s \in Websites,
                      website[s].removalStatus = "cancellation_pending"
               PROVE  LET row == job[website[s].operationKey]
                      IN  /\ row.website = s
                          /\ row.status \in {"pending", "processing", "failed"}
    BY DEF PendingIsQueued
  <2>1. website[s].operationKey \in Operations
    BY TypingParts DEF Base, KeysTyped
  <2>2. HasRow(website[s].operationKey, s)
    BY <2>1, OperationsTyped DEF Base, Queue, KeysQueued
  <2>3. job[website[s].operationKey] \in Job
    BY <2>1, TypingParts DEF Base, RowsTyped
  <2> QED
    BY <2>2, <2>3 DEF Unfinished, HasRow, Job
<1> QED
  BY <1>1, <1>2, <1>3, PTL DEF SafetySpec

-----------------------------------------------------------------------------
(* Where the items come from: the item a website or a worker knows is the    *)
(* one it was sold with, or one a restore has created; and it is never the   *)
(* item that restoring the operation in progress would create.               *)
Known(item) == item = 0 \/ item \in restoredBy

KeysUsed ==
    /\ \A op \in restoredBy : job[op].status # "no row"
    /\ \A w \in Workers : worker[w].pc = "createItem" => job[worker[w].item].status # "no row"

WebsiteItems ==
    \A s \in Websites :
        /\ Known(website[s].item)
        /\ website[s].operationKey # 0 => website[s].item # website[s].operationKey

WorkerItems ==
    /\ \A w \in Workers : worker[w].pc \in BillingSteps =>
          /\ Known(worker[w].item)
          /\ worker[w].item # worker[w].operationKey
    /\ \A w \in Workers : worker[w].pc = "restore" => Known(worker[w].item)

(* A subscription that was canceled when it was read stays canceled.        *)
SeenCanceled ==
    \A w \in Workers :
        worker[w].pc \in {"siblings", "decide"} /\ worker[w].seen.canceled
          => SubscriptionOf[worker[w].website] \in canceled

Items == KeysUsed /\ WebsiteItems /\ WorkerItems /\ SeenCanceled

LEMMA ItemsInit == Init => Items
<1> SUFFICES ASSUME Init PROVE Items
  OBVIOUS
<1>1. restoredBy = {} /\ \A w \in Workers : worker[w].pc = "idle"
  BY DEF Init, Idle
<1>2. \A s \in Websites : website[s].operationKey = 0 /\ website[s].item = 0
  BY DEF Init
<1> QED
  BY <1>1, <1>2 DEF Items, KeysUsed, WebsiteItems, WorkerItems, SeenCanceled, Known, BillingSteps

LEMMA RestoredByGrows == ASSUME [Next]_vars PROVE restoredBy \subseteq restoredBy'
  BY StripeStep DEF CallStripe, StripeCreates, stripe

LEMMA ItemsStep == Base /\ Items /\ [Next]_vars => Items'
<1> SUFFICES ASSUME Base, Items, [Next]_vars PROVE Items'
  OBVIOUS
<1> USE DEF Base
<1>1. restoredBy \subseteq restoredBy'
  BY RestoredByGrows
<1>2. RowsStay
  BY RowsStep
<1>3. KeysUsed'
  <2>1. ASSUME NEW op \in restoredBy' PROVE job'[op].status # "no row"
    <3>1. op \in restoredBy \/ \E w \in Workers : worker[w].pc = "createItem" /\ op = worker[w].item
      BY <2>1, StripeStep DEF CallStripe, StripeCreates, stripe
    <3>2. op \in Operations
      BY <3>1, TypingParts, WorkerTyped
    <3>3. job[op].status # "no row"
      BY <3>1 DEF Items, KeysUsed
    <3> QED
      BY <1>2, <3>2, <3>3 DEF RowsStay
  <2>2. ASSUME NEW w \in Workers, worker'[w].pc = "createItem"
        PROVE  job'[worker'[w].item].status # "no row"
    <3>1. CASE worker'[w] = worker[w]
      BY <1>2, <2>2, <3>1, WorkerTyped DEF Items, KeysUsed, RowsStay
    <3>2. CASE StartsRestore(w)
      <4> DEFINE s == worker'[w].website
      <4>1. s \in Websites /\ website[s].removalStatus = "removed"
            /\ worker'[w].item = website[s].operationKey
        BY <2>2, <3>2 DEF StartsRestore
      <4>2. website[s].operationKey \in Operations
        BY <4>1, TypingParts DEF KeysTyped
      <4>3. job[website[s].operationKey].status # "no row"
        BY <4>1, <4>2, OperationsTyped DEF Queue, KeysQueued, HasRow
      <4> QED
        BY <1>2, <4>1, <4>2, <4>3 DEF RowsStay
    <3> QED
      BY <2>2, <3>1, <3>2, WorkerMoved
         DEF Elsewhere, Loads, Inspects, Judges, Undoes, Creates
  <2> QED
    BY <2>1, <2>2 DEF KeysUsed
<1>4. WebsiteItems'
  <2> SUFFICES ASSUME NEW s \in Websites
               PROVE  /\ Known(website[s].item)'
                      /\ website'[s].operationKey # 0
                           => website'[s].item # website'[s].operationKey
    BY DEF WebsiteItems
  <2>1. /\ Known(website[s].item)
        /\ website[s].operationKey # 0 => website[s].item # website[s].operationKey
    BY DEF Items, WebsiteItems
  <2>2. CASE /\ website'[s].item = website[s].item
             /\ website'[s].operationKey \in {0, website[s].operationKey}
    BY <1>1, <2>1, <2>2 DEF Known
  <2>3. ASSUME NEW w \in Workers, IsClaimed(s, w)
        PROVE  /\ Known(website[s].item)'
               /\ website'[s].operationKey # 0 => website'[s].item # website'[s].operationKey
    <3>1. worker[w].operationKey \in Operations
          /\ job[worker[w].operationKey].status = "no row"
      BY <2>3, WorkerTyped DEF IsClaimed, Queue, ClaimsFresh
    <3>2. ~Known(worker[w].operationKey)
      BY <3>1, OperationsTyped DEF Known, Items, KeysUsed
    <3> QED
      BY <1>1, <2>1, <2>3, <3>2 DEF IsClaimed, Known
  <2>4. ASSUME NEW w \in Workers, IsRestored(s, w)
        PROVE  Known(website[s].item)' /\ website'[s].operationKey = 0
    BY <1>1, <2>4 DEF IsRestored, Items, WorkerItems, Known
  <2>5. SameWebsite(s) \/ \E w \in Workers : ChangedBy(s, w)
    BY WebsiteStep
  <2> QED
    BY <2>2, <2>3, <2>4, <2>5
       DEF SameWebsite, ChangedBy, IsRecorded, IsRemoved, IsRecovered
<1>5. WorkerItems'
  <2>1. ASSUME NEW w \in Workers, worker'[w].pc \in BillingSteps
        PROVE  Known(worker[w].item)' /\ worker'[w].item # worker'[w].operationKey
    <3>1. CASE worker[w].pc \in BillingSteps /\ SameJob(w)
      BY <1>1, <3>1 DEF Items, WorkerItems, SameJob, Known
    <3>2. CASE Loads(w)
      BY <1>1, <3>2, OperationsTyped DEF Items, WebsiteItems, Loads, Known
    <3> QED
      BY <2>1, <3>1, <3>2, WorkerMoved
         DEF Elsewhere, Inspects, Judges, Undoes, StartsRestore, Creates, SameJob, BillingSteps
  <2>2. ASSUME NEW w \in Workers, worker'[w].pc = "restore"
        PROVE  Known(worker[w].item)'
    <3>1. CASE worker'[w] = worker[w]
      BY <1>1, <2>2, <3>1 DEF Items, WorkerItems, Known
    <3>2. CASE StartsRestore(w)
      BY <1>1, <2>2, <3>2 DEF Items, WebsiteItems, StartsRestore, Known
    <3>3. CASE Creates(w)
      BY <3>3 DEF Creates, SameJob, Known
    <3> QED
      BY <2>2, <3>1, <3>2, <3>3, WorkerMoved
         DEF Elsewhere, Loads, Inspects, Judges, Undoes
  <2> QED
    BY <2>1, <2>2 DEF WorkerItems
<1>6. SeenCanceled'
  <2>1. canceled \subseteq canceled'
    BY StripeStep DEF CallStripe, StripeCreates, stripe
  <2> SUFFICES ASSUME NEW w \in Workers, worker'[w].pc \in {"siblings", "decide"},
                      worker'[w].seen.canceled
               PROVE  SubscriptionOf[worker'[w].website] \in canceled
    BY <2>1 DEF SeenCanceled
  <2>2. worker'[w] = worker[w] \/ Inspects(w)
    BY WorkerMoved
       DEF Elsewhere, Loads, Judges, Undoes, StartsRestore, Creates, BillingSteps
  <2> QED
    BY <2>2 DEF Inspects, SameJob, Items, SeenCanceled
<1> QED
  BY <1>3, <1>4, <1>5, <1>6 DEF Items

(* A worker never deletes the item that restoring its own operation created, *)
(* and no item but its own website's (executeWebsiteRemovalBilling).         *)
THEOREM RestoresAreKept == SafetySpec => RestoreOutlivesItsRemoval
<1> DEFINE Kept == \A i \in items \ items' :
                      \E w \in Workers : /\ At(w, "effect")
                                         /\ worker[w].website = i[1]
                                         /\ worker[w].operationKey # i[2]
<1>1. Init => Base /\ Items
  BY TypingInit, QueueInit, ItemsInit DEF Base
<1>2. Base /\ Items /\ [Next]_vars => (Base /\ Items)'
  BY TypingStep, QueueStep, ItemsStep DEF Base
<1>3. Base /\ Items /\ [Next]_vars => [Kept]_vars
  <2> SUFFICES ASSUME Base, Items, [Next]_vars, NEW i \in items \ items'
               PROVE  \E w \in Workers : /\ At(w, "effect")
                                         /\ worker[w].website = i[1]
                                         /\ worker[w].operationKey # i[2]
    OBVIOUS
  <2>1. PICK w \in Workers : /\ worker[w].pc = "effect"
                             /\ CallStripe(worker[w].website, worker[w].item, worker[w].action)
    BY StripeStep DEF StripeCreates, stripe
  <2>2. i = <<worker[w].website, worker[w].item>>
    BY <2>1 DEF CallStripe
  <2>3. worker[w].item # worker[w].operationKey
    BY <2>1 DEF Items, WorkerItems, BillingSteps
  <2> QED
    BY <2>1, <2>2, <2>3 DEF At
<1>4. [][Kept]_vars => RestoreOutlivesItsRemoval
  BY DEF RestoreOutlivesItsRemoval
<1> HIDE DEF Kept
<1> QED
  BY <1>1, <1>2, <1>3, <1>4, PTL DEF SafetySpec

-----------------------------------------------------------------------------
(* The item of a removed website is gone from Stripe, or its subscription    *)
(* is canceled; a worker that finalises knows that of the item it loaded,    *)
(* which is still the website's as long as its operation is.                 *)
Unbilled(s, item) == ~IsLive(s, item) \/ SubscriptionOf[s] \in canceled

RemovedUnbilled ==
    \A s \in Billed : website[s].removalStatus = "removed" => Unbilled(s, website[s].item)

LoadedItems ==
    \A w \in Workers :
        /\ worker[w].pc \in BillingSteps
        /\ website[worker[w].website].operationKey = worker[w].operationKey
        => website[worker[w].website].item = worker[w].item

ConfirmedUnbilled ==
    \A w \in Workers : worker[w].pc = "finalize" /\ worker[w].website \in Billed =>
        Unbilled(worker[w].website, worker[w].item)

Billing == RemovedUnbilled /\ LoadedItems /\ ConfirmedUnbilled

LEMMA UnbilledStays ==
  ASSUME [Next]_vars, NEW s \in Websites, NEW item, Known(item), 0 \notin Operations,
         Unbilled(s, item), Typing
  PROVE  Unbilled(s, item)'
<1>1. CASE UNCHANGED stripe
  BY <1>1 DEF stripe, Unbilled, IsLive
<1>2. ASSUME NEW w \in Workers,
             CallStripe(worker[w].website, worker[w].item, worker[w].action)
      PROVE  Unbilled(s, item)'
  BY <1>2 DEF CallStripe, Unbilled, IsLive
<1>3. ASSUME NEW w \in Workers, worker[w].pc = "createItem",
             StripeCreates(worker[w].website, worker[w].item)
      PROVE  Unbilled(s, item)'
  <2>1. worker[w].item \in Operations
    BY <1>3, WorkerTyped
  <2>2. worker[w].item \notin restoredBy => item # worker[w].item
    BY <2>1 DEF Known
  <2> QED
    BY <1>3, <2>2 DEF StripeCreates, Unbilled, IsLive
<1> QED
  BY <1>1, <1>2, <1>3, StripeStep

LEMMA BillingStep == Base /\ Items /\ Billing /\ [Next]_vars => Billing'
<1> SUFFICES ASSUME Base, Items, Billing, [Next]_vars PROVE Billing'
  OBVIOUS
<1> USE DEF Base
<1>0. 0 \notin Operations
  BY OperationsTyped
<1>1. RemovedUnbilled'
  <2> SUFFICES ASSUME NEW s \in Billed, website'[s].removalStatus = "removed"
               PROVE  Unbilled(s, website[s].item)'
    BY DEF RemovedUnbilled
  <2>0. s \in Websites
    BY DEF Billed
  <2>1. CASE /\ website'[s].removalStatus = website[s].removalStatus
             /\ website'[s].item = website[s].item
    <3>1. Known(website[s].item) /\ Unbilled(s, website[s].item)
      BY <2>0, <2>1 DEF Items, WebsiteItems, Billing, RemovedUnbilled
    <3> DEFINE item == website[s].item
    <3>2. Unbilled(s, item)
      BY <3>1
    <3>3. IsLive(s, website[s].item)' <=> <<s, item>> \in items'
      BY <2>1 DEF IsLive
    <3>4. <<s, item>> \notin items' \/ SubscriptionOf[s] \in canceled'
      <4> DEFINE i == website[s].item
      <4>1. \A j : Known(j) /\ Unbilled(s, j) =>
                     <<s, j>> \notin items' \/ SubscriptionOf[s] \in canceled'
        BY <1>0, <2>0, UnbilledStays DEF Unbilled, IsLive
      <4> QED
        BY <3>1, <4>1
    <3> QED
      BY <3>3, <3>4 DEF Unbilled
  <2>2. ASSUME NEW w \in Workers, worker[w].website = s, IsRemoved(s, w)
        PROVE  Unbilled(s, website[s].item)'
    <3>1. website'[s].item = worker[w].item
      BY <2>2 DEF IsRemoved, Billing, LoadedItems, Pending, BillingSteps
    <3>2. Unbilled(s, worker[w].item)
      BY <2>2 DEF IsRemoved, Billing, ConfirmedUnbilled
    <3> QED
      BY <2>2, <3>1, <3>2 DEF IsRemoved, Unbilled, IsLive, stripe
  <2> QED
    BY <2>0, <2>1, <2>2, WebsiteStep
       DEF SameWebsite, ChangedBy, IsClaimed, IsRecorded, IsRestored, IsRecovered
<1>2. LoadedItems'
  <2> SUFFICES ASSUME NEW w \in Workers, worker'[w].pc \in BillingSteps,
                      website'[worker'[w].website].operationKey = worker'[w].operationKey
               PROVE  website'[worker'[w].website].item = worker'[w].item
    BY DEF LoadedItems
  <2>1. CASE Loads(w)
    BY <2>1 DEF Loads
  <2>2. CASE worker[w].pc \in BillingSteps /\ SameJob(w)
    <3> DEFINE s == worker[w].website
               op == worker[w].operationKey
    <3>1. /\ s \in Websites /\ op \in Operations /\ op # 0
          /\ worker'[w].website = s /\ worker'[w].operationKey = op
          /\ worker'[w].item = worker[w].item
          /\ job[op].status # "no row"
      BY <2>2, WorkerTyped, OperationsTyped
         DEF SameJob, BillingSteps, JobSteps, Queue, WorkersQueued, HasRow
    <3>2. ASSUME NEW v \in Workers, IsClaimed(s, v) PROVE FALSE
      <4>1. website'[s].operationKey = worker[v].operationKey /\ worker[v].pc = "claim"
        BY <3>2 DEF IsClaimed
      <4>2. job[worker[v].operationKey].status = "no row"
        BY <4>1 DEF Queue, ClaimsFresh
      <4> QED
        BY <3>1, <4>1, <4>2
    <3>3. CASE /\ website'[s].operationKey = website[s].operationKey
               /\ website'[s].item = website[s].item
      BY <2>2, <3>1, <3>3 DEF Billing, LoadedItems
    <3>4. website'[s].operationKey # 0
      BY <3>1
    <3> HIDE DEF s, op
    <3>5. SameWebsite(s) \/ \E v \in Workers : ChangedBy(s, v)
      BY <3>1, WebsiteStep
    <3>6. /\ website'[s].operationKey = website[s].operationKey
          /\ website'[s].item = website[s].item
      BY <3>2, <3>4, <3>5
         DEF SameWebsite, ChangedBy, IsRecorded, IsRemoved, IsRestored, IsRecovered
    <3> QED
      BY <3>3, <3>6
  <2> QED
    BY <2>1, <2>2, WorkerMoved
       DEF Elsewhere, Inspects, Judges, Undoes, StartsRestore, Creates, SameJob, BillingSteps
<1>3. ConfirmedUnbilled'
  <2> SUFFICES ASSUME NEW w \in Workers, worker'[w].pc = "finalize",
                      worker'[w].website \in Billed
               PROVE  Unbilled(worker[w].website, worker[w].item)'
    BY DEF ConfirmedUnbilled
  <2>0. ASSUME NEW s \in Billed, NEW item, Known(item), Unbilled(s, item),
               worker'[w].website = s, worker'[w].item = item
        PROVE  Unbilled(worker[w].website, worker[w].item)'
    <3>1. \A j : Known(j) /\ Unbilled(s, j) =>
                   <<s, j>> \notin items' \/ SubscriptionOf[s] \in canceled'
      BY <1>0, UnbilledStays DEF Unbilled, IsLive, Billed
    <3> QED
      BY <2>0, <3>1 DEF Unbilled, IsLive
  <2>1. CASE worker'[w] = worker[w]
    BY <2>0, <2>1 DEF Billing, ConfirmedUnbilled, Items, WorkerItems, BillingSteps
  <2>2. CASE Judges(w)
    <3> DEFINE s == worker[w].website
               action == ActionFor(s, worker[w].item, worker[w].action, worker[w].seen)
    <3>1. /\ worker'[w].website = s /\ worker'[w].item = worker[w].item
          /\ s \in Billed /\ Known(worker[w].item)
      BY <2>2 DEF Judges, SameJob, Items, WorkerItems, BillingSteps
    <3>2. Unbilled(s, worker[w].item)
      BY <2>2, <3>1 DEF Judges, Verdict, Unbilled, Items, SeenCanceled
    <3> QED
      BY <2>0, <3>1, <3>2
  <2>3. CASE Undoes(w)
    BY <2>3 DEF Undoes, SameJob, CallStripe, Unbilled, IsLive
  <2> QED
    BY <2>1, <2>2, <2>3, WorkerMoved
       DEF Elsewhere, Loads, Inspects, StartsRestore, Creates, BillingSteps
<1> QED
  BY <1>1, <1>2, <1>3 DEF Billing

(* A website is reported as removed only when Stripe no longer bills it:     *)
(* with retries, lost answers, crashes and restores in between               *)
(* (executeWebsiteRemovalBilling before finalizeRemoval).                    *)
THEOREM RemovalsEndBilling == SafetySpec => []RemovedIsNotBilled
<1>1. Init => Base /\ Items /\ Billing
  <2>1. Init => Billing
    BY DEF Init, Billing, RemovedUnbilled, LoadedItems, ConfirmedUnbilled, Billed, Idle,
           BillingSteps
  <2> QED
    BY <2>1, TypingInit, QueueInit, ItemsInit DEF Base
<1>2. Base /\ Items /\ Billing /\ [Next]_vars => (Base /\ Items /\ Billing)'
  BY TypingStep, QueueStep, ItemsStep, BillingStep DEF Base
<1>3. Base /\ Items /\ Billing => RemovedIsNotBilled
  BY DEF Billing, RemovedUnbilled, Unbilled, RemovedIsNotBilled
<1> QED
  BY <1>1, <1>2, <1>3, PTL DEF SafetySpec

-----------------------------------------------------------------------------
(* A website that is touched has been claimed at some time: it is not        *)
(* listed, or it has an item a restore made.  A subscription is canceled     *)
(* only when all the websites it bills are touched.                          *)
Touched(s) == ~IsListed(s) \/ website[s].item # 0

AllTouched(s) ==
    \A t \in Billed : SubscriptionOf[t] = SubscriptionOf[s] => Touched(t)

Cancels(action) == action = "cancel_dedicated_subscription"

TouchedRows ==
    \A op \in Operations :
        job[op].status # "no row" /\ job[op].website \in Billed
          => Touched(job[op].website)

WebsiteActions ==
    \A s \in Billed :
        /\ website[s].removalStatus = "removed" => website[s].billingAction # "none"
        /\ Cancels(website[s].billingAction) => AllTouched(s)

WorkerActions ==
    \A w \in Workers : worker[w].website \in Billed =>
        /\ worker[w].pc \in BillingSteps /\ Cancels(worker[w].action)
             => AllTouched(worker[w].website)
        /\ worker[w].pc = "decide" /\ ~worker[w].seen.siblings
             => AllTouched(worker[w].website)
        /\ worker[w].pc \in {"effect", "finalize"} => worker[w].action # "none"
        /\ worker[w].pc = "restore" => worker[w].item # 0

UntouchedBilled ==
    \A s \in Billed :
        /\ SubscriptionOf[s] \in canceled => Touched(s)
        /\ ~Touched(s) => IsLive(s, 0)

Sharing == TouchedRows /\ WebsiteActions /\ WorkerActions /\ UntouchedBilled

LEMMA TouchedStays ==
  ASSUME Base, Sharing, [Next]_vars, NEW s \in Billed, Touched(s)
  PROVE  Touched(s)'
<1>0. s \in Websites
  BY DEF Billed
<1>1. ASSUME NEW w \in Workers, worker[w].website = s, IsRestored(s, w)
      PROVE  Touched(s)'
  BY <1>1 DEF IsRestored, Sharing, WorkerActions, Touched
<1>2. CASE SameWebsite(s)
  BY <1>2 DEF SameWebsite, Touched, IsListed
<1>3. ASSUME NEW w \in Workers,
             IsClaimed(s, w) \/ IsRecorded(s, w) \/ IsRemoved(s, w) \/ IsRecovered(s)
      PROVE  Touched(s)'
  BY <1>3 DEF IsClaimed, IsRecorded, IsRemoved, IsRecovered, Touched, IsListed
<1> QED
  BY <1>0, <1>1, <1>2, <1>3, WebsiteStep DEF ChangedBy, Base

LEMMA AllTouchedStays ==
  ASSUME Base, Sharing, [Next]_vars, NEW s, AllTouched(s)
  PROVE  \A t \in Billed : SubscriptionOf[t] = SubscriptionOf[s] => Touched(t)'
  BY TouchedStays DEF AllTouched

(* A worker that counts no siblings finds the other websites on its          *)
(* subscription removed; its own website is touched already.                 *)
LEMMA UnsharedIsTouched ==
  ASSUME Base, Sharing, NEW w \in Workers, worker[w].pc = "siblings",
         worker[w].website \in Billed, Siblings(worker[w].website) = {}
  PROVE  AllTouched(worker[w].website)
<1> DEFINE s == worker[w].website
<1>1. Touched(s)
  BY WorkerTyped, OperationsTyped
     DEF Base, Queue, WorkersQueued, HasRow, Sharing, TouchedRows, JobSteps
<1>2. ASSUME NEW t \in Billed, SubscriptionOf[t] = SubscriptionOf[s], t # s PROVE Touched(t)
  BY <1>2 DEF Siblings, Touched, IsListed, Billed
<1> QED
  BY <1>1, <1>2 DEF AllTouched

LEMMA CancelingIsSafe ==
  ASSUME Base, Items, Sharing, NEW w \in Workers, Judges(w), worker[w].website \in Billed,
         Cancels(worker'[w].action)
  PROVE  AllTouched(worker[w].website)
<1> DEFINE s == worker[w].website
           action == ActionFor(s, worker[w].item, worker[w].action, worker[w].seen)
<1>1. worker[w].pc = "decide"
  BY DEF Judges
<1>2. Cancels(worker[w].action) \/ ~worker[w].seen.siblings => AllTouched(s)
  BY <1>1 DEF Sharing, WorkerActions, BillingSteps
<1>3. SubscriptionOf[s] \in canceled => AllTouched(s)
  BY DEF Sharing, UntouchedBilled, AllTouched
<1>4. Cancels(action) => Cancels(worker[w].action) \/ ~worker[w].seen.siblings
  BY DEF ActionFor, ClassifyRemoval, Cancels
<1>5. worker[w].seen.canceled => SubscriptionOf[s] \in canceled
  BY <1>1 DEF Items, SeenCanceled
<1>6. \/ Cancels(worker[w].action) \/ worker[w].seen.canceled \/ ~worker[w].seen.siblings
  BY <1>1, <1>4 DEF Judges, Verdict, Cancels
<1> QED
  BY <1>2, <1>3, <1>5, <1>6

LEMMA SharingStep == Base /\ Items /\ Sharing /\ [Next]_vars => Sharing'
<1> SUFFICES ASSUME Base, Items, Sharing, [Next]_vars PROVE Sharing'
  OBVIOUS
<1>0. Typing /\ Queue /\ 0 \notin Operations /\ Billed \subseteq Websites
  BY OperationsTyped DEF Base, Billed
<1>1. TouchedRows'
  <2> SUFFICES ASSUME NEW op \in Operations, job'[op].status # "no row",
                      job'[op].website \in Billed
               PROVE  Touched(job[op].website)'
    BY DEF TouchedRows
  <2>1. CASE job[op].status # "no row"
    <3>1. job'[op].website = job[op].website
      BY <1>0, <2>1, RowsStep DEF RowsStay
    <3>2. Touched(job[op].website)
      BY <2>1, <3>1 DEF Sharing, TouchedRows
    <3>3. \A s \in Billed : Touched(s) => Touched(s)'
      BY TouchedStays
    <3> QED
      BY <3>1, <3>2, <3>3 DEF Touched, IsListed
  <2>2. CASE job[op].status = "no row"
    <3>1. PICK w \in Workers : Claim(w) /\ op = worker[w].operationKey
      BY <1>0, <2>2, NewRowIsClaimed
    <3>2. job'[op].website = worker[w].website /\ worker[w].website \in Websites
      BY <1>0, <3>1, TypingParts, WorkerTyped DEF Claim, At, RowsTyped
    <3>3. website'[worker[w].website].isActive = FALSE
      BY <1>0, <3>1, <3>2, ClaimedWebsites
    <3> QED
      BY <3>2, <3>3 DEF Touched, IsListed
  <2> QED
    BY <2>1, <2>2
<1>2. WebsiteActions'
  <2> SUFFICES ASSUME NEW s \in Billed
               PROVE  /\ website'[s].removalStatus = "removed"
                           => website'[s].billingAction # "none"
                      /\ Cancels(website'[s].billingAction) => AllTouched(s)'
    BY DEF WebsiteActions, Cancels
  <2>1. AllTouched(s) => AllTouched(s)'
    BY AllTouchedStays DEF AllTouched
  <2>2. CASE SameWebsite(s)
    BY <2>1, <2>2 DEF SameWebsite, Sharing, WebsiteActions
  <2>3. ASSUME NEW w \in Workers, worker[w].website = s, IsRemoved(s, w)
        PROVE  /\ website'[s].billingAction # "none"
               /\ Cancels(website'[s].billingAction) => AllTouched(s)'
    BY <2>1, <2>3 DEF IsRemoved, Sharing, WorkerActions, BillingSteps
  <2>4. ASSUME NEW w \in Workers, worker[w].website = s, IsRecorded(s, w)
        PROVE  /\ website'[s].billingAction # "none"
               /\ Cancels(website'[s].billingAction) => AllTouched(s)'
    <3>1. website'[s].billingAction = ActionFor(s, worker[w].item, worker[w].action,
                                                worker[w].seen)
          /\ worker[w].pc = "decide"
      BY <2>4 DEF IsRecorded
    <3>2. website'[s].billingAction # "none"
      BY <3>1, ActionsTyped
    <3>3. Cancels(website'[s].billingAction) =>
            Cancels(worker[w].action) \/ ~worker[w].seen.siblings
      BY <3>1 DEF ActionFor, ClassifyRemoval, Cancels
    <3>4. Cancels(worker[w].action) => AllTouched(s)
      BY <2>4, <3>1 DEF Sharing, WorkerActions, BillingSteps
    <3>5. ~worker[w].seen.siblings => AllTouched(s)
      BY <2>4, <3>1 DEF Sharing, WorkerActions
    <3> QED
      BY <2>1, <3>2, <3>3, <3>4, <3>5
  <2>5. ASSUME NEW w \in Workers, IsClaimed(s, w) \/ IsRestored(s, w) \/ IsRecovered(s)
        PROVE  website'[s].removalStatus # "removed" /\ ~Cancels(website'[s].billingAction)
    BY <2>5 DEF IsClaimed, IsRestored, IsRecovered, Cancels
  <2> QED
    BY <1>0, <2>2, <2>3, <2>4, <2>5, WebsiteStep DEF ChangedBy
<1>3. WorkerActions'
  <2> SUFFICES ASSUME NEW w \in Workers, worker'[w].website \in Billed
               PROVE  /\ worker'[w].pc \in BillingSteps /\ Cancels(worker'[w].action)
                           => AllTouched(worker[w].website)'
                      /\ worker'[w].pc = "decide" /\ ~worker'[w].seen.siblings
                           => AllTouched(worker[w].website)'
                      /\ worker'[w].pc \in {"effect", "finalize"}
                           => worker'[w].action # "none"
                      /\ worker'[w].pc = "restore" => worker'[w].item # 0
    BY DEF WorkerActions, Cancels
  <2> DEFINE Goal == /\ worker'[w].pc \in BillingSteps /\ Cancels(worker'[w].action)
                           => AllTouched(worker[w].website)'
                     /\ worker'[w].pc = "decide" /\ ~worker'[w].seen.siblings
                           => AllTouched(worker[w].website)'
                     /\ worker'[w].pc \in {"effect", "finalize"}
                           => worker'[w].action # "none"
                     /\ worker'[w].pc = "restore" => worker'[w].item # 0
  <2>1. ASSUME NEW s \in Billed, AllTouched(s), worker'[w].website = s
        PROVE  AllTouched(worker[w].website)'
    BY <2>1, AllTouchedStays DEF AllTouched
  <2>2. CASE worker'[w] = worker[w]
    BY <2>1, <2>2 DEF Sharing, WorkerActions
  <2>3. CASE Elsewhere(w)
    BY <2>3 DEF Elsewhere, BillingSteps
  <2>4. CASE Loads(w)
    BY <2>1, <2>4 DEF Loads, Sharing, WebsiteActions
  <2>9. CASE Inspects(w)
    <3>1. /\ worker'[w].website = worker[w].website /\ worker'[w].action = worker[w].action
          /\ worker[w].pc \in {"inspect", "siblings"}
          /\ worker'[w].pc \in {"siblings", "decide"}
          /\ worker'[w].pc = "decide" /\ ~worker'[w].seen.siblings
               => worker[w].pc = "siblings" /\ Siblings(worker[w].website) = {}
      BY <2>9 DEF Inspects, SameJob
    <3>2. Cancels(worker'[w].action) => AllTouched(worker[w].website)
      BY <3>1 DEF Sharing, WorkerActions, BillingSteps
    <3>3. worker'[w].pc = "decide" /\ ~worker'[w].seen.siblings
            => AllTouched(worker[w].website)
      BY <3>1, UnsharedIsTouched
    <3> QED
      BY <2>1, <3>1, <3>2, <3>3
  <2>5. CASE Judges(w)
    <3>1. worker'[w].website = worker[w].website /\ worker'[w].pc \in {"effect", "finalize"}
      BY <2>5 DEF Judges, SameJob
    <3>2. Cancels(worker'[w].action) => AllTouched(worker[w].website)
      BY <2>5, <3>1, CancelingIsSafe
    <3>3. worker'[w].action # "none"
      BY <2>5, <3>1, ActionsTyped DEF Judges, Verdict, ActionAfterCancellation
    <3> QED
      BY <2>1, <3>1, <3>2, <3>3
  <2>6. CASE Undoes(w)
    BY <2>1, <2>6 DEF Undoes, SameJob, Sharing, WorkerActions, BillingSteps
  <2>7. CASE StartsRestore(w)
    BY <2>7 DEF StartsRestore, Sharing, WebsiteActions, BillingSteps
  <2>8. CASE Creates(w)
    BY <1>0, <2>8, WorkerTyped DEF Creates, SameJob, BillingSteps
  <2> QED
    BY <1>0, <2>2, <2>3, <2>4, <2>5, <2>6, <2>7, <2>8, <2>9, WorkerMoved
<1>4. UntouchedBilled'
  <2> SUFFICES ASSUME NEW s \in Billed
               PROVE  /\ SubscriptionOf[s] \in canceled' => Touched(s)'
                      /\ ~Touched(s)' => IsLive(s, 0)'
    BY DEF UntouchedBilled
  <2>1. Touched(s) => Touched(s)'
    BY TouchedStays
  <2>2. /\ SubscriptionOf[s] \in canceled => Touched(s)
        /\ ~Touched(s) => <<s, 0>> \in items
    BY DEF Sharing, UntouchedBilled, IsLive
  <2>3. ASSUME NEW w \in Workers, worker[w].pc = "effect",
               CallStripe(worker[w].website, worker[w].item, worker[w].action)
        PROVE  /\ SubscriptionOf[s] \in canceled' => Touched(s)
               /\ ~Touched(s) => <<s, 0>> \in items'
    <3>1. worker[w].website \in Billed
      BY <1>0, <2>3, WorkerTyped
    <3>2. Cancels(worker[w].action) /\ SubscriptionOf[s] = SubscriptionOf[worker[w].website]
            => Touched(s)
      BY <2>3, <3>1 DEF Sharing, WorkerActions, BillingSteps, AllTouched
    <3>3. Touched(worker[w].website)
      BY <1>0, <2>3, <3>1, WorkerTyped, OperationsTyped
         DEF Queue, WorkersQueued, HasRow, Sharing, TouchedRows, JobSteps
    <3> QED
      BY <2>2, <2>3, <3>2, <3>3 DEF CallStripe, Cancels
  <2>4. ASSUME NEW w \in Workers, StripeCreates(worker[w].website, worker[w].item)
        PROVE  canceled' = canceled /\ items \subseteq items'
    BY <2>4 DEF StripeCreates
  <2> QED
    BY <2>1, <2>2, <2>3, <2>4, StripeStep DEF IsLive, stripe
<1> QED
  BY <1>1, <1>2, <1>3, <1>4 DEF Sharing

(* Whoever removes, retries and restores the other websites of the account,  *)
(* one that was never removed keeps its item and its subscription            *)
(* (classifyWebsiteRemovalBilling, the sibling query of the removal).        *)
THEOREM UntouchedStayBilled == SafetySpec => []UntouchedStaysBilled
<1>1. Init => Base /\ Items /\ Sharing
  <2> SUFFICES ASSUME Init PROVE Sharing
    BY TypingInit, QueueInit, ItemsInit DEF Base
  <2>1. TouchedRows
    <3>1. job = [op \in Operations |-> NoJob]
      BY DEF Init
    <3>2. \A op \in Operations : job[op].status = "no row"
      BY <3>1 DEF NoJob
    <3> QED
      BY <3>2 DEF TouchedRows
  <2>2. WebsiteActions
    <3>1. \A s \in Websites : website[s].removalStatus = "active"
                              /\ website[s].billingAction = "none"
      BY DEF Init
    <3> QED
      BY <3>1 DEF WebsiteActions, Cancels, Billed
  <2>3. UntouchedBilled
    <3>1. canceled = {} /\ items = Billed \X {0}
      BY DEF Init
    <3> QED
      BY <3>1 DEF UntouchedBilled, IsLive
  <2>4. WorkerActions
    BY DEF Init, WorkerActions, Idle, BillingSteps
  <2> QED
    BY <2>1, <2>2, <2>3, <2>4 DEF Sharing
<1>2. Base /\ Items /\ Sharing /\ [Next]_vars => (Base /\ Items /\ Sharing)'
  BY TypingStep, QueueStep, ItemsStep, SharingStep DEF Base
<1>3. Sharing => UntouchedStaysBilled
  BY DEF Sharing, UntouchedBilled, UntouchedStaysBilled, Touched
<1> QED
  BY <1>1, <1>2, <1>3, PTL DEF SafetySpec

=============================================================================
