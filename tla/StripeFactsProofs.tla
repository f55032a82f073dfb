------------------------- MODULE StripeFactsProofs -------------------------
(***************************************************************************)
(* The snapshot row of a subscription against its lifecycle log, for any   *)
(* number of webhook requests, changes, deliveries and failed runs.        *)
(***************************************************************************)
EXTENDS StripeFacts, WellFoundedInduction, TLAPS

LEMMA EventIdOK == \A i \in 1..MaxChanges : EventId(i) \in Ids
  BY DEF EventId, Ids

LEMMA StateIdOK == \A s \in Statuses : StateId(s) \in Ids
  BY DEF StateId, Ids

LEMMA FactOK ==
  ASSUME NEW id \in Ids, NEW s \in Statuses, NEW at \in 0..LastTime
  PROVE  /\ Fact(id, s, at) \in Facts
         /\ Fact(id, s, at).id = id
         /\ Fact(id, s, at).occurredAt = at
  BY DEF Fact, Facts

LEMMA RecordOK ==
  ASSUME NEW fact, log \subseteq Facts, fact \in Facts
  PROVE  /\ log \subseteq Record(fact)
         /\ Record(fact) \subseteq log \cup {fact}
         /\ Record(fact) \subseteq Facts
  BY DEF Record

(* The state a job is about to write was really listed. *)
Listed == job.at \in {"account", "compare", "correct"} => job.listed \in Statuses

(* The provider's history is no longer than its bound. *)
Bounded == Len(provider) <= MaxChanges

Typing == TypeOK /\ Listed /\ Bounded

LEMMA TypingInit == Init => Typing
<1> SUFFICES ASSUME Init PROVE Typing
  OBVIOUS
<1> USE FactsAssumption
<1>1. job \in Jobs /\ Listed
  BY DEF Init, NotRunning, Listed, Jobs
<1> QED
  BY <1>1 DEF Init, Typing, TypeOK, Bounded

LEMMA SequenceElements ==
  ASSUME NEW S, NEW s \in Seq(S)
  PROVE  /\ Len(s) \in Nat
         /\ DOMAIN s = 1..Len(s)
         /\ \A i \in DOMAIN s : s[i] \in S
         /\ s # <<>> => Len(s) \in DOMAIN s
  OBVIOUS

LEMMA ProviderChanges ==
  ASSUME Typing
  PROVE  /\ DOMAIN provider \subseteq 1..MaxChanges
         /\ \A i \in DOMAIN provider :
               provider[i].status \in Statuses /\ provider[i].at \in 0..LastTime
         /\ provider # <<>> => Len(provider) \in DOMAIN provider
<1> DEFINE Changes == [status : Statuses, at : 0..LastTime]
<1>1. provider \in Seq(Changes) /\ Len(provider) <= MaxChanges
  BY DEF Typing, TypeOK, Bounded
<1>2. \A c \in Changes : c.status \in Statuses /\ c.at \in 0..LastTime
  OBVIOUS
<1> HIDE DEF Changes
<1>3. /\ Len(provider) \in Nat
      /\ DOMAIN provider = 1..Len(provider)
      /\ \A i \in DOMAIN provider : provider[i] \in Changes
      /\ provider # <<>> => Len(provider) \in DOMAIN provider
  BY <1>1, SequenceElements
<1> QED
  BY <1>1, <1>2, <1>3, FactsAssumption

(* The newest change of the provider. *)
LEMMA NewestChange ==
  ASSUME Typing, provider # <<>>
  PROVE  provider[Len(provider)].status \in Statuses
  BY ProviderChanges

LEMMA ChangesTyped == Typing /\ SubscriptionChanges => Typing'
<1> SUFFICES ASSUME Typing, SubscriptionChanges PROVE Typing'
  OBVIOUS
<1>1. PICK s \in Follows : provider' = Append(provider, [status |-> s, at |-> now])
  BY DEF SubscriptionChanges
<1>2. s \in Statuses
  BY <1>1, NewestChange DEF Follows, Statuses
<1>3. provider \in Seq([status : Statuses, at : 0..LastTime])
      /\ [status |-> s, at |-> now] \in [status : Statuses, at : 0..LastTime]
  BY <1>2 DEF Typing, TypeOK
<1>4. provider' \in Seq([status : Statuses, at : 0..LastTime])
      /\ Len(provider') = Len(provider) + 1
  BY <1>1, <1>3
<1>5. Bounded'
  BY <1>3, <1>4, FactsAssumption DEF SubscriptionChanges, Bounded
<1> QED
  BY <1>4, <1>5 DEF SubscriptionChanges, Typing, TypeOK, Listed

LEMMA ReadsTyped ==
  ASSUME Typing, NEW w \in Workers, NEW i \in DOMAIN provider, WebhookReads(w, i)
  PROVE  /\ Typing'
         /\ webhook'[w].fact = Fact(EventId(i), provider[i].status, provider[i].at)
         /\ webhook'[w].fact \in Facts
         /\ webhook'[w].fact.id = EventId(i)
         /\ webhook'[w].advance = ShouldAdvance(snapshot, webhook'[w].fact)
         /\ webhook' = [webhook EXCEPT ![w] = webhook'[w]]
<1> DEFINE fact == Fact(EventId(i), provider[i].status, provider[i].at)
<1>1. i \in 1..MaxChanges /\ provider[i].status \in Statuses /\ provider[i].at \in 0..LastTime
  BY ProviderChanges
<1>2. fact \in Facts /\ fact.id = EventId(i)
  BY <1>1, FactOK, EventIdOK
<1> HIDE DEF fact
<1>3. webhook' = [webhook EXCEPT ![w] = [fact |-> fact, advance |-> ShouldAdvance(snapshot, fact)]]
  BY DEF WebhookReads, fact
<1>4. ShouldAdvance(snapshot, fact) \in BOOLEAN
  BY DEF ShouldAdvance
<1>5. [fact |-> fact, advance |-> ShouldAdvance(snapshot, fact)] \in Transactions
  BY <1>2, <1>4 DEF Transactions
<1>6. webhook \in [Workers -> Transactions \cup {NoFact}]
  BY DEF Typing, TypeOK
<1>7. webhook' \in [Workers -> Transactions \cup {NoFact}]
      /\ webhook'[w] = [fact |-> fact, advance |-> ShouldAdvance(snapshot, fact)]
  BY <1>3, <1>5, <1>6
<1>8. delivered' \in 0..MaxDeliveries
  BY FactsAssumption DEF WebhookReads, Typing, TypeOK
<1>9. Typing'
  BY <1>7, <1>8 DEF WebhookReads, Typing, TypeOK, Listed, Bounded
<1> QED
  BY <1>2, <1>3, <1>7, <1>9 DEF fact

LEMMA CommitTyped ==
  ASSUME Typing, NEW w \in Workers, WebhookCommits(w)
  PROVE  /\ Typing'
         /\ webhook[w] \in Transactions
         /\ log \subseteq log'
         /\ log' \subseteq log \cup {webhook[w].fact}
<1>1. webhook[w] \in Transactions /\ webhook[w].fact \in Facts
  BY DEF WebhookCommits, Typing, TypeOK, Transactions
<1>2. /\ log \subseteq log' /\ log' \subseteq Facts
      /\ log' \subseteq log \cup {webhook[w].fact}
  BY <1>1, RecordOK DEF WebhookCommits, Typing, TypeOK
<1>3. snapshot' \in Facts \cup {NoFact}
  BY <1>1 DEF WebhookCommits, Typing, TypeOK
<1>4. webhook' \in [Workers -> Transactions \cup {NoFact}]
  BY DEF WebhookCommits, Typing, TypeOK
<1> QED
  BY <1>1, <1>2, <1>3, <1>4 DEF WebhookCommits, Typing, TypeOK, Listed, Bounded

LEMMA CorrectsTyped ==
  ASSUME Typing, JobCorrects
  PROVE  /\ Typing'
         /\ log \subseteq log'
         /\ log' \subseteq log \cup {snapshot'}
         /\ \E r \in log' : r.id = StateId(job.listed)
         /\ snapshot' \in Facts
         /\ snapshot'.id = StateId(job.listed)
         /\ snapshot'.occurredAt = job.dated
<1> DEFINE fact == Fact(StateId(job.listed), job.listed, job.dated)
<1>1. job.listed \in Statuses /\ job.dated \in 0..LastTime
  BY DEF JobCorrects, Typing, TypeOK, Listed, Jobs
<1>2. fact \in Facts /\ fact.occurredAt = job.dated /\ fact.id = StateId(job.listed)
  BY <1>1, FactOK, StateIdOK
<1> HIDE DEF fact
<1>3. log' = Record(fact) /\ snapshot' = fact /\ job' = NotRunning
  BY DEF JobCorrects, fact
<1>4. log' \subseteq log \cup {fact} /\ log' \subseteq Facts /\ log \subseteq log'
  BY <1>2, <1>3, RecordOK DEF Typing, TypeOK
<1>5. \E r \in log' : r.id = fact.id
  BY <1>3 DEF Record
<1>6. job' \in Jobs /\ Listed'
  BY <1>3, FactsAssumption DEF NotRunning, Listed, Jobs
<1>7. Typing'
  BY <1>2, <1>3, <1>4, <1>6 DEF JobCorrects, Typing, TypeOK, Bounded
<1> QED
  BY <1>2, <1>3, <1>4, <1>5, <1>7

(* The steps of the job that write nothing. *)
JobOnly == JobReadsSnapshots \/ JobLists \/ JobListsNothing \/ JobProjectsAccount
           \/ JobFindsNothingNew \/ JobDates \/ JobFails

LEMMA JobOnlyTyped == Typing /\ JobOnly => Typing'
<1> SUFFICES ASSUME Typing, JobOnly PROVE Typing'
  OBVIOUS
<1>1. job \in Jobs /\ snapshot \in Facts \cup {NoFact} /\ now \in 0..LastTime
  BY DEF Typing, TypeOK
<1>2. job' \in Jobs /\ Listed'
  <2>1. CASE JobReadsSnapshots
    BY <1>1, <2>1 DEF JobReadsSnapshots, Listed, Jobs
  <2>2. CASE JobLists
    BY <1>1, <2>2, NewestChange DEF JobLists, Listed, Jobs
  <2>3. CASE JobProjectsAccount
    BY <1>1, <2>3 DEF JobProjectsAccount, Listed, Typing, Jobs
  <2>4. CASE JobDates
    BY <1>1, <2>4 DEF JobDates, Listed, Typing, Jobs
  <2>5. CASE JobListsNothing \/ JobFindsNothingNew \/ JobFails
    BY <2>5, FactsAssumption
       DEF JobListsNothing, JobFindsNothingNew, JobFails, NotRunning, Listed, Jobs
  <2> QED
    BY <2>1, <2>2, <2>3, <2>4, <2>5 DEF JobOnly
<1>3. failures' \in 0..MaxFailures
  BY FactsAssumption DEF JobOnly, JobReadsSnapshots, JobLists, JobListsNothing,
     JobProjectsAccount, JobFindsNothingNew, JobDates, JobFails, Typing, TypeOK
<1>4. UNCHANGED <<now, provider, delivered, log, snapshot, webhook>>
  BY DEF JobOnly, JobReadsSnapshots, JobLists, JobListsNothing,
     JobProjectsAccount, JobFindsNothingNew, JobDates, JobFails
<1> QED
  BY <1>2, <1>3, <1>4 DEF Typing, TypeOK, Bounded

---------------------------------------------------------------------------
(* What the reconciliation logged is not dated after now, nor after the      *)
(* correction it is about to write; webhooks log events of Stripe only.      *)
Dated ==
    /\ \A r \in log : Reconciled(r) => r.occurredAt <= now
    /\ job.at = "correct" =>
          /\ job.dated <= now
          /\ \A r \in log : Reconciled(r) => r.occurredAt <= job.dated
    /\ \A w \in Workers : webhook[w] # NoFact => ~Reconciled(webhook[w].fact)

(* The account row admits one webhook transaction at a time. *)
OneTransaction ==
    \A v, w \in Workers : webhook[v] # NoFact /\ webhook[w] # NoFact => v = w

(* A fact dated at such an instant is not behind fact f, given the rows. *)
KeepsUp(rows, f, at) ==
    \/ f.occurredAt <= at
    \/ \E r \in rows : Reconciled(r) /\ r.occurredAt <= at

(* What a transaction decided when it read the snapshot still holds of the   *)
(* Stripe events in the log, whatever the job has written since.             *)
DecisionHolds ==
    \A w \in Workers : webhook[w] # NoFact =>
        IF webhook[w].advance
        THEN \A f \in log : ~Reconciled(f) => KeepsUp(log, f, webhook[w].fact.occurredAt)
        ELSE snapshot # NoFact /\ KeepsUp(log, webhook[w].fact, snapshot.occurredAt)

NotBehind ==
    \A f \in log : ~Reconciled(f) =>
        snapshot # NoFact /\ KeepsUp(log, f, snapshot.occurredAt)

LEMMA NotBehindIs == NotBehind <=> SnapshotNotBehind
  BY DEF NotBehind, SnapshotNotBehind, KeepsUp

Inv == Typing /\ Dated /\ OneTransaction /\ DecisionHolds /\ NotBehind

LEMMA Integral ==
  ASSUME Typing
  PROVE  /\ now \in Int
         /\ job.dated \in Int
         /\ snapshot # NoFact => snapshot.occurredAt \in Int
         /\ \A f \in log : f.occurredAt \in Int
         /\ \A w \in Workers : webhook[w] # NoFact => webhook[w].fact.occurredAt \in Int
  BY DEF Typing, TypeOK, Jobs, Facts, Transactions

LEMMA InvInit == Init => Inv
  BY TypingInit DEF Init, NotRunning, Inv, Dated, OneTransaction, DecisionHolds, NotBehind

LEMMA ReadsInv ==
  ASSUME Inv, NEW w \in Workers, NEW i \in DOMAIN provider, WebhookReads(w, i)
  PROVE  Inv'
<1> DEFINE fact == webhook'[w].fact
<1>1. /\ Typing' /\ fact \in Facts /\ fact.id = EventId(i)
      /\ webhook'[w].advance = ShouldAdvance(snapshot, fact)
      /\ webhook' = [webhook EXCEPT ![w] = webhook'[w]]
  BY ReadsTyped DEF Inv
<1> HIDE DEF fact
<1>2. /\ UNCHANGED <<now, log, snapshot, job>>
      /\ \A v \in Workers : webhook[v] = NoFact
  BY DEF WebhookReads, AccountFree
<1>3. \A v \in Workers : v # w => webhook'[v] = NoFact
  BY <1>1, <1>2 DEF Inv, Typing, TypeOK
<1>4. ~Reconciled(fact)
  BY <1>1 DEF Reconciled, EventId
<1>5. Dated'
  <2>1. \A v \in Workers : webhook'[v] # NoFact => ~Reconciled(webhook'[v].fact)
    BY <1>3, <1>4 DEF fact
  <2> QED
    BY <1>2, <2>1 DEF Inv, Dated, Reconciled
<1>6. OneTransaction'
  BY <1>3 DEF OneTransaction
<1>7. IF webhook'[w].advance
      THEN \A f \in log : ~Reconciled(f) => KeepsUp(log, f, fact.occurredAt)
      ELSE snapshot # NoFact /\ KeepsUp(log, fact, snapshot.occurredAt)
  <2>1. /\ \A f \in log : f.occurredAt \in Int
        /\ snapshot # NoFact => snapshot.occurredAt \in Int
        /\ fact.occurredAt \in Int
    BY <1>1, Integral DEF Inv, Facts
  <2>2. webhook'[w].advance
          <=> snapshot = NoFact \/ snapshot.occurredAt <= fact.occurredAt
    BY <1>1 DEF ShouldAdvance
  <2>3. CASE webhook'[w].advance
    BY <2>1, <2>2, <2>3 DEF Inv, NotBehind, KeepsUp
  <2>4. CASE ~webhook'[w].advance
    BY <2>1, <2>2, <2>4 DEF KeepsUp
  <2> QED
    BY <2>3, <2>4
<1>8. DecisionHolds'
  BY <1>2, <1>3, <1>7 DEF DecisionHolds, KeepsUp, Reconciled, fact
<1>9. NotBehind'
  BY <1>2 DEF Inv, NotBehind, KeepsUp, Reconciled
<1> QED
  BY <1>1, <1>5, <1>6, <1>8, <1>9 DEF Inv

LEMMA CommitInv ==
  ASSUME Inv, NEW w \in Workers, WebhookCommits(w)
  PROVE  Inv'
<1> DEFINE fact == webhook[w].fact
<1>1. /\ Typing' /\ webhook[w] \in Transactions
      /\ log \subseteq log' /\ log' \subseteq log \cup {fact}
  BY CommitTyped DEF Inv
<1>2. fact \in Facts /\ webhook[w].advance \in BOOLEAN /\ webhook[w] # NoFact
  BY <1>1 DEF Transactions, WebhookCommits
<1>3. \A v \in Workers : webhook'[v] = NoFact
  BY <1>2 DEF WebhookCommits, Inv, OneTransaction, Typing, TypeOK
<1>4. /\ snapshot' = IF webhook[w].advance THEN fact ELSE snapshot
      /\ UNCHANGED <<now, job>>
  BY DEF WebhookCommits
<1>5. ~Reconciled(fact)
  BY <1>2 DEF Inv, Dated
<1>6. \A r \in log' : Reconciled(r) => r \in log
  BY <1>1, <1>5
<1>7. Dated'
  BY <1>3, <1>4, <1>6 DEF Inv, Dated, Reconciled
<1>8. NotBehind'
  <2> SUFFICES ASSUME NEW f \in log', ~Reconciled(f)
               PROVE  snapshot' # NoFact /\ KeepsUp(log', f, snapshot'.occurredAt)
    BY DEF NotBehind, Reconciled
  <2>1. f \in log \/ f = fact
    BY <1>1
  <2>2. CASE webhook[w].advance
    <3>1. snapshot' = fact /\ snapshot' # NoFact /\ fact.occurredAt \in Int
      BY <1>2, <1>4, <2>2, FactsAssumption DEF Facts
    <3>2. KeepsUp(log, f, fact.occurredAt)
      BY <1>2, <2>1, <2>2, <3>1 DEF Inv, DecisionHolds, KeepsUp
    <3> QED
      BY <1>1, <3>1, <3>2 DEF KeepsUp, Reconciled
  <2>3. CASE ~webhook[w].advance
    <3>1. snapshot' = snapshot
      BY <1>4, <2>3
    <3>2. snapshot # NoFact /\ KeepsUp(log, fact, snapshot.occurredAt)
      BY <1>2, <2>3 DEF Inv, DecisionHolds
    <3>3. KeepsUp(log, f, snapshot.occurredAt)
      BY <2>1, <3>2 DEF Inv, NotBehind
    <3> QED
      BY <1>1, <3>1, <3>2, <3>3 DEF KeepsUp, Reconciled
  <2> QED
    BY <1>2, <2>2, <2>3
<1> QED
  BY <1>1, <1>3, <1>7, <1>8 DEF Inv, OneTransaction, DecisionHolds

(* The correction is dated no earlier than every other, and some correction  *)
(* of its state is in the log from now on: whatever it is set before keeps   *)
(* up.                                                                       *)
LEMMA CorrectsInv ==
  ASSUME Inv, JobCorrects
  PROVE  Inv'
<1>1. /\ Typing' /\ log \subseteq log' /\ log' \subseteq log \cup {snapshot'}
      /\ snapshot' \in Facts /\ snapshot'.occurredAt = job.dated
      /\ Reconciled(snapshot')
      /\ \E r \in log' : Reconciled(r)
  BY CorrectsTyped DEF Inv, Reconciled, StateId
<1>2. /\ UNCHANGED <<now, webhook>> /\ snapshot' # NoFact
      /\ job.at = "correct" /\ job'.at = "idle"
  BY <1>1, FactsAssumption DEF JobCorrects, NotRunning
<1>3. \A r \in log' : Reconciled(r) => r.occurredAt <= job.dated
  BY <1>1, <1>2, Integral DEF Inv, Dated
<1>4. job.dated <= now /\ now \in Int /\ job.dated \in Int
  BY <1>2, Integral DEF Inv, Dated
<1>5. \A r \in log' : Reconciled(r) => r.occurredAt <= now
  <2>1. \A r \in log' : r.occurredAt \in Int
    BY <1>1, Integral DEF Inv, Facts
  <2> QED
    BY <1>3, <1>4, <2>1
<1>6. Dated'
  BY <1>2, <1>5 DEF Inv, Dated, Reconciled
<1>7. \A f : KeepsUp(log', f, snapshot'.occurredAt)
  BY <1>1, <1>3 DEF KeepsUp, Reconciled
<1>8. NotBehind'
  BY <1>2, <1>7 DEF NotBehind
<1>9. DecisionHolds'
  <2> SUFFICES ASSUME NEW w \in Workers, webhook'[w] # NoFact
               PROVE  IF webhook'[w].advance
                      THEN \A f \in log' : ~Reconciled(f) =>
                              KeepsUp(log', f, webhook'[w].fact.occurredAt)
                      ELSE snapshot' # NoFact
                           /\ KeepsUp(log', webhook'[w].fact, snapshot'.occurredAt)
    BY DEF DecisionHolds, Reconciled
  <2>1. CASE webhook[w].advance
    <3>1. ASSUME NEW f \in log', ~Reconciled(f)
          PROVE  KeepsUp(log', f, webhook[w].fact.occurredAt)
      <4>1. f \in log
        BY <1>1, <3>1
      <4>2. KeepsUp(log, f, webhook[w].fact.occurredAt)
        BY <1>2, <2>1, <3>1, <4>1 DEF Inv, DecisionHolds
      <4> QED
        BY <1>1, <1>2, <4>2 DEF KeepsUp, Reconciled
    <3> QED
      BY <1>2, <2>1, <3>1
  <2>2. CASE ~webhook[w].advance
    BY <1>2, <1>7, <2>2
  <2> QED
    BY <2>1, <2>2
<1> QED
  BY <1>1, <1>2, <1>6, <1>8, <1>9 DEF Inv, OneTransaction

LEMMA InvStep == Inv /\ [Next]_vars => Inv'
<1> SUFFICES ASSUME Inv, [Next]_vars PROVE Inv'
  OBVIOUS
<1>1. CASE Tick
  <2>1. Typing'
    BY <1>1, FactsAssumption DEF Tick, Inv, Typing, TypeOK, Listed, Bounded
  <2>2. now' = now + 1 /\ UNCHANGED <<log, snapshot, webhook, job>>
    BY <1>1 DEF Tick
  <2>3. Dated'
    BY <2>2, Integral DEF Inv, Dated, Reconciled
  <2> QED
    BY <2>1, <2>2, <2>3
       DEF Inv, OneTransaction, DecisionHolds, NotBehind, KeepsUp, Reconciled
<1>2. CASE SubscriptionChanges
  <2>1. Typing'
    BY <1>2, ChangesTyped DEF Inv
  <2>2. UNCHANGED <<now, log, snapshot, webhook, job>>
    BY <1>2 DEF SubscriptionChanges
  <2> QED
    BY <2>1, <2>2
       DEF Inv, Dated, OneTransaction, DecisionHolds, NotBehind, KeepsUp, Reconciled
<1>3. ASSUME NEW w \in Workers, Webhook(w) PROVE Inv'
  <2>1. ASSUME NEW i \in DOMAIN provider, WebhookReads(w, i) PROVE Inv'
    BY <2>1, ReadsInv
  <2>2. CASE WebhookCommits(w)
    BY <2>2, CommitInv
  <2>3. CASE WebhookAborts(w)
    <3>1. UNCHANGED <<now, provider, delivered, log, snapshot, job, failures>>
          /\ webhook' = [webhook EXCEPT ![w] = NoFact]
      BY <2>3 DEF WebhookAborts
    <3>2. Typing'
      BY <3>1 DEF Inv, Typing, TypeOK, Listed, Bounded
    <3>3. \A v \in Workers : webhook'[v] # NoFact => webhook'[v] = webhook[v]
      BY <3>1 DEF Inv, Typing, TypeOK
    <3>4. Dated' /\ OneTransaction' /\ NotBehind'
      BY <3>1, <3>3
         DEF Inv, Dated, OneTransaction, NotBehind, KeepsUp, Reconciled
    <3>5. DecisionHolds'
      BY <3>1, <3>3 DEF Inv, DecisionHolds, KeepsUp, Reconciled
    <3> QED
      BY <3>2, <3>4, <3>5 DEF Inv
  <2> QED
    BY <1>3, <2>1, <2>2, <2>3 DEF Webhook
<1>4. CASE JobCorrects
  BY <1>4, CorrectsInv
<1>5. CASE JobOnly
  <2>1. Typing'
    BY <1>5, JobOnlyTyped DEF Inv
  <2>2. UNCHANGED <<now, provider, log, snapshot, webhook>>
    BY <1>5 DEF JobOnly, JobReadsSnapshots, JobLists, JobListsNothing,
       JobProjectsAccount, JobFindsNothingNew, JobDates, JobFails
  <2>3. job'.at = "correct" => job'.dated = now
    <3>1. job \in Jobs
      BY DEF Inv, Typing, TypeOK
    <3>2. CASE JobReadsSnapshots \/ JobLists \/ JobProjectsAccount
      BY <3>1, <3>2 DEF JobReadsSnapshots, JobLists, JobProjectsAccount, Jobs
    <3>3. CASE JobDates
      BY <3>1, <3>3 DEF JobDates, Jobs
    <3>4. CASE JobListsNothing \/ JobFindsNothingNew \/ JobFails
      BY <3>4 DEF JobListsNothing, JobFindsNothingNew, JobFails, NotRunning
    <3> QED
      BY <1>5, <3>2, <3>3, <3>4 DEF JobOnly
  <2>4. Dated'
    BY <2>2, <2>3, Integral DEF Inv, Dated, Reconciled
  <2> QED
    BY <2>1, <2>2, <2>4
       DEF Inv, OneTransaction, DecisionHolds, NotBehind, KeepsUp, Reconciled
<1>6. CASE UNCHANGED vars
  BY <1>6 DEF vars, Inv, Typing, TypeOK, Listed, Bounded, Dated, OneTransaction,
     DecisionHolds, NotBehind, KeepsUp, Reconciled
<1> QED
  BY <1>1, <1>2, <1>3, <1>4, <1>5, <1>6 DEF Next, Job, JobOnly

(* Every table, request and job of the facts pipeline keeps its shape. *)
THEOREM FactsTyped == Spec => []TypeOK
<1>1. Inv => TypeOK
  BY DEF Inv, Typing
<1> QED
  BY <1>1, InvInit, InvStep, PTL DEF Spec

(* Whatever order the events are delivered in, and however the job's         *)
(* corrections fall between a webhook's read and write, the snapshot is      *)
(* older than a Stripe event in the log only at a date that a correction had *)
(* reached.                                                                  *)
THEOREM SnapshotKeepsUp == Spec => []SnapshotNotBehind
<1>1. Inv => SnapshotNotBehind
  BY NotBehindIs DEF Inv
<1> QED
  BY <1>1, InvInit, InvStep, PTL DEF Spec

---------------------------------------------------------------------------
(* The start of the subscription. *)

Before == {p \in Nat \X Nat : p[1] < p[2]}

LEMMA EarliestTime ==
  ASSUME NEW S \in SUBSET Nat, S # {}
  PROVE  Min(S) \in S /\ \A t \in S : Min(S) <= t
<1>1. IsWellFoundedOn(Before, Nat)
  BY NatLessThanWellFounded DEF OpToRel, Before
<1>2. PICK x \in S : \A y \in S : ~(<<y, x>> \in Before)
  BY <1>1, WFMin
<1>3. ASSUME NEW y \in S PROVE x <= y
  <2>1. ~(<<y, x>> \in Before)
    BY <1>2
  <2>2. ~(y < x)
    BY <2>1 DEF Before
  <2> QED
    BY <2>2
<1>4. /\ Min(S) \in S
      /\ \A t \in S : Min(S) =< t
  <2>1. Min(S) = CHOOSE y \in S : \A t \in S : y =< t
    BY DEF Min
  <2>2. \E y \in S : \A t \in S : y =< t
    BY <1>3
  <2> QED
    BY <2>1, <2>2, Zenon
<1> QED
  BY <1>4

(* A row of the log stays, with its date. *)
LEMMA LogGrows == ASSUME Inv, [Next]_vars PROVE log \subseteq log'
<1>1. ASSUME NEW w \in Workers, WebhookCommits(w) PROVE log \subseteq log'
  BY <1>1 DEF WebhookCommits, Record
<1>2. CASE JobCorrects
  BY <1>2 DEF JobCorrects, Record
<1>3. \/ UNCHANGED log
      \/ \E w \in Workers : WebhookCommits(w)
      \/ JobCorrects
  BY DEF Next, Tick, SubscriptionChanges, Webhook, WebhookReads, WebhookAborts, Job,
         JobReadsSnapshots, JobLists, JobListsNothing, JobProjectsAccount,
         JobFindsNothingNew, JobDates, JobFails, vars
<1> QED
  BY <1>1, <1>2, <1>3

(* "A replay cannot create a second fact": no delivery, replay or repeated   *)
(* correction moves the start of a subscription to a later date.             *)
THEOREM StartStaysOrMovesEarlier == Spec => StartNeverMovesLater
<1>1. ASSUME Inv, Inv', [Next]_vars, log # {} PROVE StartedAt' <= StartedAt
  <2> DEFINE dates == {f.occurredAt : f \in log}
  <2>1. dates # {} /\ dates \subseteq Nat /\ dates' \subseteq Nat
    <3>1. LastTime \in Nat
      BY FactsAssumption
    <3> QED BY <1>1, <3>1 DEF Inv, Typing, TypeOK, Facts
  <2>2. dates \subseteq dates'
    BY <1>1, LogGrows
  <2>3. StartedAt = Min(dates) /\ StartedAt' = Min(dates')
    BY DEF StartedAt
  <2> HIDE DEF dates
  <2>4. Min(dates) \in dates /\ \A t \in dates' : Min(dates') <= t
    BY <2>1, <2>2, EarliestTime
  <2> QED
    BY <2>2, <2>3, <2>4
<1>2. Inv /\ Inv' /\ [Next]_vars => [log # {} => StartedAt' <= StartedAt]_vars
  BY <1>1
<1> QED
  BY <1>2, InvInit, InvStep, PTL DEF Spec, StartNeverMovesLater
=============================================================================
