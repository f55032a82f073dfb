------------------------- MODULE ProviderCacheProofs -------------------------
(***************************************************************************)
(* What the provider cache guarantees for any callers and processes, any   *)
(* ages and any number of invalidations.                                   *)
(***************************************************************************)
EXTENDS ProviderCache, TLAPS

(* A value is as old as its envelope and the fetch that read it; an envelope *)
(* has no age before it is made.                                             *)
FetchAges ==
    \A p \in Processes :
        /\ fetch[p].aged <= fetch[p].age
        /\ fetch[p].pc = "computing" => fetch[p].aged = 0

StoredAges ==
    \A r \in Revisions :
        stored[r].there => /\ stored[r].aged < Lifetime
                           /\ stored[r].age <= stored[r].aged + MaxFetch

Aging == TypeOK /\ FetchAges /\ StoredAges /\ AnswersAreBounded

Value == [there: BOOLEAN, age: Ages, aged: 0..Lifetime]
Fetch == [pc: {"none", "computing", "storing"}, age: 0..MaxFetch, aged: 0..MaxFetch,
          revision: Revisions]
Caller == [pc: {"idle", "reading", "waiting", "served", "answered", "failed"},
           process: Processes, revision: Revisions, age: Ages]

LEMMA Constants ==
    /\ Soft \in Nat /\ Hard \in Nat /\ Lifetime \in Nat /\ MaxFetch \in Nat
    /\ MaxFetch < Lifetime /\ Lifetime <= RevisionTtl
    /\ RevisionTtl \in Nat \ {0} /\ MaxRevision \in Nat
    /\ 0 \in Revisions /\ 0 \in Ages /\ 0 \in 0..MaxFetch /\ 0 \in 0..Lifetime
    /\ Nothing \in Value /\ NoFetch \in Fetch /\ NewFetch \in Fetch
    /\ Forever \in 1..Forever /\ RevisionTtl \in 1..Forever
<1>1. /\ Soft \in Nat /\ Hard \in Nat /\ Lifetime \in Nat /\ MaxFetch \in Nat
      /\ MaxFetch < Lifetime /\ Lifetime <= RevisionTtl
      /\ RevisionTtl \in Nat \ {0} /\ MaxRevision \in Nat
  BY CacheAssumption
<1>2. 0 \in Revisions /\ 0 \in Ages /\ 0 \in 0..MaxFetch /\ 0 \in 0..Lifetime
  BY <1>1 DEF Revisions, Ages
<1>3. Nothing \in Value
  BY <1>2 DEF Nothing, Value
<1>4. NoFetch \in Fetch /\ NewFetch \in Fetch
  BY <1>2 DEF NoFetch, NewFetch, Fetch
<1>5. Forever \in 1..Forever /\ RevisionTtl \in 1..Forever
  BY <1>1 DEF Forever
<1> QED
  BY <1>1, <1>2, <1>3, <1>4, <1>5

LEMMA AgingInit == Init => Aging
<1> SUFFICES ASSUME Init PROVE Aging
  OBVIOUS
<1>1. TypeOK
  <2>1. caller \in [Callers -> Caller]
    BY Constants DEF Init, Caller
  <2> QED
    BY <2>1, Constants DEF Init, TypeOK, Value, Fetch, Caller
<1>2. AnswersAreBounded
  <2>1. \A c \in Callers : caller[c].pc = "idle"
    BY DEF Init
  <2> QED
    BY <2>1 DEF AnswersAreBounded
<1> QED
  BY <1>1, <1>2, Constants DEF Init, Aging, FetchAges, StoredAges, Nothing, NoFetch

LEMMA CoalescedAges ==
    ASSUME Aging, NEW p \in Processes
    PROVE  /\ Coalesced(p) \in [Processes -> Fetch]
           /\ \A q \in Processes :
                 /\ Coalesced(p)[q].aged <= Coalesced(p)[q].age
                 /\ Coalesced(p)[q].pc = "computing" => Coalesced(p)[q].aged = 0
<1>1. fetch \in [Processes -> Fetch] /\ FetchAges
  BY DEF Aging, TypeOK, Fetch
<1>2. NewFetch.aged = 0 /\ NewFetch.age = 0
  BY DEF NewFetch, NoFetch
<1> HIDE DEF NewFetch
<1>3. \A q \in Processes : Coalesced(p)[q] \in {fetch[q], NewFetch}
  BY <1>1 DEF Coalesced
<1>4. Coalesced(p) \in [Processes -> Fetch]
  BY <1>1, Constants DEF Coalesced
<1> QED
  BY <1>1, <1>2, <1>3, <1>4 DEF FetchAges

LEMMA SettledAges ==
    ASSUME Aging, NEW p \in Processes, NEW age \in 0..MaxFetch,
           NEW outcome \in {"answered", "failed"}, caller' = Settled(p, outcome, age)
    PROVE  caller' \in [Callers -> Caller] /\ AnswersAreBounded'
<1>1. caller \in [Callers -> Caller] /\ AnswersAreBounded
  BY DEF Aging, TypeOK, Caller
<1>2. age \in Ages /\ age <= MaxFetch
  BY Constants DEF Ages
<1>3. caller' \in [Callers -> Caller]
  <2>1. \A c \in Callers : [caller[c] EXCEPT !.pc = outcome, !.age = age] \in Caller
    BY <1>1, <1>2 DEF Caller
  <2> QED
    BY <1>1, <2>1 DEF Settled
<1>4. AnswersAreBounded'
  <2> SUFFICES ASSUME NEW c \in Callers
               PROVE  /\ caller'[c].pc = "answered" => caller'[c].age <= MaxFetch
                      /\ caller'[c].pc = "served" => caller'[c].age < Lifetime + MaxFetch
    BY DEF AnswersAreBounded
  <2>1. caller[c] \in Caller
    BY <1>1
  <2>2. CASE caller'[c] = caller[c]
    BY <1>1, <2>2 DEF AnswersAreBounded
  <2>3. CASE caller'[c] = [caller[c] EXCEPT !.pc = outcome, !.age = age]
    BY <1>2, <2>1, <2>3 DEF Caller
  <2> QED
    BY <2>2, <2>3 DEF Settled
<1> QED
  BY <1>3, <1>4

LEMMA AgingStep == Aging /\ [Next]_vars => Aging'
<1> SUFFICES ASSUME Aging, [Next]_vars PROVE Aging'
  OBVIOUS
<1>0. /\ TypeOK /\ FetchAges /\ StoredAges /\ AnswersAreBounded
      /\ revision \in [number: Revisions, left: 1..Forever]
      /\ stored \in [Revisions -> Value] /\ fetch \in [Processes -> Fetch]
      /\ caller \in [Callers -> Caller] /\ sinceExpiry \in 0..Lifetime
      /\ sinceInvalidation \in 0..Lifetime
  BY DEF Aging, TypeOK, Value, Fetch, Caller
<1>t. ASSUME /\ revision' \in [number: Revisions, left: 1..Forever]
             /\ stored' \in [Revisions -> Value] /\ fetch' \in [Processes -> Fetch]
             /\ caller' \in [Callers -> Caller] /\ sinceExpiry' \in 0..Lifetime
             /\ sinceInvalidation' \in 0..Lifetime
             /\ FetchAges' /\ StoredAges' /\ AnswersAreBounded'
      PROVE  Aging'
  BY <1>t DEF Aging, TypeOK, Value, Fetch, Caller
<1>f. ASSUME fetch' = fetch PROVE FetchAges'
  BY <1>0, <1>f DEF FetchAges
<1>s. ASSUME stored' = stored PROVE StoredAges'
  BY <1>0, <1>s DEF StoredAges
<1>c. ASSUME caller' = caller PROVE AnswersAreBounded'
  BY <1>0, <1>c DEF AnswersAreBounded
<1>1. ASSUME NEW c \in Callers, Arrive(c) PROVE Aging'
  <2>1. caller' \in [Callers -> Caller] /\ AnswersAreBounded'
    BY <1>0, <1>1 DEF Arrive, Caller, AnswersAreBounded
  <2> QED
    BY <1>0, <1>1, <1>t, <1>f, <1>s, <2>1 DEF Arrive, clocks
<1>2. ASSUME NEW c \in Callers, Serve(c) PROVE Aging'
  <2>1. caller[c].revision \in Revisions /\ caller[c].process \in Processes
    BY <1>0 DEF Caller
  <2>2. /\ stored[caller[c].revision].age \in Ages
        /\ stored[caller[c].revision].age < Lifetime + MaxFetch
    BY <1>0, <1>2, <2>1, Constants DEF Serve, StoredAges, Value, Ages
  <2>3. caller' \in [Callers -> Caller] /\ AnswersAreBounded'
    BY <1>0, <1>2, <2>2, Constants DEF Serve, Caller, AnswersAreBounded
  <2>4. fetch' \in [Processes -> Fetch] /\ FetchAges'
    <3>1. CASE fetch' = fetch
      BY <1>0, <1>f, <3>1
    <3>2. CASE fetch' = Coalesced(caller[c].process)
      BY <2>1, <3>2, CoalescedAges DEF FetchAges
    <3> QED
      BY <1>2, <3>1, <3>2 DEF Serve, clocks
  <2> QED
    BY <1>0, <1>2, <1>t, <1>s, <2>3, <2>4 DEF Serve, clocks
<1>3. ASSUME NEW c \in Callers, Miss(c) PROVE Aging'
  <2>1. caller' \in [Callers -> Caller] /\ AnswersAreBounded'
    BY <1>0, <1>3, Constants DEF Miss, Caller, AnswersAreBounded
  <2>2. caller[c].process \in Processes
    BY <1>0 DEF Caller
  <2>3. fetch' \in [Processes -> Fetch] /\ FetchAges'
    BY <1>3, <2>2, CoalescedAges DEF Miss, FetchAges
  <2> QED
    BY <1>0, <1>3, <1>t, <1>s, <2>1, <2>3 DEF Miss, clocks
<1>4. ASSUME NEW c \in Callers, Leave(c) PROVE Aging'
  <2>1. caller' \in [Callers -> Caller] /\ AnswersAreBounded'
    BY <1>0, <1>4, Constants DEF Leave, Caller, AnswersAreBounded
  <2> QED
    BY <1>0, <1>4, <1>t, <1>f, <1>s, <2>1 DEF Leave, clocks
<1>5. ASSUME NEW p \in Processes, Compute(p) PROVE Aging'
  <2>1. fetch' \in [Processes -> Fetch] /\ FetchAges'
    BY <1>0, <1>5 DEF Compute, Fetch, FetchAges
  <2> QED
    BY <1>0, <1>5, <1>t, <1>s, <1>c, <2>1 DEF Compute, clocks
<1>6. ASSUME NEW p \in Processes, fetch' = [fetch EXCEPT ![p] = NoFetch]
      PROVE  fetch' \in [Processes -> Fetch] /\ FetchAges'
  <2>1. NoFetch.aged = 0 /\ NoFetch.age = 0 /\ NoFetch.pc = "none"
    BY DEF NoFetch
  <2> HIDE DEF NoFetch
  <2> QED
    BY <1>0, <1>6, <2>1, Constants DEF FetchAges
<1>7. ASSUME NEW p \in Processes, ComputeFails(p) PROVE Aging'
  <2>1. caller' \in [Callers -> Caller] /\ AnswersAreBounded'
    BY <1>7, SettledAges, Constants DEF ComputeFails, clocks
  <2> QED
    BY <1>0, <1>6, <1>7, <1>t, <1>s, <2>1 DEF ComputeFails, clocks
<1>8. ASSUME NEW p \in Processes, Store(p) PROVE Aging'
  <2>1. fetch[p] \in Fetch /\ fetch[p].aged <= fetch[p].age
    BY <1>0 DEF FetchAges
  <2>2. fetch[p].age \in 0..MaxFetch /\ fetch[p].aged \in 0..MaxFetch
        /\ fetch[p].revision \in Revisions
    BY <2>1 DEF Fetch
  <2>3. caller' \in [Callers -> Caller] /\ AnswersAreBounded'
    BY <1>8, <2>2, SettledAges DEF Store, clocks
  <2>4. stored' \in [Revisions -> Value] /\ StoredAges'
    <3> DEFINE v == [there |-> TRUE, age |-> fetch[p].age, aged |-> fetch[p].aged]
    <3>1. /\ v \in Value /\ v.there /\ v.aged < Lifetime /\ v.age <= v.aged + MaxFetch
      BY <2>2, Constants DEF Value, Ages
    <3> HIDE DEF v
    <3>2. CASE stored' = [stored EXCEPT ![fetch[p].revision] = v]
      BY <1>0, <2>2, <3>1, <3>2 DEF StoredAges
    <3>3. CASE stored' = stored
      BY <1>0, <1>s, <3>3
    <3> QED
      BY <1>8, <3>2, <3>3 DEF Store, v
  <2> QED
    BY <1>0, <1>6, <1>8, <1>t, <2>3, <2>4 DEF Store, clocks
<1>9. ASSUME NEW p \in Processes, Restart(p) PROVE Aging'
  <2>1. caller' \in [Callers -> Caller]
    BY <1>0, <1>9, Constants DEF Restart, Caller
  <2>2. AnswersAreBounded'
    BY <1>0, <1>9 DEF Restart, Caller, AnswersAreBounded
  <2> QED
    BY <1>0, <1>6, <1>9, <1>t, <1>s, <2>1, <2>2 DEF Restart, clocks
<1>10. ASSUME Increment PROVE Aging'
  <2>1. revision' \in [number: Revisions, left: 1..Forever]
    BY <1>0, <1>10, Constants DEF Increment, NextRevision, Revisions
  <2> QED
    BY <1>0, <1>10, <1>t, <1>f, <1>s, <1>c, <2>1, Constants DEF Increment
<1>11. ASSUME Renew PROVE Aging'
  <2>1. revision' \in [number: Revisions, left: 1..Forever]
    BY <1>0, <1>11, Constants DEF Renew, clocks
  <2> QED
    BY <1>0, <1>11, <1>t, <1>f, <1>s, <1>c, <2>1 DEF Renew, clocks
<1>12. ASSUME NEW r \in Revisions, Expire(r) PROVE Aging'
  <2>1. ~Nothing.there
    BY DEF Nothing
  <2> HIDE DEF Nothing
  <2>2. stored' \in [Revisions -> Value] /\ StoredAges'
    BY <1>0, <1>12, <2>1, Constants DEF Expire, StoredAges
  <2> QED
    BY <1>0, <1>12, <1>t, <1>f, <1>c, <2>2 DEF Expire, clocks
<1>13. ASSUME Tick PROVE Aging'
  <2>1. stored' \in [Revisions -> Value] /\ StoredAges'
    <3> SUFFICES ASSUME NEW r \in Revisions
                 PROVE  /\ stored'[r] \in Value
                        /\ stored'[r].there => /\ stored'[r].aged < Lifetime
                                               /\ stored'[r].age <= stored'[r].aged + MaxFetch
      BY <1>13 DEF Tick, StoredAges
    <3>1. CASE ~stored[r].there
      <4>1. stored'[r] = Nothing
        BY <1>13, <3>1 DEF Tick
      <4> QED
        BY <4>1, Constants DEF Nothing
    <3>2. CASE stored[r].there
      <4>1. /\ stored[r] \in Value /\ stored[r].aged + 1 < Lifetime
            /\ stored[r].age <= stored[r].aged + MaxFetch
            /\ stored'[r] = Older(stored[r])
        BY <1>0, <1>13, <3>2 DEF Tick, MayAge, StoredAges
      <4> QED
        <5>1. stored[r].aged + 1 \in 0..Lifetime /\ stored[r].age + 1 \in Ages
          BY <4>1, Constants DEF Value, Ages
        <5>2. /\ stored'[r].aged = stored[r].aged + 1 /\ stored'[r].age = stored[r].age + 1
              /\ stored'[r].there = stored[r].there
          BY <4>1 DEF Older, Value
        <5>3. stored'[r] \in Value
          BY <4>1, <5>1 DEF Older, Value
        <5>4. stored[r].aged \in Nat /\ stored[r].age \in Nat
          BY <4>1, Constants DEF Value, Ages
        <5> QED
          BY <3>2, <4>1, <5>2, <5>3, <5>4, Constants
    <3> QED
      BY <3>1, <3>2
  <2>2. fetch' \in [Processes -> Fetch] /\ FetchAges'
    <3> SUFFICES ASSUME NEW p \in Processes
                 PROVE  /\ fetch'[p] \in Fetch
                        /\ fetch'[p].aged <= fetch'[p].age
                        /\ fetch'[p].pc = "computing" => fetch'[p].aged = 0
      BY <1>13 DEF Tick, FetchAges
    <3>0. fetch[p] \in Fetch /\ fetch[p].aged <= fetch[p].age
          /\ (fetch[p].pc = "computing" => fetch[p].aged = 0)
      BY <1>0 DEF FetchAges
    <3>1. CASE fetch[p].pc = "none"
      <4>1. fetch'[p] = NoFetch
        BY <1>13, <3>1 DEF Tick
      <4> QED
        BY <4>1, Constants DEF NoFetch
    <3>2. CASE fetch[p].pc = "computing"
      <4>1. fetch'[p] = [fetch[p] EXCEPT !.age = @ + 1] /\ fetch[p].age < MaxFetch
        BY <1>13, <3>2 DEF Tick
      <4> QED
        BY <3>0, <3>2, <4>1, Constants DEF Fetch
    <3>3. CASE fetch[p].pc = "storing"
      <4>1. fetch'[p] = Older(fetch[p]) /\ fetch[p].age < MaxFetch
        BY <1>13, <3>3 DEF Tick
      <4> QED
        <5>1. fetch[p].aged + 1 \in 0..MaxFetch /\ fetch[p].age + 1 \in 0..MaxFetch
          BY <3>0, <4>1, Constants DEF Fetch
        <5>2. /\ fetch'[p].aged = fetch[p].aged + 1 /\ fetch'[p].age = fetch[p].age + 1
              /\ fetch'[p].pc = "storing"
          BY <3>0, <3>3, <4>1 DEF Older, Fetch
        <5>3. fetch'[p] \in Fetch
          BY <3>0, <4>1, <5>1 DEF Older, Fetch
        <5>4. fetch[p].aged \in Nat /\ fetch[p].age \in Nat
          BY <3>0, Constants DEF Fetch
        <5> QED
          BY <3>0, <5>2, <5>3, <5>4
    <3> QED
      BY <3>0, <3>1, <3>2, <3>3 DEF Fetch
  <2>3. revision' \in [number: Revisions, left: 1..Forever]
    BY <1>0, <1>13, Constants DEF Tick, Forever
  <2>4. sinceExpiry' \in 0..Lifetime /\ sinceInvalidation' \in 0..Lifetime
    BY <1>0, <1>13, Constants DEF Tick, UpToLifetime
  <2> QED
    BY <1>0, <1>13, <1>t, <1>c, <2>1, <2>2, <2>3, <2>4 DEF Tick
<1>14. ASSUME UNCHANGED vars PROVE Aging'
  BY <1>0, <1>14, <1>t, <1>f, <1>s, <1>c DEF vars
<1> QED
  BY <1>1, <1>2, <1>3, <1>4, <1>5, <1>7, <1>8, <1>9, <1>10, <1>11, <1>12, <1>13, <1>14
     DEF Next

(* Every part of the cache keeps its type, and its clocks their bounds       *)
(* (TypeOK).                                                                 *)
THEOREM CacheTyped == SafetySpec => []TypeOK
<1>1. Aging => TypeOK
  BY DEF Aging
<1> QED
  BY <1>1, AgingInit, AgingStep, PTL DEF SafetySpec

(* However callers, refreshes, failures and restarts interleave, a caller    *)
(* who waited gets what the provider said within one fetch, and no value     *)
(* outlives its hard TTL by more than the fetch that read it                 *)
(* (AnswersAreBounded of readThroughProviderCache).                          *)
THEOREM AnswersBounded == SafetySpec => []AnswersAreBounded
<1>1. Aging => AnswersAreBounded
  BY DEF Aging
<1> QED
  BY <1>1, AgingInit, AgingStep, PTL DEF SafetySpec

-----------------------------------------------------------------------------
(* What is known of a value under a number, by the age of its envelope.      *)
(* Under a later number than the current one it was made before the revision *)
(* last expired; under the current one then, or after the last invalidation; *)
(* under 0, while there is a revision, before the revision got its expiry.   *)
Dated(aged, r) ==
    /\ r > revision.number => aged >= sinceExpiry
    /\ r = revision.number /\ r # 0 => aged >= sinceExpiry \/ aged <= sinceInvalidation
    /\ r = 0 /\ revision.number # 0 => aged + revision.left >= RevisionTtl
    /\ r = 0 /\ revision.number = 0 => aged <= sinceInvalidation

StoredDated == \A r \in Revisions : stored[r].there => Dated(stored[r].aged, r)

FetchedDated ==
    \A p \in Processes :
        fetch[p].pc = "storing" => Dated(fetch[p].aged, fetch[p].revision)

(* Only an invalidation makes the key that can expire.                       *)
KeyExpires == revision.number = 0 => revision.left = Forever

Hidden == Aging /\ StoredDated /\ FetchedDated /\ KeyExpires

LEMMA HiddenInit == Init => Hidden
<1> SUFFICES ASSUME Init PROVE Hidden
  OBVIOUS
<1>1. (\A r \in Revisions : ~stored[r].there) /\ \A p \in Processes : fetch[p].pc = "none"
  BY DEF Init, Nothing, NoFetch
<1> QED
  BY <1>1, AgingInit DEF Hidden, StoredDated, FetchedDated, KeyExpires, Init

(* An invalidation leaves what is known of every value true.                 *)
LEMMA DatedIncrement ==
    ASSUME Aging, KeyExpires, Increment, NEW aged \in Nat, NEW r \in Revisions,
           Dated(aged, r)
    PROVE  Dated(aged, r)'
<1>1. /\ revision \in [number: Revisions, left: 1..Forever]
      /\ revision'.number = revision.number + 1 /\ revision'.left = revision.left
      /\ sinceExpiry' = sinceExpiry /\ sinceInvalidation' = 0
      /\ revision.number \in Nat /\ r \in Nat /\ sinceExpiry \in Nat
  BY Constants DEF Aging, TypeOK, Increment, NextRevision, Revisions
<1>2. r > revision'.number => aged >= sinceExpiry'
  BY <1>1 DEF Dated
<1>3. r = revision'.number => aged >= sinceExpiry'
  BY <1>1 DEF Dated
<1>4. r = 0 => aged + revision'.left >= RevisionTtl
  <2>1. CASE revision.number = 0
    BY <1>1, <2>1, Constants DEF KeyExpires, Forever
  <2>2. CASE revision.number # 0
    BY <1>1, <2>2 DEF Dated
  <2> QED
    BY <2>1, <2>2
<1>5. revision'.number # 0
  BY <1>1
<1> QED
  BY <1>2, <1>3, <1>4, <1>5 DEF Dated

(* Time passes, for a value that is not yet to be dropped.                   *)
LEMMA DatedTick ==
    ASSUME Aging, KeyExpires, Tick, NEW aged \in Nat, NEW r \in Revisions,
           aged + 1 < Lifetime, Dated(aged, r),
           NEW older, older = aged + 1
    PROVE  Dated(older, r)'
<1>1. /\ revision \in [number: Revisions, left: 1..Forever]
      /\ revision.number \in Nat /\ revision.left \in Nat /\ r \in Nat
      /\ sinceExpiry \in Nat /\ sinceInvalidation \in Nat
  BY Constants DEF Aging, TypeOK, Revisions, Forever
<1>2. /\ sinceInvalidation' = UpToLifetime(sinceInvalidation + 1)
      /\ sinceExpiry' = IF revision.left = 1 THEN 0 ELSE UpToLifetime(sinceExpiry + 1)
  BY DEF Tick
<1>3. aged <= sinceInvalidation => older <= sinceInvalidation'
  BY <1>1, <1>2, Constants DEF UpToLifetime
<1>4. CASE revision.left = 1
  <2>1. revision'.number = 0 /\ sinceExpiry' = 0
    BY <1>2, <1>4, Constants DEF Tick, Forever
  <2>2. revision.number # 0
    BY <1>4, Constants DEF KeyExpires, Forever
  <2>3. r # 0
    BY <1>1, <1>4, <2>2, Constants DEF Dated
  <2> QED
    BY <1>1, <2>1, <2>3 DEF Dated
<1>5. CASE revision.left # 1
  <2>1. /\ revision'.number = revision.number
        /\ revision'.left = revision.left
             \/ revision'.left = revision.left - 1
    BY <1>1, <1>5 DEF Tick
  <2>2. aged >= sinceExpiry => older >= sinceExpiry'
    BY <1>1, <1>2, <1>5, Constants DEF UpToLifetime
  <2>3. aged + revision.left >= RevisionTtl => older + revision'.left >= RevisionTtl
    BY <1>1, <2>1, Constants
  <2> QED
    BY <1>3, <2>1, <2>2, <2>3 DEF Dated
<1> QED
  BY <1>4, <1>5

LEMMA HiddenStep == Hidden /\ [Next]_vars => Hidden'
<1> SUFFICES ASSUME Hidden, [Next]_vars PROVE Hidden'
  OBVIOUS
<1>0. /\ Aging /\ Aging' /\ StoredDated /\ FetchedDated /\ KeyExpires
      /\ FetchAges /\ StoredAges
      /\ revision \in [number: Revisions, left: 1..Forever]
      /\ stored \in [Revisions -> Value] /\ fetch \in [Processes -> Fetch]
      /\ caller \in [Callers -> Caller] /\ sinceExpiry \in 0..Lifetime
      /\ sinceInvalidation \in 0..Lifetime
  BY AgingStep DEF Hidden, Aging, TypeOK, Value, Fetch, Caller
<1>d. ASSUME UNCHANGED <<revision, clocks>>
      PROVE  KeyExpires' /\ \A aged, r : Dated(aged, r) => Dated(aged, r)'
  BY <1>0, <1>d DEF KeyExpires, Dated, clocks
<1>s. ASSUME UNCHANGED <<revision, clocks>>,
             \A r \in Revisions : stored'[r].there => stored'[r] = stored[r]
      PROVE  StoredDated'
  BY <1>0, <1>d, <1>s DEF StoredDated
<1>f. ASSUME UNCHANGED <<revision, clocks>>,
             \A p \in Processes : fetch'[p].pc = "storing" => fetch'[p] = fetch[p]
      PROVE  FetchedDated'
  BY <1>0, <1>d, <1>f DEF FetchedDated
<1>c. ASSUME NEW p \in Processes, fetch' = Coalesced(p)
      PROVE  \A q \in Processes : fetch'[q].pc = "storing" => fetch'[q] = fetch[q]
  BY <1>0, <1>c DEF Coalesced, NewFetch, NoFetch
<1>n. ASSUME NEW p \in Processes, fetch' = [fetch EXCEPT ![p] = NoFetch]
      PROVE  \A q \in Processes : fetch'[q].pc = "storing" => fetch'[q] = fetch[q]
  BY <1>0, <1>n DEF NoFetch
<1>1. ASSUME NEW c \in Callers, Arrive(c) \/ Leave(c) PROVE Hidden'
  BY <1>0, <1>1, <1>d, <1>s, <1>f DEF Arrive, Leave, Hidden
<1>2. ASSUME NEW c \in Callers, Serve(c) \/ Miss(c) PROVE Hidden'
  <2>1. caller[c].process \in Processes
    BY <1>0 DEF Caller
  <2>2. fetch' = fetch \/ fetch' = Coalesced(caller[c].process)
    BY <1>2 DEF Serve, Miss
  <2>3. \A q \in Processes : fetch'[q].pc = "storing" => fetch'[q] = fetch[q]
    BY <2>1, <2>2, <1>c
  <2>4. UNCHANGED <<revision, stored, clocks>>
    BY <1>2 DEF Serve, Miss
  <2> QED
    BY <1>0, <1>d, <1>s, <1>f, <2>3, <2>4 DEF Hidden
<1>3. ASSUME NEW p \in Processes, Compute(p) PROVE Hidden'
  <2>1. UNCHANGED <<revision, stored, clocks>>
    BY <1>3 DEF Compute
  <2>2. FetchedDated'
    <3> SUFFICES ASSUME NEW q \in Processes, fetch'[q].pc = "storing"
                 PROVE  Dated(fetch[q].aged, fetch[q].revision)'
      BY DEF FetchedDated
    <3>1. CASE q = p
      <4>1. fetch'[p].revision = revision.number /\ fetch'[p].aged = 0
        BY <1>0, <1>3 DEF Compute, FetchAges, Fetch
      <4>2. /\ revision'.number = revision.number /\ sinceInvalidation' = sinceInvalidation
            /\ revision.number \in Nat /\ 0 <= sinceInvalidation
        BY <1>0, <2>1, Constants DEF Revisions, clocks
      <4> QED
        BY <3>1, <4>1, <4>2 DEF Dated
    <3>2. CASE q # p
      <4>1. fetch'[q] = fetch[q]
        BY <1>0, <1>3, <3>2 DEF Compute
      <4> QED
        BY <1>0, <1>d, <2>1, <4>1 DEF FetchedDated
    <3> QED
      BY <3>1, <3>2
  <2> QED
    BY <1>0, <1>d, <1>s, <2>1, <2>2 DEF Hidden
<1>4. ASSUME NEW p \in Processes, ComputeFails(p) \/ Restart(p) PROVE Hidden'
  BY <1>0, <1>4, <1>d, <1>s, <1>f, <1>n DEF ComputeFails, Restart, Hidden
<1>5. ASSUME NEW p \in Processes, Store(p) PROVE Hidden'
  <2>1. UNCHANGED <<revision, clocks>> /\ fetch' = [fetch EXCEPT ![p] = NoFetch]
    BY <1>5 DEF Store
  <2>2. StoredDated'
    <3>1. CASE stored' = stored
      BY <1>s, <2>1, <3>1
    <3>2. CASE stored' = [stored EXCEPT ![fetch[p].revision] =
                            [there |-> TRUE, age |-> fetch[p].age, aged |-> fetch[p].aged]]
      <4>1. fetch[p].pc = "storing" /\ fetch[p].revision \in Revisions
        BY <1>0, <1>5 DEF Store, Fetch
      <4>2. ASSUME NEW r \in Revisions, r # fetch[p].revision
            PROVE  stored'[r] = stored[r]
        BY <1>0, <3>2, <4>2
      <4>3. stored'[fetch[p].revision].aged = fetch[p].aged
        BY <1>0, <3>2, <4>1
      <4>4. Dated(fetch[p].aged, fetch[p].revision)
        BY <1>0, <4>1 DEF FetchedDated
      <4> QED
        BY <1>0, <1>d, <2>1, <4>1, <4>2, <4>3, <4>4 DEF StoredDated
    <3> QED
      BY <1>5, <3>1, <3>2 DEF Store
  <2> QED
    BY <1>0, <1>d, <1>f, <1>n, <2>1, <2>2 DEF Hidden
<1>6. ASSUME Increment PROVE Hidden'
  <2>1. UNCHANGED <<stored, fetch>>
    BY <1>6 DEF Increment
  <2>2. StoredDated'
    <3>1. \A r \in Revisions : stored[r].aged \in Nat
      BY <1>0, Constants DEF Value
    <3> QED
      BY <1>0, <1>6, <2>1, <3>1, DatedIncrement DEF StoredDated
  <2>3. FetchedDated'
    <3>1. \A p \in Processes : fetch[p].aged \in Nat /\ fetch[p].revision \in Revisions
      BY <1>0, Constants DEF Fetch
    <3> QED
      BY <1>0, <1>6, <2>1, <3>1, DatedIncrement DEF FetchedDated
  <2>4. KeyExpires'
    BY <1>0, <1>6, Constants DEF Increment, NextRevision, KeyExpires, Revisions
  <2> QED
    BY <1>0, <2>2, <2>3, <2>4 DEF Hidden
<1>7. ASSUME Renew PROVE Hidden'
  <2>1. /\ revision'.number = revision.number /\ revision.number # 0
        /\ revision'.left = RevisionTtl
        /\ UNCHANGED <<stored, fetch, sinceExpiry, sinceInvalidation>>
    BY <1>0, <1>7 DEF Renew, clocks
  <2>2. ASSUME NEW aged \in Nat, NEW r \in Revisions, Dated(aged, r)
        PROVE  Dated(aged, r)'
    BY <2>1, <2>2, Constants DEF Dated
  <2>3. StoredDated'
    <3>1. \A r \in Revisions : stored[r].aged \in Nat
      BY <1>0, Constants DEF Value
    <3> QED
      BY <1>0, <2>1, <2>2, <3>1 DEF StoredDated
  <2>4. FetchedDated'
    <3>1. \A p \in Processes : fetch[p].aged \in Nat /\ fetch[p].revision \in Revisions
      BY <1>0, Constants DEF Fetch
    <3> QED
      BY <1>0, <2>1, <2>2, <3>1 DEF FetchedDated
  <2> QED
    BY <1>0, <2>1, <2>3, <2>4 DEF Hidden, KeyExpires
<1>8. ASSUME NEW r \in Revisions, Expire(r) PROVE Hidden'
  <2>1. UNCHANGED <<revision, fetch, clocks>>
        /\ \A q \in Revisions : stored'[q].there => stored'[q] = stored[q]
    BY <1>0, <1>8 DEF Expire, Nothing
  <2> QED
    BY <1>0, <1>d, <1>f, <1>s, <2>1 DEF Hidden
<1>9. ASSUME Tick PROVE Hidden'
  <2>1. StoredDated'
    <3> SUFFICES ASSUME NEW r \in Revisions, stored'[r].there
                 PROVE  Dated(stored[r].aged, r)'
      BY DEF StoredDated
    <3>1. stored[r].there /\ stored'[r] = Older(stored[r]) /\ stored[r].aged + 1 < Lifetime
      BY <1>9 DEF Tick, Nothing, MayAge
    <3>2. stored[r] \in Value /\ stored[r].aged \in Nat
      BY <1>0, Constants DEF Value
    <3>3. stored'[r].aged = stored[r].aged + 1
      BY <3>1, <3>2 DEF Older, Value
    <3> QED
      BY <1>0, <1>9, <3>1, <3>2, <3>3, DatedTick DEF StoredDated
  <2>2. FetchedDated'
    <3> SUFFICES ASSUME NEW p \in Processes, fetch'[p].pc = "storing"
                 PROVE  Dated(fetch[p].aged, fetch[p].revision)'
      BY DEF FetchedDated
    <3>0. fetch[p] \in Fetch /\ fetch[p].aged <= fetch[p].age
      BY <1>0 DEF FetchAges
    <3>1. fetch[p].pc = "storing" /\ fetch'[p] = Older(fetch[p]) /\ fetch[p].age < MaxFetch
      <4>1. CASE fetch[p].pc = "none"
        BY <1>9, <4>1 DEF Tick, NoFetch
      <4>2. CASE fetch[p].pc = "computing"
        <5>1. fetch'[p] = [fetch[p] EXCEPT !.age = @ + 1]
          BY <1>9, <4>2 DEF Tick
        <5> QED
          BY <3>0, <4>2, <5>1 DEF Fetch
      <4>3. CASE fetch[p].pc = "storing"
        BY <1>9, <4>3 DEF Tick
      <4> QED
        BY <3>0, <4>1, <4>2, <4>3 DEF Fetch
    <3>2. /\ fetch'[p].aged = fetch[p].aged + 1 /\ fetch'[p].revision = fetch[p].revision
          /\ fetch[p].aged \in Nat /\ fetch[p].age \in Nat /\ fetch[p].revision \in Revisions
      BY <3>0, <3>1, Constants DEF Older, Fetch
    <3>3. fetch[p].aged + 1 < Lifetime
      BY <3>0, <3>1, <3>2, Constants
    <3> QED
      BY <1>0, <1>9, <3>1, <3>2, <3>3, DatedTick DEF FetchedDated
  <2>3. KeyExpires'
    BY <1>0, <1>9 DEF Tick, KeyExpires
  <2> QED
    BY <1>0, <2>1, <2>2, <2>3 DEF Hidden
<1>10. ASSUME UNCHANGED vars PROVE Hidden'
  <2>1. UNCHANGED <<revision, clocks>> /\ UNCHANGED <<stored, fetch>>
    BY <1>10 DEF vars, clocks
  <2> QED
    BY <1>0, <1>d, <1>s, <1>f, <2>1 DEF Hidden
<1> QED
  BY <1>1, <1>2, <1>3, <1>4, <1>5, <1>6, <1>7, <1>8, <1>9, <1>10 DEF Next

(* What a request finds was asked of the provider after the last             *)
(* invalidation or at most one fetch before, a fetch that the invalidation   *)
(* overtook included, unless a number other than 0 is used again, less than  *)
(* a lifetime after its revision expired (FoundSinceInvalidation of          *)
(* invalidateTenantCache and writeTenantCache).                              *)
THEOREM InvalidatedStaysHidden == SafetySpec => []FoundSinceInvalidation
<1>1. Hidden => FoundSinceInvalidation
  <2> SUFFICES ASSUME Hidden, stored[revision.number].there, ~ReusedNumber
               PROVE  stored[revision.number].age <= sinceInvalidation + MaxFetch
    BY DEF FoundSinceInvalidation
  <2> DEFINE n == revision.number
  <2>1. n \in Revisions /\ n \in Nat
    BY DEF Hidden, Aging, TypeOK, Revisions
  <2>2. /\ stored[n].aged < Lifetime /\ stored[n].age <= stored[n].aged + MaxFetch
        /\ stored[n].aged \in Nat /\ stored[n].age \in Nat
    BY <2>1, Constants DEF Hidden, Aging, StoredAges, TypeOK, Ages
  <2>3. Dated(stored[n].aged, n)
    BY <2>1 DEF Hidden, StoredDated
  <2>4. sinceExpiry \in Nat /\ sinceInvalidation \in Nat
    BY Constants DEF Hidden, Aging, TypeOK
  <2>5. stored[n].aged <= sinceInvalidation
    BY <2>1, <2>2, <2>3, <2>4, Constants DEF Dated, ReusedNumber
  <2> QED
    BY <2>2, <2>4, <2>5, Constants
<1> QED
  BY <1>1, HiddenInit, HiddenStep, PTL DEF SafetySpec

=============================================================================
