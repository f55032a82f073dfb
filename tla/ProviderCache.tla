---------------------------- MODULE ProviderCache ----------------------------
(***************************************************************************)
(* One provider read of the Command panel behind its caches: the envelope  *)
(* with a soft and a hard age and the coalesced fetches of a process       *)
(* (utils/provider-cache.ts), kept in Redis under the revision of its      *)
(* scope, which an invalidation increments                                 *)
(* (utils/tenant-response-cache.ts).  Time is counted from each event, so  *)
(* behaviours have no end.                                                 *)
(***************************************************************************)
EXTENDS Naturals

CONSTANTS
    Callers,
    Processes,
    Soft,          \* age at which a value is refreshed behind the response
    Hard,          \* age before which a value is not dropped
    Lifetime,      \* age a value never reaches: hard TTL, jitter, and the write
    MaxFetch,      \* longest fetch, from its start to the write's answer
    RevisionTtl,
    MaxRevision    \* bound: invalidations before the revision expires

(* A revision outlives the values of every caller there is: REVISION_TTL is  *)
(* 31 days, the longest hard TTL asked for is one day, with a tenth added.   *)
(* The writer alone would let a value live 33 days.                          *)
ASSUME CacheAssumption ==
    /\ Soft \in Nat /\ Hard \in Nat /\ Lifetime \in Nat /\ MaxFetch \in Nat
    /\ MaxFetch < Lifetime /\ Lifetime <= RevisionTtl
    /\ RevisionTtl \in Nat \ {0} /\ MaxRevision \in Nat

VARIABLES
    revision,      \* the scope's revision key; 0 when there is none
    stored,        \* the value stored under each revision
    fetch,         \* the fetch in flight in each process
    caller,
    sinceExpiry,   \* time since a revision expired, up to Lifetime
    sinceInvalidation  \* time since the last invalidation, up to Lifetime

clocks == <<sinceExpiry, sinceInvalidation>>
vars == <<revision, stored, fetch, caller, sinceExpiry, sinceInvalidation>>

Revisions == 0..MaxRevision
Forever == RevisionTtl + 1     \* a key without an expiry
Ages == 0..(Lifetime + MaxFetch)

-----------------------------------------------------------------------------
(* age: since the provider was asked; aged: since the envelope was made.     *)
Nothing == [there |-> FALSE, age |-> 0, aged |-> 0]
NoFetch == [pc |-> "none", age |-> 0, aged |-> 0, revision |-> 0]
NewFetch == [NoFetch EXCEPT !.pc = "computing"]

TypeOK ==
    /\ revision \in [number: Revisions, left: 1..Forever]
    /\ stored \in [Revisions -> [there: BOOLEAN, age: Ages, aged: 0..Lifetime]]
    /\ fetch \in [Processes -> [pc: {"none", "computing", "storing"}, age: 0..MaxFetch,
                                aged: 0..MaxFetch, revision: Revisions]]
    /\ caller \in [Callers -> [pc: {"idle", "reading", "waiting", "served", "answered",
                                    "failed"},
                               process: Processes, revision: Revisions, age: Ages]]
    /\ sinceExpiry \in 0..Lifetime /\ sinceInvalidation \in 0..Lifetime

Init ==
    /\ revision = [number |-> 0, left |-> Forever]
    /\ stored = [r \in Revisions |-> Nothing]
    /\ fetch = [p \in Processes |-> NoFetch]
    /\ caller \in [Callers -> {[pc |-> "idle", process |-> p, revision |-> 0, age |-> 0] :
                               p \in Processes}]
    /\ sinceExpiry = Lifetime /\ sinceInvalidation = Lifetime

-----------------------------------------------------------------------------
(* A request: the revision, then the value under it.                         *)
Arrive(c) ==
    /\ caller[c].pc = "idle"
    /\ caller' = [caller EXCEPT ![c].pc = "reading", ![c].revision = revision.number]
    /\ UNCHANGED <<revision, stored, fetch, clocks>>

(* A fetch already in flight in the process is joined.                       *)
Coalesced(p) ==
    [fetch EXCEPT ![p] = IF fetch[p].pc = "none" THEN NewFetch ELSE fetch[p]]

(* A stored value is returned, and refreshed behind the response when stale. *)
Serve(c) ==
    LET value == stored[caller[c].revision]
    IN  /\ caller[c].pc = "reading"
        /\ value.there
        /\ caller' = [caller EXCEPT ![c].pc = "served", ![c].age = value.age,
                                    ![c].revision = 0]
        /\ fetch' = IF value.aged < Soft THEN fetch ELSE Coalesced(caller[c].process)
        /\ UNCHANGED <<revision, stored, clocks>>

(* Nothing stored, nothing that validates, or Redis does not answer.         *)
Miss(c) ==
    /\ caller[c].pc = "reading"
    /\ caller' = [caller EXCEPT ![c].pc = "waiting", ![c].revision = 0]
    /\ fetch' = Coalesced(caller[c].process)
    /\ UNCHANGED <<revision, stored, clocks>>

Leave(c) ==
    /\ caller[c].pc \in {"served", "answered", "failed"}
    /\ caller' = [caller EXCEPT ![c].pc = "idle", ![c].age = 0]
    /\ UNCHANGED <<revision, stored, fetch, clocks>>

-----------------------------------------------------------------------------
(* Mutant of Settled: a failed fetch is only logged.                         *)
SettledQuietly(p, outcome, age) ==
    [c \in Callers |->
       IF caller[c].pc = "waiting" /\ caller[c].process = p /\ outcome = "answered"
       THEN [caller[c] EXCEPT !.pc = outcome, !.age = age]
       ELSE caller[c]]

(* A fetch ends for every caller of its process that waits.                  *)
Settled(p, outcome, age) ==
    [c \in Callers |->
       IF caller[c].pc = "waiting" /\ caller[c].process = p
       THEN [caller[c] EXCEPT !.pc = outcome, !.age = age]
       ELSE caller[c]]

(* The provider has answered: the envelope is made and the revision read.    *)
Compute(p) ==
    /\ fetch[p].pc = "computing"
    /\ fetch' = [fetch EXCEPT ![p].pc = "storing", ![p].revision = revision.number]
    /\ UNCHANGED <<revision, stored, caller, clocks>>

ComputeFails(p) ==
    /\ fetch[p].pc = "computing"
    /\ fetch' = [fetch EXCEPT ![p] = NoFetch]
    /\ caller' = Settled(p, "failed", 0)
    /\ UNCHANGED <<revision, stored, clocks>>

(* The value is stored, unless Redis fails or it is too large, and returned. *)
Store(p) ==
    /\ fetch[p].pc = "storing"
    /\ fetch' = [fetch EXCEPT ![p] = NoFetch]
    /\ caller' = Settled(p, "answered", fetch[p].age)
    /\ \/ stored' = [stored EXCEPT ![fetch[p].revision] =
                       [there |-> TRUE, age |-> fetch[p].age, aged |-> fetch[p].aged]]
       \/ stored' = stored
    /\ UNCHANGED <<revision, clocks>>

(* A process restarts: what it was fetching and answering is gone.           *)
Restart(p) ==
    /\ fetch' = [fetch EXCEPT ![p] = NoFetch]
    /\ caller' = [c \in Callers |->
                    IF caller[c].process = p
                    THEN [caller[c] EXCEPT !.pc = "idle", !.age = 0, !.revision = 0]
                    ELSE caller[c]]
    /\ UNCHANGED <<revision, stored, clocks>>

-----------------------------------------------------------------------------
(* Mutant of NextRevision: the revision is deleted.                          *)
Deleted(n) == 0

NextRevision(n) == n + 1

(* An invalidation increments the revision, which keeps the expiry it has,   *)
(* and then renews it; the process may die in between.                       *)
Increment ==
    /\ revision.number < MaxRevision
    /\ revision' = [revision EXCEPT !.number = NextRevision(revision.number)]
    /\ sinceInvalidation' = 0
    /\ UNCHANGED <<stored, fetch, caller, sinceExpiry>>

Renew ==
    /\ revision.number # 0
    /\ revision' = [revision EXCEPT !.left = RevisionTtl]
    /\ UNCHANGED <<stored, fetch, caller, clocks>>

(* Redis drops a value between its hard age and its lifetime.                *)
Expire(r) ==
    /\ stored[r].there /\ stored[r].aged >= Hard
    /\ stored' = [stored EXCEPT ![r] = Nothing]
    /\ UNCHANGED <<revision, fetch, caller, clocks>>

(* Mutant of MayAge: values are stored without an expiry.                    *)
KeptForever(value) == TRUE

MayAge(value) == value.aged + 1 < Lifetime

UpToLifetime(t) == IF t <= Lifetime THEN t ELSE Lifetime

Older(value) == [value EXCEPT !.age = @ + 1, !.aged = @ + 1]

(* Time passes.                                                              *)
Tick ==
    /\ \A r \in Revisions : stored[r].there => MayAge(stored[r])
    /\ \A p \in Processes : fetch[p].pc # "none" => fetch[p].age < MaxFetch
    /\ stored' = [r \in Revisions |-> IF stored[r].there THEN Older(stored[r]) ELSE Nothing]
    /\ fetch' = [p \in Processes |->
                   CASE fetch[p].pc = "none" -> NoFetch
                     [] fetch[p].pc = "computing" -> [fetch[p] EXCEPT !.age = @ + 1]
                     [] fetch[p].pc = "storing" -> Older(fetch[p])]
    /\ revision' = CASE revision.left = Forever -> revision
                     [] revision.left = 1 -> [number |-> 0, left |-> Forever]
                     [] OTHER -> [revision EXCEPT !.left = @ - 1]
    /\ sinceExpiry' = IF revision.left = 1 THEN 0 ELSE UpToLifetime(sinceExpiry + 1)
    /\ sinceInvalidation' = UpToLifetime(sinceInvalidation + 1)
    /\ UNCHANGED caller

-----------------------------------------------------------------------------
Next ==
    \/ \E c \in Callers : Arrive(c) \/ Serve(c) \/ Miss(c) \/ Leave(c)
    \/ \E p \in Processes : Compute(p) \/ ComputeFails(p) \/ Store(p) \/ Restart(p)
    \/ Increment \/ Renew \/ (\E r \in Revisions : Expire(r)) \/ Tick

SafetySpec == Init /\ [][Next]_vars

(* Redis and the provider answer or time out.                                *)
Spec ==
    /\ SafetySpec
    /\ \A c \in Callers : WF_vars(Serve(c) \/ Miss(c))
    /\ \A p \in Processes : WF_vars(Compute(p) \/ ComputeFails(p)) /\ WF_vars(Store(p))

-----------------------------------------------------------------------------
(* However callers, refreshes, failures and restarts interleave, a caller    *)
(* who waited gets what the provider said within one fetch, and no caller    *)
(* gets a value that outlived its hard TTL by more than the fetch that read  *)
(* it (readThroughProviderCache).                                            *)
AnswersAreBounded ==
    \A c \in Callers :
        /\ caller[c].pc = "answered" => caller[c].age <= MaxFetch
        /\ caller[c].pc = "served" => caller[c].age < Lifetime + MaxFetch

(* What a request finds was asked of the provider after the last             *)
(* invalidation, or at most one fetch before: a fetch that an invalidation   *)
(* overtakes is stored under the new revision.  Only a number that is reused *)
(* once its revision has expired shows older values, for less than a         *)
(* lifetime, and 0 never does (invalidateTenantCache, writeTenantCache).     *)
ReusedNumber == revision.number # 0 /\ sinceExpiry < Lifetime

FoundSinceInvalidation ==
    LET found == stored[revision.number]
    IN  found.there => found.age <= sinceInvalidation + MaxFetch \/ ReusedNumber

(* Every request is answered, or told of the failure, in the end             *)
(* (readThroughProviderCache, coalesce).                                     *)
EventuallyAnswered ==
    \A c \in Callers :
        caller[c].pc \in {"reading", "waiting"} ~> caller[c].pc \notin {"reading", "waiting"}

=============================================================================
