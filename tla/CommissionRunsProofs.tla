----------------------- MODULE CommissionRunsProofs -----------------------
(***************************************************************************)
(* Theorems about CommissionRuns and CommissionClose, for every set of     *)
(* deals, reps, concurrent requests, months and amounts.                   *)
(***************************************************************************)
EXTENDS CommissionClose, CommissionSums, WellFoundedInduction, TLAPS

(* Every line the engine makes has one of the kinds and statuses. *)
LEMMA EngineLines ==
    ASSUME NEW deal, NEW pol, NEW m, NEW line \in CalculateDealLines(deal, pol, m)
    PROVE  line.kind \in LineKinds /\ line.status \in LineStatuses
  BY DEF CalculateDealLines, LineWhen, BaseLine, EarnedOrHeld, LineKinds, LineStatuses

(* The inductive form of TypeOK: the tables are functions and the locals of *)
(* a request records as well, which EXCEPT needs.                           *)

(* What a request keeps in its locals is well formed. *)
LocalsOK ==
    /\ pc \in [Requests -> {"idle", "reading", "persist", "lock"}]
    /\ target \in [Requests -> Months]
    /\ unread \in [Requests -> SUBSET Queries]
    /\ \A q \in Requests :
          /\ seen[q].status \in {"none", "open", "locked"}
          /\ \A l \in result[q].lines : LineOK(l)
          /\ \A s \in result[q].snapshots : s.rep \in Reps
    /\ seen = [q \in Requests |->
          [asOf |-> seen[q].asOf, policy |-> seen[q].policy, lines |-> seen[q].lines,
           snapshots |-> seen[q].snapshots, status |-> seen[q].status]]
    /\ result = [q \in Requests |->
          [lines |-> result[q].lines, snapshots |-> result[q].snapshots]]

(* The tables and the facts are well formed. *)
TablesOK ==
    /\ day \in 0..LastDay
    /\ owner \in [Deals -> Reps \cup {NoRep}]
    /\ status \in [Months -> {"none", "open", "locked"}]
    /\ lockAudits \in [Months -> Nat]
    /\ lockedBy \in [Months -> Requests \cup {Nobody}]
    /\ \A m \in Months :
          /\ \A l \in lines[m] : LineOK(l)
          /\ \A s \in snapshots[m] : s.rep \in Reps
    /\ lines = [m \in Months |-> lines[m]]
    /\ snapshots = [m \in Months |-> snapshots[m]]
    /\ configuration = [m \in Months |-> configuration[m]]

Typing == TablesOK /\ LocalsOK

LEMMA TypingGivesTypeOK == Typing => TypeOK
  BY Zenon DEF Typing, TypeOK, TablesOK, LocalsOK

LEMMA InitTyping == ASSUME Init PROVE Typing
  BY RunsAssumption
     DEF Init, Typing, TablesOK, LocalsOK, Months, NothingSeen, NoResult

(* A calculation that is not blocked credits every line to a rep. *)
LEMMA CalculatedLinesOK ==
    ASSUME TablesOK, NEW m, NEW pol, NEW prior, MappingBlockers(m) = {},
           NEW l \in CalculatedLines(m, pol, prior)
    PROVE  LineOK(l)
  <1>1. PICK d \in Discovered(m) :
           \E line \in CalculateDealLines(Seed(d, m, prior), pol, m) :
              l = CreditedLine(d, owner[d], line)
    BY DEF CalculatedLines
  <1>2. PICK line \in CalculateDealLines(Seed(d, m, prior), pol, m) :
           l = CreditedLine(d, owner[d], line)
    BY <1>1
  <1>3. d \in Deals /\ owner[d] \in Reps
    BY DEF MappingBlockers, Discovered, TablesOK
  <1>4. line.kind \in LineKinds /\ line.status \in LineStatuses
    BY EngineLines
  <1> QED BY <1>2, <1>3, <1>4 DEF LineOK, CreditedLine

LEMMA SnapshotsHaveReps ==
    ASSUME NEW ls, NEW pol, NEW prior, NEW s \in RepSnapshots(ls, pol, prior)
    PROVE  s.rep \in Reps
  <1>1. PICK r \in SnapshotReps(ls) :
           s = RepSnapshot(r, {l \in ls : l.rep = r},
                           OpeningBalance(prior, r), pol.recoverable)
    BY DEF RepSnapshots
  <1>2. s.rep = r
    BY <1>1 DEF RepSnapshot
  <1> QED BY <1>2 DEF SnapshotReps

LEMMA FinishLocals ==
    ASSUME LocalsOK, NEW q \in Requests, Finish(q)
    PROVE  LocalsOK'
  <1>1. /\ pc' \in [Requests -> {"idle", "reading", "persist", "lock"}]
        /\ target' \in [Requests -> Months]
        /\ unread' \in [Requests -> SUBSET Queries]
    BY RunsAssumption DEF LocalsOK, Finish, Months
  <1>2. /\ seen' = [p \in Requests |-> IF p = q THEN NothingSeen ELSE seen[p]]
        /\ result' = [p \in Requests |-> IF p = q THEN NoResult ELSE result[p]]
    BY DEF LocalsOK, Finish
  <1>3. \A p \in Requests :
          /\ seen'[p] = [asOf |-> seen'[p].asOf, policy |-> seen'[p].policy, lines |-> seen'[p].lines,
                         snapshots |-> seen'[p].snapshots, status |-> seen'[p].status]
          /\ result'[p] = [lines |-> result'[p].lines, snapshots |-> result'[p].snapshots]
    BY <1>2 DEF LocalsOK, NothingSeen, NoResult
  <1>4. \A p \in Requests :
          /\ seen'[p].status \in {"none", "open", "locked"}
          /\ \A l \in result'[p].lines : LineOK(l)
          /\ \A s \in result'[p].snapshots : s.rep \in Reps
    BY <1>2 DEF LocalsOK, NothingSeen, NoResult
  <1> QED BY <1>1, <1>2, <1>3, <1>4 DEF LocalsOK, LineOK
LEMMA WorldTyping == ASSUME Typing, World PROVE Typing'
  <1> USE DEF Typing
  <1>1. LocalsOK'
    BY DEF LocalsOK, World, NextDay, ProviderEvent, AssignOwner, RepDeparts,
           ApproveDecisions, requests, LineOK
  <1>2. UNCHANGED runs
    BY DEF World, NextDay, ProviderEvent, AssignOwner, RepDeparts, ApproveDecisions
  <1>3. day' \in 0..LastDay
    BY RunsAssumption
       DEF TablesOK, World, NextDay, ProviderEvent, AssignOwner, RepDeparts, ApproveDecisions
  <1>4. owner' \in [Deals -> Reps \cup {NoRep}]
    BY DEF TablesOK, World, NextDay, ProviderEvent, AssignOwner, RepDeparts, ApproveDecisions
  <1> QED BY <1>1, <1>2, <1>3, <1>4 DEF TablesOK, runs, LineOK

(* A request that only changes its locals keeps the tables. *)
LEMMA TablesStay == ASSUME TablesOK, UNCHANGED <<facts, runs>> PROVE TablesOK'
  BY DEF TablesOK, facts, runs, LineOK

LEMMA StartTyping ==
    ASSUME Typing, NEW q \in Requests, NEW m \in Months, StartCalculate(q, m)
    PROVE  Typing'
  <1>1. TablesOK' BY TablesStay DEF StartCalculate, Typing
  <1> DEFINE fresh == [NothingSeen EXCEPT !.asOf = AsOf(m)]
  <1>2. /\ fresh = [asOf |-> fresh.asOf, policy |-> fresh.policy, lines |-> fresh.lines,
                    snapshots |-> fresh.snapshots, status |-> fresh.status]
        /\ fresh.status \in {"none", "open", "locked"}
    BY DEF NothingSeen
  <1>3. seen' = [p \in Requests |-> IF p = q THEN fresh ELSE seen[p]]
    BY DEF Typing, LocalsOK, StartCalculate
  <1> HIDE DEF fresh
  <1>4. /\ pc' \in [Requests -> {"idle", "reading", "persist", "lock"}]
        /\ target' \in [Requests -> Months]
        /\ unread' \in [Requests -> SUBSET Queries]
        /\ UNCHANGED result
    BY DEF Typing, LocalsOK, StartCalculate, Queries
  <1>5. \A p \in Requests :
          /\ seen'[p] = [asOf |-> seen'[p].asOf, policy |-> seen'[p].policy,
                         lines |-> seen'[p].lines, snapshots |-> seen'[p].snapshots,
                         status |-> seen'[p].status]
          /\ seen'[p].status \in {"none", "open", "locked"}
    BY <1>2, <1>3 DEF Typing, LocalsOK
  <1>6. LocalsOK'
    BY <1>3, <1>4, <1>5 DEF Typing, LocalsOK, LineOK
  <1> QED BY <1>1, <1>6 DEF Typing

LEMMA ReadTyping ==
    ASSUME Typing, NEW q \in Requests, NEW query \in Queries, Read(q, query)
    PROVE  Typing'
  <1> USE DEF Typing
  <1>1. TablesOK' BY TablesStay DEF Read
  <1>2. target[q] \in Months /\ status[target[q]] \in {"none", "open", "locked"}
    BY DEF LocalsOK, TablesOK
  <1>3. seen' = [p \in Requests |-> IF p = q THEN Answer(query, target[q], seen[q])
                                             ELSE seen[p]]
    BY DEF Read, LocalsOK
  <1> DEFINE a == Answer(query, target[q], seen[q])
  <1>s. seen[q] = [asOf |-> seen[q].asOf, policy |-> seen[q].policy, lines |-> seen[q].lines,
                   snapshots |-> seen[q].snapshots, status |-> seen[q].status]
        /\ seen[q].status \in {"none", "open", "locked"}
    BY DEF LocalsOK
  <1>4. /\ a = [asOf |-> a.asOf, policy |-> a.policy, lines |-> a.lines,
                snapshots |-> a.snapshots, status |-> a.status]
        /\ a.status \in {"none", "open", "locked"}
    <2>1. CASE query = "decisions" BY <1>2, <1>s, <2>1 DEF Answer
    <2>2. CASE query = "prior_lines" BY <1>2, <1>s, <2>2 DEF Answer
    <2>3. CASE query = "prior_snapshots" BY <1>2, <1>s, <2>3 DEF Answer
    <2>4. CASE query = "existing_run" BY <1>2, <1>s, <2>4 DEF Answer
    <2> QED BY <2>1, <2>2, <2>3, <2>4 DEF Queries
  <1> HIDE DEF a
  <1>c. \A p \in Requests :
          /\ seen'[p] = [asOf |-> seen'[p].asOf, policy |-> seen'[p].policy, lines |-> seen'[p].lines,
                         snapshots |-> seen'[p].snapshots, status |-> seen'[p].status]
          /\ seen'[p].status \in {"none", "open", "locked"}
    BY <1>3, <1>4 DEF LocalsOK, a
  <1>5. LocalsOK'
    BY <1>3, <1>c DEF Read, LocalsOK, LineOK
  <1> QED BY <1>1, <1>5

LEMMA CalculateTyping ==
    ASSUME Typing, NEW q \in Requests, Calculate(q)
    PROVE  Typing'
  <1> USE DEF Typing
  <1> DEFINE ls == CalculatedLines(target[q], seen[q].policy, seen[q].lines)
             new == [lines |-> ls,
                     snapshots |-> RepSnapshots(ls, seen[q].policy, seen[q].snapshots)]
  <1>1. TablesOK' BY TablesStay DEF Calculate
  <1>2. MappingBlockers(target[q]) = {}
    BY DEF Calculate, Blocked
  <1>3. \A l \in new.lines : LineOK(l)
    BY <1>2, CalculatedLinesOK
  <1>4. \A s \in new.snapshots : s.rep \in Reps
    BY SnapshotsHaveReps
  <1>5. /\ result' = [p \in Requests |-> IF p = q THEN new ELSE result[p]]
        /\ pc' = [pc EXCEPT ![q] = "persist"]
        /\ seen' = [seen EXCEPT ![q] = Consumed(@)]
        /\ UNCHANGED <<target, unread>>
    BY DEF Calculate, LocalsOK
  <1> HIDE DEF new
  <1>r. \A p \in Requests :
          seen[p] = [asOf |-> seen[p].asOf, policy |-> seen[p].policy, lines |-> seen[p].lines,
                     snapshots |-> seen[p].snapshots, status |-> seen[p].status]
    BY DEF LocalsOK
  <1>f. seen' = [p \in Requests |->
          IF p = q THEN [asOf |-> 0, policy |-> seen[q].policy, lines |-> {}, snapshots |-> {},
                         status |-> seen[q].status]
          ELSE seen[p]]
    <2>1. seen = [p \in Requests |-> seen[p]] BY DEF LocalsOK
    <2> QED BY <1>5, <2>1 DEF Consumed
  <1>6. \A p \in Requests :
          /\ seen'[p] = [asOf |-> seen'[p].asOf, policy |-> seen'[p].policy, lines |-> seen'[p].lines,
                         snapshots |-> seen'[p].snapshots, status |-> seen'[p].status]
          /\ seen'[p].status = seen[p].status
    BY <1>f, <1>r
  <1>7. seen' = [p \in Requests |-> seen'[p]]
    BY <1>f
  <1>8. new = [lines |-> new.lines, snapshots |-> new.snapshots]
    BY DEF new
  <1>9. LocalsOK'
    <2>1. /\ pc' \in [Requests -> {"idle", "reading", "persist", "lock"}]
          /\ target' \in [Requests -> Months]
          /\ unread' \in [Requests -> SUBSET Queries]
      BY <1>5 DEF LocalsOK
    <2>2. \A p \in Requests :
            /\ seen'[p].status \in {"none", "open", "locked"}
            /\ \A l \in result'[p].lines : LineOK(l)
            /\ \A s \in result'[p].snapshots : s.rep \in Reps
      BY <1>3, <1>4, <1>5, <1>6 DEF LocalsOK
    <2>3. seen' = [p \in Requests |->
             [asOf |-> seen'[p].asOf, policy |-> seen'[p].policy, lines |-> seen'[p].lines,
              snapshots |-> seen'[p].snapshots, status |-> seen'[p].status]]
      BY <1>6, <1>7
    <2>4. result' = [p \in Requests |->
             [lines |-> result'[p].lines, snapshots |-> result'[p].snapshots]]
      BY <1>5, <1>8 DEF LocalsOK
    <2> QED BY <2>1, <2>2, <2>3, <2>4 DEF LocalsOK, LineOK
  <1> QED BY <1>1, <1>9

LEMMA PersistTyping ==
    ASSUME Typing, NEW q \in Requests, Persist(q)
    PROVE  Typing'
  <1> USE DEF Typing
  <1>1. LocalsOK' BY FinishLocals DEF Persist
  <1>2. target[q] \in Months BY DEF LocalsOK
  <1>3. /\ \A l \in result[q].lines : LineOK(l)
        /\ \A s \in result[q].snapshots : s.rep \in Reps
    BY DEF LocalsOK
  <1>4. TablesOK'
    BY <1>2, <1>3 DEF TablesOK, Persist, WriteRun, facts, LineOK
  <1> QED BY <1>1, <1>4

LEMMA LockReadTyping ==
    ASSUME Typing, NEW q \in Requests, NEW m \in Months, LockRead(q, m)
    PROVE  Typing'
  <1>1. TablesOK' BY TablesStay DEF LockRead, Typing
  <1>2. LocalsOK' BY DEF Typing, LocalsOK, LockRead, LineOK
  <1> QED BY <1>1, <1>2 DEF Typing

LEMMA LockCommitTyping ==
    ASSUME Typing, NEW q \in Requests, LockCommit(q)
    PROVE  Typing'
  <1> USE DEF Typing
  <1>1. LocalsOK' BY FinishLocals DEF LockCommit
  <1>2. target[q] \in Months BY DEF LocalsOK
  <1>3. TablesOK' BY <1>2 DEF TablesOK, LockCommit, facts, LineOK
  <1> QED BY <1>1, <1>3

(* A request that ends without a transaction. *)
LEMMA NoEffectTyping ==
    ASSUME Typing, NEW q \in Requests, Finish(q), UNCHANGED <<facts, runs>>
    PROVE  Typing'
  BY FinishLocals, TablesStay DEF Typing

LEMMA NextTyping == ASSUME Typing, [Next]_vars PROVE Typing'
  <1>1. CASE World BY <1>1, WorldTyping
  <1>2. CASE UNCHANGED vars
    BY <1>2 DEF Typing, TablesOK, LocalsOK, vars, facts, runs, requests, LineOK
  <1>3. ASSUME NEW q \in Requests, Request(q) PROVE Typing'
    <2>1. CASE \E m \in Months : StartCalculate(q, m) BY <2>1, StartTyping
    <2>2. CASE \E query \in Queries : Read(q, query) BY <2>2, ReadTyping
    <2>3. CASE RefuseCalculate(q) BY <2>3, NoEffectTyping DEF RefuseCalculate
    <2>4. CASE Calculate(q) BY <2>4, CalculateTyping
    <2>5. CASE Persist(q) BY <2>5, PersistTyping
    <2>6. CASE PersistConflict(q) BY <2>6, NoEffectTyping DEF PersistConflict
    <2>7. CASE \E m \in Months : LockRead(q, m) BY <2>7, LockReadTyping
    <2>8. CASE LockCommit(q) BY <2>8, LockCommitTyping
    <2>9. CASE Crash(q) BY <2>9, NoEffectTyping DEF Crash
    <2> QED BY <1>3, <2>1, <2>2, <2>3, <2>4, <2>5, <2>6, <2>7, <2>8, <2>9 DEF Request
  <1> QED BY <1>1, <1>2, <1>3 DEF Next

(* Type correctness, whatever requests are in flight together. *)
THEOREM RunsTyped == Spec => []TypeOK
  <1>1. Spec => []Typing
    BY InitTyping, NextTyping, PTL DEF Spec
  <1> QED BY <1>1, TypingGivesTypeOK, PTL

---------------------------------------------------------------------------
(* Locks. *)

LEMMA LockedStays ==
    ASSUME Typing, [Next]_vars, NEW m \in Months, status[m] = "locked"
    PROVE  status'[m] = "locked"
  <1>1. CASE World
    BY <1>1 DEF World, NextDay, ProviderEvent, AssignOwner, RepDeparts,
                ApproveDecisions, runs
  <1>2. CASE UNCHANGED vars BY <1>2 DEF vars, runs
  <1>3. ASSUME NEW q \in Requests, Request(q) PROVE status'[m] = "locked"
    <2>1. CASE Persist(q)
      BY <2>1 DEF Persist, WriteRun, Typing, TablesOK
    <2>2. CASE LockCommit(q)
      BY <2>2 DEF LockCommit, Typing, TablesOK
    <2>3. CASE ~Persist(q) /\ ~LockCommit(q)
      BY <1>3, <2>3 DEF Request, StartCalculate, Read, RefuseCalculate, Calculate,
                        PersistConflict, LockRead, Crash, runs
    <2> QED BY <2>1, <2>2, <2>3
  <1> QED BY <1>1, <1>2, <1>3 DEF Next

(* A step of one request leaves the locals of the others alone. *)
LEMMA OthersWait ==
    ASSUME Typing, NEW p \in Requests, Request(p), NEW q \in Requests, q # p
    PROVE  pc'[q] = pc[q] /\ target'[q] = target[q] /\ seen'[q] = seen[q]
  <1>1. /\ pc \in [Requests -> {"idle", "reading", "persist", "lock"}]
        /\ target \in [Requests -> Months]
        /\ seen = [r \in Requests |-> seen[r]]
    BY DEF Typing, LocalsOK
  <1>2. /\ pc' = pc \/ \E v : pc' = [pc EXCEPT ![p] = v]
        /\ target' = target \/ \E v : target' = [target EXCEPT ![p] = v]
        /\ seen' = seen \/ \E v : seen' = [seen EXCEPT ![p] = v]
    BY DEF Request, StartCalculate, Read, RefuseCalculate, Calculate, Persist,
           PersistConflict, LockRead, LockCommit, Crash, Finish
  <1> QED BY <1>1, <1>2

LEMMA TypedAlways == Spec => []Typing
  BY InitTyping, NextTyping, PTL DEF Spec

(* A month once locked is locked forever, whatever calculation commits late. *)
THEOREM LocksAreForever == Spec => LockIsForever
  <1>1. Typing /\ [Next]_vars =>
          [\A m \in Months : status[m] = "locked" => status'[m] = "locked"]_vars
    BY LockedStays
  <1> QED BY <1>1, TypedAlways, PTL DEF Spec, LockIsForever

(* A calculation that found no run never replaces one created meanwhile.    *)
THEOREM CreatesNeverOverwrite == Spec => CreateNeverOverwrites
  <1> DEFINE Safe == \A q \in Requests :
          (/\ pc[q] = "persist" /\ pc'[q] = "idle"
           /\ seen[q].status = "none" /\ status[target[q]] # "none")
          => UNCHANGED <<lines, snapshots, status>>
  <1>1. ASSUME Typing, [Next]_vars PROVE [Safe]_vars
    <2> SUFFICES ASSUME NEW q \in Requests, ~UNCHANGED vars,
                        pc[q] = "persist", pc'[q] = "idle",
                        seen[q].status = "none", status[target[q]] # "none"
                 PROVE  UNCHANGED <<lines, snapshots, status>>
      OBVIOUS
    <2>1. CASE World
      BY <2>1 DEF World, NextDay, ProviderEvent, AssignOwner, RepDeparts,
                  ApproveDecisions, runs
    <2>2. ASSUME NEW p \in Requests, Request(p)
          PROVE  UNCHANGED <<lines, snapshots, status>>
      <3>2. p = q BY <1>1, <2>2, OthersWait
      <3>3. PersistConflict(q) \/ Crash(q)
        BY <2>2, <3>2 DEF Request, StartCalculate, Read, RefuseCalculate, AllRead,
                          Calculate, Persist, LockRead, LockCommit
      <3> QED BY <3>3 DEF PersistConflict, Crash, runs
    <2>3. Next BY <1>1
    <2> QED BY <2>1, <2>2, <2>3 DEF Next
  <1>2. Typing /\ [Next]_vars => [Safe]_vars BY <1>1
  <1> QED BY <1>2, TypedAlways, PTL DEF Spec, CreateNeverOverwrites

---------------------------------------------------------------------------
(* What calculations carry forward. *)

(* Only a calculation that is under way remembers anything it read. *)
IdleRemembersNothing ==
    \A q \in Requests : pc[q] = "idle" => seen[q].lines = {} /\ seen[q].snapshots = {}

SeenLocked ==
    \A q \in Requests : \A p \in seen[q].lines \cup seen[q].snapshots :
        p[1] \in Months /\ p[1] < target[q] /\ status[p[1]] = "locked"

Carried == Typing /\ IdleRemembersNothing /\ SeenLocked

LEMMA HistoryIsLocked ==
    ASSUME NEW m \in Months, NEW p \in PriorLines(m) \cup PriorSnapshots(m)
    PROVE  p[1] \in Months /\ p[1] < m /\ status[p[1]] = "locked"
  <1>1. PICK k \in LockedBefore(m) : p \in {k} \X lines[k] \/ p \in {k} \X snapshots[k]
    BY DEF PriorLines, PriorSnapshots
  <1> QED BY <1>1 DEF LockedBefore

(* The request that steps: it forgets, keeps, or adds locked history. *)
LEMMA CarriedBySelf ==
    ASSUME Carried, NEW q \in Requests, Request(q)
    PROVE  /\ pc'[q] = "idle" => seen'[q].lines = {} /\ seen'[q].snapshots = {}
           /\ \A p \in seen'[q].lines \cup seen'[q].snapshots :
                 p[1] \in Months /\ p[1] < target'[q] /\ status[p[1]] = "locked"
  <1> USE DEF Carried
  <1>1. /\ pc \in [Requests -> {"idle", "reading", "persist", "lock"}]
        /\ target \in [Requests -> Months]
        /\ seen = [r \in Requests |-> seen[r]]
        /\ seen[q] = [asOf |-> seen[q].asOf, policy |-> seen[q].policy, lines |-> seen[q].lines,
                      snapshots |-> seen[q].snapshots, status |-> seen[q].status]
    BY DEF Typing, LocalsOK
  <1>2. CASE Finish(q)
    BY <1>1, <1>2 DEF Finish, NothingSeen
  <1>3. CASE \E m \in Months : StartCalculate(q, m)
    BY <1>1, <1>3 DEF StartCalculate, NothingSeen
  <1>6. CASE \E m \in Months : LockRead(q, m)
    BY <1>1, <1>6 DEF LockRead, IdleRemembersNothing
  <1>4. CASE Calculate(q)
    BY <1>1, <1>4 DEF Calculate, Consumed
  <1>5. ASSUME NEW query \in Queries, Read(q, query)
        PROVE  /\ pc'[q] = "idle" => seen'[q].lines = {} /\ seen'[q].snapshots = {}
               /\ \A p \in seen'[q].lines \cup seen'[q].snapshots :
                     p[1] \in Months /\ p[1] < target'[q] /\ status[p[1]] = "locked"
    <2>1. pc'[q] = "reading" /\ target'[q] = target[q] /\ target[q] \in Months
      BY <1>1, <1>5 DEF Read
    <2>2. seen'[q] = Answer(query, target[q], seen[q])
      BY <1>1, <1>5 DEF Read
    <2>3. /\ seen'[q].lines \in {seen[q].lines, PriorLines(target[q])}
          /\ seen'[q].snapshots \in {seen[q].snapshots, PriorSnapshots(target[q])}
      <3>1. CASE query = "decisions" BY <1>1, <2>2, <3>1 DEF Answer
      <3>2. CASE query = "prior_lines" BY <1>1, <2>2, <3>2 DEF Answer
      <3>3. CASE query = "prior_snapshots" BY <1>1, <2>2, <3>3 DEF Answer
      <3>4. CASE query = "existing_run" BY <1>1, <2>2, <3>4 DEF Answer
      <3> QED BY <3>1, <3>2, <3>3, <3>4 DEF Queries
    <2> QED BY <2>1, <2>3, HistoryIsLocked DEF SeenLocked
  <1> QED BY <1>2, <1>3, <1>4, <1>5, <1>6
          DEF Request, RefuseCalculate, Persist, PersistConflict, LockCommit, Crash

LEMMA CarriedStep == ASSUME Carried, [Next]_vars PROVE Carried'
  <1> USE DEF Carried
  <1>1. Typing' BY NextTyping
  <1>2. \A m \in Months : status[m] = "locked" => status'[m] = "locked"
    BY LockedStays
  <1>3. CASE World \/ UNCHANGED vars
    <2>1. UNCHANGED requests
      BY <1>3 DEF World, NextDay, ProviderEvent, AssignOwner, RepDeparts,
                  ApproveDecisions, vars
    <2> QED BY <1>1, <1>2, <2>1 DEF IdleRemembersNothing, SeenLocked, requests
  <1>4. ASSUME NEW q \in Requests, Request(q)
        PROVE  IdleRemembersNothing' /\ SeenLocked'
    <2>1. \A r \in Requests :
            /\ pc'[r] = "idle" => seen'[r].lines = {} /\ seen'[r].snapshots = {}
            /\ \A p \in seen'[r].lines \cup seen'[r].snapshots :
                  p[1] \in Months /\ p[1] < target'[r] /\ status[p[1]] = "locked"
      BY <1>4, CarriedBySelf, OthersWait DEF IdleRemembersNothing, SeenLocked
    <2> QED BY <1>2, <2>1 DEF IdleRemembersNothing, SeenLocked
  <1> QED BY <1>1, <1>3, <1>4 DEF Next

(* Held amounts and draw balances are only ever carried forward from months *)
(* that are locked and stay so.                                             *)
THEOREM CarriesLockedHistory == Spec => []CarriedFromLocked
  <1>1. Init => Carried
    BY InitTyping DEF Init, Carried, IdleRemembersNothing, SeenLocked, NothingSeen
  <1>2. Carried => CarriedFromLocked
    BY DEF Carried, SeenLocked, CarriedFromLocked
  <1> QED BY <1>1, <1>2, CarriedStep, PTL DEF Spec

---------------------------------------------------------------------------
(* Lines and their totals. *)

(* A set of snapshots adds up a set of lines. *)
AddsUp(ls, ss) ==
    /\ \A s, t \in ss : s.rep = t.rep => s = t
    /\ \A l \in ls : \E s \in ss : s.rep = l.rep
    /\ \A s \in ss :
          LET mine == {l \in ls : l.rep = s.rep}
          IN  /\ s.totals.earned = EarnedOf(mine)
              /\ s.totals.held = SumAmounts({l \in mine : l.status = "held"})

(* The tables and every computed result add up. *)
Totals ==
    /\ \A m \in Months : AddsUp(lines[m], snapshots[m])
    /\ \A q \in Requests : AddsUp(result[q].lines, result[q].snapshots)

LEMMA NothingAddsUp == AddsUp({}, {})
  BY DEF AddsUp

(* The snapshots of a calculation add up its lines when each has a rep. *)
LEMMA CalculationAddsUp ==
    ASSUME NEW ls, NEW pol, NEW prior, \A l \in ls : l.rep \in Reps
    PROVE  AddsUp(ls, RepSnapshots(ls, pol, prior))
  <1> DEFINE mine(r) == {l \in ls : l.rep = r}
             snap(r) == RepSnapshot(r, mine(r), OpeningBalance(prior, r), pol.recoverable)
             ss == {snap(r) : r \in SnapshotReps(ls)}
  <1>1. RepSnapshots(ls, pol, prior) = ss
    BY DEF RepSnapshots
  <1>2. \A r : /\ snap(r).rep = r
               /\ snap(r).totals.earned = EarnedOf(mine(r))
               /\ snap(r).totals.held = SumAmounts({l \in mine(r) : l.status = "held"})
    BY DEF RepSnapshot, SummarizeRepCommission
  <1>3. \A l \in ls : l.rep \in SnapshotReps(ls)
    BY DEF SnapshotReps
  <1> HIDE DEF snap
  <1>4. \A s, t \in ss : s.rep = t.rep => s = t
    BY <1>2
  <1>5. \A l \in ls : \E s \in ss : s.rep = l.rep
    BY <1>2, <1>3
  <1>6. ASSUME NEW s \in ss
        PROVE  /\ s.totals.earned = EarnedOf(mine(s.rep))
               /\ s.totals.held = SumAmounts({l \in mine(s.rep) : l.status = "held"})
    BY <1>2
  <1> QED BY <1>1, <1>4, <1>5, <1>6 DEF AddsUp

LEMMA InitTotals == ASSUME Init PROVE Totals
  BY NothingAddsUp DEF Init, Totals, NoResult

(* A request that ends keeps no result. *)
LEMMA FinishTotals ==
    ASSUME Typing, Totals, NEW q \in Requests, Finish(q)
    PROVE  \A p \in Requests : AddsUp(result'[p].lines, result'[p].snapshots)
  <1>1. result = [p \in Requests |-> result[p]] BY DEF Typing, LocalsOK
  <1>2. \A p \in Requests : result'[p] = IF p = q THEN NoResult ELSE result[p]
    BY <1>1 DEF Finish
  <1>3. AddsUp(NoResult.lines, NoResult.snapshots)
    BY NothingAddsUp DEF NoResult
  <1>4. ASSUME NEW p \in Requests PROVE AddsUp(result'[p].lines, result'[p].snapshots)
    <2>1. CASE p = q BY <1>2, <1>3, <2>1, Zenon
    <2>2. CASE p # q BY <1>2, <2>2, Zenon DEF Totals
    <2> QED BY <2>1, <2>2
  <1> QED BY <1>4

LEMMA NextTotals == ASSUME Typing, Totals, [Next]_vars PROVE Totals'
  <1>1. CASE UNCHANGED <<lines, snapshots, result>>
    BY <1>1 DEF Totals
  <1>2. CASE World
    BY <1>1, <1>2 DEF World, NextDay, ProviderEvent, AssignOwner, RepDeparts,
                      ApproveDecisions, runs, requests
  <1>3. CASE UNCHANGED vars
    BY <1>1, <1>3 DEF vars, runs, requests
  <1>4. ASSUME NEW q \in Requests, Request(q) PROVE Totals'
    <2>1. CASE Finish(q) /\ UNCHANGED <<lines, snapshots>>
      BY <2>1, FinishTotals DEF Totals
    <2>2. CASE Calculate(q)
      <3> DEFINE ls == CalculatedLines(target[q], seen[q].policy, seen[q].lines)
                 ss == RepSnapshots(ls, seen[q].policy, seen[q].snapshots)
      <3>1. \A l \in ls : l.rep \in Reps
        BY <2>2, CalculatedLinesOK DEF Calculate, Blocked, Typing, LineOK
      <3>2. AddsUp(ls, ss) BY <3>1, CalculationAddsUp
      <3>3. result' = [result EXCEPT ![q] = [lines |-> ls, snapshots |-> ss]]
            /\ UNCHANGED <<lines, snapshots>>
        BY <2>2 DEF Calculate, runs
      <3> HIDE DEF ls, ss
      <3>4. \A p \in Requests :
              result'[p] = IF p = q THEN [lines |-> ls, snapshots |-> ss] ELSE result[p]
        BY <3>3 DEF Typing, LocalsOK
      <3> QED BY <3>2, <3>3, <3>4 DEF Totals
    <2>3. CASE Persist(q)
      <3>1. target[q] \in Months /\ lines = [m \in Months |-> lines[m]]
            /\ snapshots = [m \in Months |-> snapshots[m]]
        BY DEF Typing, TablesOK, LocalsOK
      <3>2. \A m \in Months :
              /\ lines'[m] = IF m = target[q] THEN result[q].lines ELSE lines[m]
              /\ snapshots'[m] = IF m = target[q] THEN result[q].snapshots ELSE snapshots[m]
        BY <2>3, <3>1 DEF Persist, WriteRun
      <3>3. Finish(q) BY <2>3 DEF Persist
      <3> QED BY <3>2, <3>3, FinishTotals DEF Totals
    <2>4. CASE ~Finish(q) /\ ~Calculate(q)
      BY <1>1, <1>4, <2>4 DEF Request, StartCalculate, Read, RefuseCalculate, Persist,
                              PersistConflict, LockRead, LockCommit, Crash, runs
    <2>5. UNCHANGED <<lines, snapshots>> \/ Persist(q)
      BY <1>4 DEF Request, StartCalculate, Read, RefuseCalculate, Calculate,
                  PersistConflict, LockRead, LockCommit, Crash, runs
    <2> QED BY <2>1, <2>2, <2>3, <2>4, <2>5
  <1> QED BY <1>2, <1>3, <1>4 DEF Next

(* A stored run is the work of one calculation: each rep with a line has one *)
(* snapshot, whose totals are those of the rep's lines.                      *)
THEOREM StoredTotalsMatch == Spec => []SnapshotsMatchLines
  <1>1. Totals => SnapshotsMatchLines
    BY DEF Totals, AddsUp, SnapshotsMatchLines
  <1>2. Spec => []Totals
    BY InitTotals, NextTotals, TypedAlways, PTL DEF Spec
  <1> QED BY <1>1, <1>2, PTL

-----------------------------------------------------------------------------
(* A finite nonempty set of months has a latest one.                         *)

Before == {p \in Nat \X Nat : p[1] < p[2]}

LEMMA BeforeIsWellFounded == IsWellFoundedOn(Before, Nat)
  BY NatLessThanWellFounded DEF OpToRel, Before

LEMMA LatestMonth ==
    ASSUME NEW n \in Nat, NEW S \in SUBSET (1..n), S # {}
    PROVE  Max(S) \in S /\ \A k \in S : k <= Max(S)
  <1> DEFINE T == {n - k : k \in S}
  <1>1. T \subseteq Nat /\ T # {}
    <2>1. \A k \in S : n - k \in Nat
      OBVIOUS
    <2> QED BY <2>1
  <1> HIDE DEF T
  <1>2. PICK t \in T : \A u \in T : ~(<<u, t>> \in Before)
    BY <1>1, BeforeIsWellFounded, WFMin
  <1>3. \A u \in T : ~(u < t)
    BY <1>1, <1>2 DEF Before
  <1> USE DEF T
  <1>4. PICK x \in S : t = n - x
    OBVIOUS
  <1>5. ASSUME NEW k \in S PROVE x >= k
    <2>1. n - k \in T
      OBVIOUS
    <2>2. ~(n - k < n - x)
      BY <1>3, <1>4, <2>1
    <2> QED BY <2>2
  <1> HIDE DEF T
  <1>6. /\ Max(S) \in S
        /\ \A k \in S : Max(S) >= k
    BY <1>5 DEF Max
  <1> QED BY <1>6

-----------------------------------------------------------------------------
(* The inductive invariant.                                                  *)

(* Snapshots of a month that open with the balances its history closes with. *)
OpensWith(ss, m) ==
    \A s \in ss : s.totals.opening = OpeningBalance(PriorSnapshots(m), s.rep)

InOrder == \A m \in Months : status[m] # "none" => EarlierLocked(m)

OneAtATime ==
    \A p, q \in Requests : pc[p] # "idle" /\ pc[q] # "idle" => p = q

(* What the request in flight has read is still so.                          *)
Current(q) ==
    /\ pc[q] \in {"reading", "persist"} => EarlierLocked(target[q])
    /\ pc[q] = "lock" => status[target[q]] = "open"
    /\ pc[q] = "reading" =>
          /\ "existing_run" \notin unread[q] => seen[q].status = status[target[q]]
          /\ "prior_snapshots" \notin unread[q] =>
                seen[q].snapshots = PriorSnapshots(target[q])
          /\ "prior_lines" \notin unread[q] => seen[q].lines = PriorLines(target[q])
    /\ pc[q] = "persist" =>
          /\ status[target[q]] # "locked"
          /\ OpensWith(result[q].snapshots, target[q])

Chained ==
    \A m \in Months :
        /\ OpensWith(snapshots[m], m)
        /\ status[m] = "none" => snapshots[m] = {}

CloseInv ==
    /\ Typing
    /\ InOrder
    /\ OneAtATime
    /\ \A q \in Requests : Current(q)
    /\ Chained

LEMMA InitCloseInv == ASSUME Init PROVE CloseInv
  <1>1. Typing BY InitTyping
  <1> QED BY <1>1 DEF Init, CloseInv, InOrder, OneAtATime, Current, Chained, OpensWith

(* A closing step is a step of the runs.                                     *)
LEMMA CloseIsNext == ASSUME [CloseNext]_vars PROVE [Next]_vars
  BY DEF CloseNext, CloseRequest, CloseCalculate, CloseLock, Next, Request

LEMMA CloseRequestIsRequest ==
    ASSUME NEW q \in Requests, CloseRequest(q)
    PROVE  Request(q)
  BY DEF CloseRequest, CloseCalculate, CloseLock, Request

-----------------------------------------------------------------------------
(* Locked months.                                                            *)

LEMMA LockedIsFrozen ==
    ASSUME CloseInv, [CloseNext]_vars, NEW m \in Months, status[m] = "locked"
    PROVE  /\ status'[m] = "locked"
           /\ lines'[m] = lines[m]
           /\ snapshots'[m] = snapshots[m]
           /\ configuration'[m] = configuration[m]
  <1>1. status'[m] = "locked"
    BY CloseIsNext, LockedStays DEF CloseInv
  <1>2. CASE UNCHANGED <<lines, snapshots, configuration>>
    BY <1>1, <1>2
  <1>3. ASSUME NEW q \in Requests, Persist(q)
        PROVE  /\ lines'[m] = lines[m]
               /\ snapshots'[m] = snapshots[m]
               /\ configuration'[m] = configuration[m]
    <2>1. target[q] # m
      BY <1>3 DEF Persist, CloseInv, Current
    <2>2. /\ lines = [k \in Months |-> lines[k]]
          /\ snapshots = [k \in Months |-> snapshots[k]]
          /\ configuration = [k \in Months |-> configuration[k]]
      BY DEF CloseInv, Typing, TablesOK
    <2> QED BY <1>3, <2>1, <2>2 DEF Persist, WriteRun
  <1>4. UNCHANGED <<lines, snapshots, configuration>> \/ \E q \in Requests : Persist(q)
    BY DEF CloseNext, CloseRequest, World, NextDay, ProviderEvent, AssignOwner, RepDeparts,
           ApproveDecisions, CloseCalculate, StartCalculate, Read, RefuseCalculate,
           Calculate, PersistConflict, CloseLock, LockRead, LockCommit, Crash, vars, runs
  <1> QED BY <1>1, <1>2, <1>3, <1>4

(* The history of a month whose earlier months are all locked is settled.    *)
LEMMA HistoryIsSettled ==
    ASSUME CloseInv, [CloseNext]_vars, NEW m \in Months, EarlierLocked(m)
    PROVE  /\ EarlierLocked(m)'
           /\ PriorSnapshots(m)' = PriorSnapshots(m)
           /\ PriorLines(m)' = PriorLines(m)
  <1>1. \A k \in Months : k < m =>
          /\ status[k] = "locked" /\ status'[k] = "locked"
          /\ snapshots'[k] = snapshots[k] /\ lines'[k] = lines[k]
    BY LockedIsFrozen DEF EarlierLocked
  <1>2. EarlierLocked(m)'
    BY <1>1 DEF EarlierLocked
  <1>3. LockedBefore(m)' = LockedBefore(m)
    BY <1>1 DEF LockedBefore
  <1>4. \A k \in LockedBefore(m) : snapshots'[k] = snapshots[k] /\ lines'[k] = lines[k]
    BY <1>1 DEF LockedBefore
  <1>5. PriorSnapshots(m)' = PriorSnapshots(m)
    BY <1>3, <1>4 DEF PriorSnapshots
  <1>6. PriorLines(m)' = PriorLines(m)
    BY <1>3, <1>4 DEF PriorLines
  <1> QED BY <1>2, <1>5, <1>6

-----------------------------------------------------------------------------
(* Every closing step keeps the invariant.                                   *)

LEMMA KeepsInOrder == ASSUME CloseInv, [CloseNext]_vars PROVE InOrder'
  <1> SUFFICES ASSUME NEW m \in Months, status'[m] # "none"
               PROVE  EarlierLocked(m)'
    BY DEF InOrder
  <1>1. CASE status[m] # "none"
    BY <1>1, HistoryIsSettled DEF CloseInv, InOrder
  <1>2. CASE status[m] = "none"
    <2>1. status'[m] # status[m]
      BY <1>2
    <2>2. PICK q \in Requests : Persist(q) \/ LockCommit(q)
      BY <2>1
         DEF CloseNext, CloseRequest, World, NextDay, ProviderEvent, AssignOwner, RepDeparts,
             ApproveDecisions, CloseCalculate, StartCalculate, Read, RefuseCalculate,
             Calculate, PersistConflict, CloseLock, LockRead, Crash, vars, runs
    <2>3. target[q] = m
      BY <2>1, <2>2 DEF Persist, WriteRun, LockCommit, CloseInv, Typing, TablesOK, LocalsOK
    <2>4. CASE Persist(q)
      BY <2>3, <2>4, HistoryIsSettled DEF Persist, CloseInv, Current
    <2>5. CASE LockCommit(q)
      BY <1>2, <2>3, <2>5 DEF LockCommit, CloseInv, Current
    <2> QED BY <2>2, <2>4, <2>5
  <1> QED BY <1>1, <1>2

(* The request in flight is alone: the others are idle and stay so.          *)
LEMMA OthersAreIdle ==
    ASSUME CloseInv, NEW q \in Requests, CloseRequest(q), NEW p \in Requests, p # q
    PROVE  pc[p] = "idle" /\ pc'[p] = "idle"
  <1>1. pc[p] = "idle"
    <2>1. CASE pc[q] # "idle"
      BY <2>1 DEF CloseInv, OneAtATime
    <2>2. CASE pc[q] = "idle"
      BY <2>2 DEF CloseRequest, Quiet, CloseCalculate, Read, RefuseCalculate, AllRead,
                  Calculate, Persist, PersistConflict, CloseLock, LockCommit, Crash
    <2> QED BY <2>1, <2>2
  <1>2. pc'[p] = pc[p]
    BY CloseRequestIsRequest, OthersWait DEF CloseInv
  <1> QED BY <1>1, <1>2

LEMMA KeepsOneAtATime == ASSUME CloseInv, [CloseNext]_vars PROVE OneAtATime'
  <1>1. CASE World \/ UNCHANGED vars
    <2>1. pc' = pc
      BY <1>1 DEF World, NextDay, ProviderEvent, AssignOwner, RepDeparts,
                  ApproveDecisions, vars, requests
    <2> QED BY <2>1 DEF CloseInv, OneAtATime
  <1>2. ASSUME NEW q \in Requests, CloseRequest(q) PROVE OneAtATime'
    BY <1>2, OthersAreIdle DEF OneAtATime
  <1> QED BY <1>1, <1>2 DEF CloseNext

(* The snapshots of a calculation open with the history it was given.        *)
LEMMA CalculationOpens ==
    ASSUME NEW ls, NEW pol, NEW prior, NEW s \in RepSnapshots(ls, pol, prior)
    PROVE  s.totals.opening = OpeningBalance(prior, s.rep)
  <1>1. PICK r \in SnapshotReps(ls) :
           s = RepSnapshot(r, {l \in ls : l.rep = r},
                           OpeningBalance(prior, r), pol.recoverable)
    BY DEF RepSnapshots
  <1>2. s.rep = r /\ s.totals.opening = OpeningBalance(prior, r)
    BY <1>1 DEF RepSnapshot, SummarizeRepCommission
  <1> QED BY <1>2

LEMMA CurrentAfterOwnStep ==
    ASSUME CloseInv, NEW q \in Requests, CloseRequest(q)
    PROVE  Current(q)'
  <1>1. /\ pc \in [Requests -> {"idle", "reading", "persist", "lock"}]
        /\ target \in [Requests -> Months]
        /\ unread \in [Requests -> SUBSET Queries]
        /\ seen = [r \in Requests |-> seen[r]]
        /\ seen[q] = [asOf |-> seen[q].asOf, policy |-> seen[q].policy, lines |-> seen[q].lines,
                      snapshots |-> seen[q].snapshots, status |-> seen[q].status]
        /\ result = [r \in Requests |-> result[r]]
        /\ target[q] \in Months
    BY DEF CloseInv, Typing, LocalsOK
  <1>c. [CloseNext]_vars
    BY DEF CloseNext
  <1>2. CASE Finish(q)
    <2>1. pc'[q] = "idle"
      BY <1>1, <1>2 DEF Finish
    <2> QED BY <2>1 DEF Current
  <1>3. ASSUME NEW m \in Months, CloseCalculate(q, m) PROVE Current(q)'
    <2>1. pc'[q] = "reading" /\ target'[q] = m /\ unread'[q] = Queries
      BY <1>1, <1>3 DEF CloseCalculate, StartCalculate
    <2>2. EarlierLocked(m)'
      BY <1>3, <1>c, HistoryIsSettled DEF CloseCalculate
    <2> QED BY <2>1, <2>2 DEF Current, Queries, EarlierLocked
  <1>4. ASSUME NEW query \in Queries, Read(q, query) PROVE Current(q)'
    <2>1. /\ pc[q] = "reading" /\ pc'[q] = "reading"
          /\ target'[q] = target[q]
          /\ unread'[q] = unread[q] \ {query}
          /\ seen'[q] = Answer(query, target[q], seen[q])
          /\ UNCHANGED <<status, snapshots, lines>>
      BY <1>1, <1>4 DEF Read, runs
    <2>2. EarlierLocked(target[q])
      BY <2>1 DEF CloseInv, Current
    <2>3. /\ EarlierLocked(target[q])'
          /\ PriorSnapshots(target[q])' = PriorSnapshots(target[q])
          /\ PriorLines(target[q])' = PriorLines(target[q])
      BY <2>1, <2>2 DEF EarlierLocked, PriorSnapshots, PriorLines, LockedBefore
    <2>4. "existing_run" \notin unread'[q] => seen'[q].status = status[target[q]]
      <3>1. CASE query = "existing_run"
        BY <1>1, <2>1, <3>1 DEF Answer
      <3>2. CASE query # "existing_run"
        BY <1>1, <2>1, <3>2 DEF Answer, Queries, CloseInv, Current
      <3> QED BY <3>1, <3>2
    <2>5. "prior_snapshots" \notin unread'[q] => seen'[q].snapshots = PriorSnapshots(target[q])
      <3>1. CASE query = "prior_snapshots"
        BY <1>1, <2>1, <3>1 DEF Answer
      <3>2. CASE query # "prior_snapshots"
        BY <1>1, <2>1, <3>2 DEF Answer, Queries, CloseInv, Current
      <3> QED BY <3>1, <3>2
    <2>6. "prior_lines" \notin unread'[q] => seen'[q].lines = PriorLines(target[q])
      <3>1. CASE query = "prior_lines"
        BY <1>1, <2>1, <3>1 DEF Answer
      <3>2. CASE query # "prior_lines"
        BY <1>1, <2>1, <3>2 DEF Answer, Queries, CloseInv, Current
      <3> QED BY <3>1, <3>2
    <2>7. /\ "existing_run" \notin unread'[q] => seen'[q].status = status'[target'[q]]
          /\ "prior_snapshots" \notin unread'[q] =>
                seen'[q].snapshots = PriorSnapshots(target[q])'
          /\ "prior_lines" \notin unread'[q] => seen'[q].lines = PriorLines(target[q])'
      BY <2>1, <2>3, <2>4, <2>5, <2>6
    <2> QED BY <2>1, <2>3, <2>7
            DEF Current, EarlierLocked, PriorSnapshots, PriorLines, LockedBefore
  <1>5. CASE Calculate(q)
    <2> DEFINE ls == CalculatedLines(target[q], seen[q].policy, seen[q].lines)
               ss == RepSnapshots(ls, seen[q].policy, seen[q].snapshots)
    <2>1. /\ pc[q] = "reading" /\ unread[q] = {}
          /\ pc'[q] = "persist" /\ target'[q] = target[q]
          /\ result'[q] = [lines |-> ls, snapshots |-> ss]
          /\ UNCHANGED <<status, snapshots>>
          /\ seen[q].status # "locked"
      BY <1>1, <1>5 DEF Calculate, AllRead, Blocked, runs
    <2>2. /\ EarlierLocked(target[q])
          /\ seen[q].status = status[target[q]]
          /\ seen[q].snapshots = PriorSnapshots(target[q])
      BY <2>1 DEF CloseInv, Current
    <2>3. OpensWith(ss, target[q])
      BY <2>2, CalculationOpens DEF OpensWith
    <2> HIDE DEF ss, ls
    <2>4. (status[target[q]] # "locked" /\ EarlierLocked(target[q]))'
      BY <2>1, <2>2 DEF EarlierLocked
    <2>5. OpensWith(result[q].snapshots, target[q])'
      <3>1. PriorSnapshots(target[q])' = PriorSnapshots(target[q])
        BY <2>1 DEF PriorSnapshots, LockedBefore
      <3> QED BY <2>1, <2>3, <3>1 DEF OpensWith
    <2> QED BY <2>1, <2>4, <2>5 DEF Current
  <1>6. ASSUME NEW m \in Months, CloseLock(q, m) PROVE Current(q)'
    <2>1. pc'[q] = "lock" /\ target'[q] = m /\ status'[m] = "open"
      BY <1>1, <1>6 DEF CloseLock, LockRead, runs
    <2> QED BY <2>1 DEF Current
  <1> QED BY <1>2, <1>3, <1>4, <1>5, <1>6
          DEF CloseRequest, RefuseCalculate, Persist, PersistConflict, LockCommit, Crash

LEMMA KeepsCurrent ==
    ASSUME CloseInv, [CloseNext]_vars, NEW q \in Requests
    PROVE  Current(q)'
  <1>1. CASE World \/ UNCHANGED vars
    <2>1. UNCHANGED <<pc, target, unread, seen, result, status, snapshots, lines>>
      BY <1>1 DEF World, NextDay, ProviderEvent, AssignOwner, RepDeparts,
                  ApproveDecisions, vars, requests, runs
    <2> QED BY <2>1 DEF CloseInv, Current, EarlierLocked, OpensWith, PriorSnapshots, PriorLines,
                        LockedBefore
  <1>2. ASSUME NEW p \in Requests, CloseRequest(p) PROVE Current(q)'
    <2>1. CASE p = q
      BY <1>2, <2>1, CurrentAfterOwnStep
    <2>2. CASE p # q
      <3>1. pc'[q] = "idle"
        BY <1>2, <2>2, OthersAreIdle
      <3> QED BY <3>1 DEF Current
    <2> QED BY <2>1, <2>2
  <1> QED BY <1>1, <1>2 DEF CloseNext

LEMMA KeepsChained == ASSUME CloseInv, [CloseNext]_vars PROVE Chained'
  <1> SUFFICES ASSUME NEW m \in Months
               PROVE  /\ OpensWith(snapshots[m], m)'
                      /\ status'[m] = "none" => snapshots'[m] = {}
    BY DEF Chained
  <1>1. ASSUME NEW ss, EarlierLocked(m), OpensWith(ss, m), snapshots'[m] = ss
        PROVE  OpensWith(snapshots[m], m)'
    <2>1. PriorSnapshots(m)' = PriorSnapshots(m)
      BY <1>1, HistoryIsSettled
    <2> QED BY <1>1, <2>1 DEF OpensWith
  <1>2. CASE status'[m] = status[m] /\ snapshots'[m] = snapshots[m]
    <2>1. OpensWith(snapshots[m], m) /\ (status'[m] = "none" => snapshots'[m] = {})
      BY <1>2 DEF CloseInv, Chained
    <2>2. CASE status[m] = "none"
      BY <1>2, <2>1, <2>2 DEF OpensWith
    <2>3. CASE status[m] # "none"
      BY <1>1, <1>2, <2>1, <2>3 DEF CloseInv, InOrder
    <2> QED BY <2>1, <2>2, <2>3
  <1>3. ASSUME NEW q \in Requests, Persist(q) \/ LockCommit(q), target[q] = m
        PROVE  /\ OpensWith(snapshots[m], m)'
               /\ status'[m] = "none" => snapshots'[m] = {}
    <2>1. /\ status \in [Months -> {"none", "open", "locked"}]
          /\ snapshots = [k \in Months |-> snapshots[k]]
      BY DEF CloseInv, Typing, TablesOK
    <2>2. CASE Persist(q)
      <3>1. snapshots'[m] = result[q].snapshots /\ status'[m] # "none"
        BY <1>3, <2>1, <2>2 DEF Persist, WriteRun
      <3>2. OpensWith(result[q].snapshots, m) /\ EarlierLocked(m)
        BY <1>3, <2>2 DEF Persist, CloseInv, Current
      <3> QED BY <1>1, <3>1, <3>2
    <2>3. CASE LockCommit(q)
      <3>1. snapshots'[m] = snapshots[m] /\ status'[m] = "locked" /\ status[m] # "none"
        BY <1>3, <2>1, <2>3 DEF LockCommit, CloseInv, Current
      <3>2. OpensWith(snapshots[m], m) /\ EarlierLocked(m)
        BY <3>1 DEF CloseInv, Chained, InOrder
      <3> QED BY <1>1, <3>1, <3>2
    <2> QED BY <1>3, <2>2, <2>3
  <1>4. \/ status'[m] = status[m] /\ snapshots'[m] = snapshots[m]
        \/ \E q \in Requests : (Persist(q) \/ LockCommit(q)) /\ target[q] = m
    <2>1. CASE UNCHANGED <<status, snapshots>>
      BY <2>1
    <2>2. ASSUME NEW q \in Requests, Persist(q) \/ LockCommit(q), target[q] # m
          PROVE  status'[m] = status[m] /\ snapshots'[m] = snapshots[m]
      <3>1. /\ status \in [Months -> {"none", "open", "locked"}]
            /\ snapshots = [k \in Months |-> snapshots[k]]
        BY DEF CloseInv, Typing, TablesOK
      <3> QED BY <2>2, <3>1 DEF Persist, WriteRun, LockCommit
    <2>3. \/ UNCHANGED <<status, snapshots>>
          \/ \E q \in Requests : Persist(q) \/ LockCommit(q)
      BY DEF CloseNext, CloseRequest, World, NextDay, ProviderEvent, AssignOwner, RepDeparts,
             ApproveDecisions, CloseCalculate, StartCalculate, Read, RefuseCalculate,
             Calculate, PersistConflict, CloseLock, LockRead, Crash, vars, runs
    <2> QED BY <2>1, <2>2, <2>3
  <1> QED BY <1>2, <1>3, <1>4

LEMMA CloseStep == ASSUME CloseInv, [CloseNext]_vars PROVE CloseInv'
  <1>1. Typing' BY CloseIsNext, NextTyping DEF CloseInv
  <1> QED BY <1>1, KeepsInOrder, KeepsOneAtATime, KeepsCurrent, KeepsChained DEF CloseInv

LEMMA CloseInvAlways == CloseSpec => []CloseInv
  BY InitCloseInv, CloseStep, PTL DEF CloseSpec

-----------------------------------------------------------------------------
(* Closed in order, a locked month keeps its lines, its snapshots and its    *)
(* configuration: "A locked commission run cannot be recalculated".          *)
THEOREM ClosedRunsAreImmutable == CloseSpec => LockedRunIsImmutable
  <1> DEFINE Frozen == \A m \in Months : status[m] = "locked" =>
               /\ lines'[m] = lines[m]
               /\ snapshots'[m] = snapshots[m]
               /\ configuration'[m] = configuration[m]
  <1>1. CloseInv /\ [CloseNext]_vars => [Frozen]_vars
    BY LockedIsFrozen
  <1> QED BY <1>1, CloseInvAlways, PTL DEF CloseSpec, LockedRunIsImmutable

-----------------------------------------------------------------------------
(* The chain of draw balances.                                               *)

LEMMA PriorPairs ==
    ASSUME NEW m, NEW p
    PROVE  p \in PriorSnapshots(m) <=>
             \E k \in LockedBefore(m) : \E t \in snapshots[k] : p = <<k, t>>
  BY DEF PriorSnapshots

(* A month that opens with its history's balance continues the newest       *)
(* earlier month of the rep.                                                 *)
LEMMA OpeningsChain ==
    ASSUME NEW m \in Months, EarlierLocked(m), NEW r,
           NEW earlier, earlier = {k \in 1..(m - 1) : \E t \in snapshots[k] : t.rep = r}
    PROVE  IF earlier = {} THEN OpeningBalance(PriorSnapshots(m), r) = 0
           ELSE \E t \in snapshots[Max(earlier)] :
                   t.rep = r /\ t.totals.closing = OpeningBalance(PriorSnapshots(m), r)
  <1>0. LastMonth \in Nat /\ m \in 1..LastMonth /\ m - 1 \in Nat
    BY RunsAssumption DEF Months
  <1>1. LockedBefore(m) = 1..(m - 1)
    BY <1>0 DEF LockedBefore, EarlierLocked, Months
  <1> DEFINE newest == NewestSnapshot(PriorSnapshots(m), r)
  <1>2. \A p \in newest :
           /\ p[1] \in earlier /\ p[2] \in snapshots[p[1]] /\ p[2].rep = r
           /\ \A k \in earlier : k <= p[1]
    <2> SUFFICES ASSUME NEW p \in newest
                 PROVE  /\ p[1] \in earlier /\ p[2] \in snapshots[p[1]] /\ p[2].rep = r
                        /\ \A k \in earlier : k <= p[1]
      OBVIOUS
    <2>1. p \in PriorSnapshots(m) /\ p[2].rep = r
      BY DEF NewestSnapshot
    <2>2. PICK k \in LockedBefore(m) : \E t \in snapshots[k] : p = <<k, t>>
      BY <2>1, PriorPairs
    <2>3. p[1] \in earlier /\ p[2] \in snapshots[p[1]]
      BY <1>1, <2>1, <2>2
    <2>4. ASSUME NEW j \in earlier PROVE j <= p[1]
      <3>1. PICK t \in snapshots[j] : t.rep = r
        OBVIOUS
      <3>2. <<j, t>> \in PriorSnapshots(m)
        BY <1>1, PriorPairs
      <3> QED BY <3>1, <3>2 DEF NewestSnapshot
    <2> QED BY <2>1, <2>3, <2>4
  <1>3. CASE earlier = {}
    <2>1. newest = {}
      BY <1>2, <1>3
    <2> QED BY <1>3, <2>1 DEF OpeningBalance
  <1>4. CASE earlier # {}
    <2>1. Max(earlier) \in earlier /\ \A k \in earlier : k <= Max(earlier)
      BY <1>0, <1>4, LatestMonth
    <2>2. PICK t \in snapshots[Max(earlier)] : t.rep = r
      BY <2>1
    <2>3. <<Max(earlier), t>> \in newest
      <3>1. <<Max(earlier), t>> \in PriorSnapshots(m)
        BY <1>1, <2>1, PriorPairs
      <3>2. ASSUME NEW q \in PriorSnapshots(m), q[2].rep = r PROVE q[1] <= Max(earlier)
        <4>1. PICK k \in LockedBefore(m) : \E u \in snapshots[k] : q = <<k, u>>
          BY PriorPairs
        <4>2. q[1] \in earlier
          BY <1>1, <3>2, <4>1
        <4> QED BY <2>1, <4>2
      <3> QED BY <2>2, <3>1, <3>2 DEF NewestSnapshot
    <2> DEFINE p == CHOOSE p \in newest : TRUE
    <2>4. p \in newest
      BY <2>3
    <2>5. OpeningBalance(PriorSnapshots(m), r) = p[2].totals.closing
      BY <2>3 DEF OpeningBalance
    <2> HIDE DEF p, newest
    <2>6. p[1] = Max(earlier)
      <3>1. p[1] \in 1..(m - 1) /\ Max(earlier) \in 1..(m - 1)
        BY <1>2, <2>1, <2>4
      <3> QED BY <1>0, <1>2, <2>1, <2>4, <3>1
    <2> QED BY <1>2, <1>4, <2>4, <2>5, <2>6
  <1> QED BY <1>3, <1>4

(* Closed in order, every rep's month opens with the balance its newest      *)
(* earlier month closes with.                                                *)
THEOREM BalancesChain == CloseSpec => []DrawChain
  <1>1. CloseInv => DrawChain
    <2> SUFFICES ASSUME CloseInv, NEW m \in Months, NEW s \in snapshots[m]
                 PROVE  LET earlier == {k \in 1..(m - 1) : \E t \in snapshots[k] : t.rep = s.rep}
                        IN  IF earlier = {} THEN s.totals.opening = 0
                            ELSE \E t \in snapshots[Max(earlier)] :
                                    t.rep = s.rep /\ t.totals.closing = s.totals.opening
      BY DEF DrawChain
    <2>1. EarlierLocked(m)
      BY DEF CloseInv, Chained, InOrder
    <2>2. s.totals.opening = OpeningBalance(PriorSnapshots(m), s.rep)
      BY DEF CloseInv, Chained, OpensWith
    <2> DEFINE earlier == {k \in 1..(m - 1) : \E t \in snapshots[k] : t.rep = s.rep}
    <2>3. IF earlier = {} THEN OpeningBalance(PriorSnapshots(m), s.rep) = 0
          ELSE \E t \in snapshots[Max(earlier)] :
                  t.rep = s.rep /\ t.totals.closing = OpeningBalance(PriorSnapshots(m), s.rep)
      BY <2>1, OpeningsChain
    <2> QED BY <2>2, <2>3
  <1> QED BY <1>1, CloseInvAlways, PTL

-----------------------------------------------------------------------------
(* Held and released amounts.                                                *)

(* What a set of lines posts for one deal and rep.                           *)
HeldFor(ls, d, r) == {l \in ls : l.deal = d /\ l.rep = r /\ l.status = "held"}
ReleasedFor(ls, d, r) == {l \in ls : l.deal = d /\ l.rep = r /\ l.kind = "release"}
EarnsFor(ls, d, r) ==
    \E l \in ls : /\ l.deal = d /\ l.rep = r
                  /\ l.kind \in {"first_sale", "recurring"} /\ l.status = "earned"

(* A month holds one amount or releases all that is owed, never both, and    *)
(* releases it when it posts something as earned.                            *)
PostsFor(ls, d, r, owed) ==
    /\ \A l, k \in HeldFor(ls, d, r) : l = k
    /\ \A l \in HeldFor(ls, d, r) : l.amount \in Nat
    /\ \A l, k \in ReleasedFor(ls, d, r) : l = k
    /\ \A l \in ReleasedFor(ls, d, r) : l.amount = owed /\ owed > 0
    /\ HeldFor(ls, d, r) = {} \/ ReleasedFor(ls, d, r) = {}
    /\ EarnsFor(ls, d, r) =>
          /\ HeldFor(ls, d, r) = {}
          /\ owed \in Int /\ owed > 0 => ReleasedFor(ls, d, r) # {}

Posts(ls, prior) ==
    \A d \in Deals, r \in Reps : PostsFor(ls, d, r, OutstandingHeld(prior, d, r))

HeldInv ==
    /\ \A m \in Months : /\ Posts(lines[m], PriorLines(m))
                         /\ status[m] = "none" => lines[m] = {}
    /\ \A q \in Requests : pc[q] = "persist" => Posts(result[q].lines, PriorLines(target[q]))

(* The lines of a calculation, whatever history it was given.                *)
LEMMA CalculationPosts ==
    ASSUME NEW m \in Months, NEW pol, NEW prior
    PROVE  Posts(CalculatedLines(m, pol, prior), prior)
  <1> DEFINE ls == CalculatedLines(m, pol, prior)
             dl(d) == CalculateDealLines(Seed(d, m, prior), pol, m)
  <1>1. \A l \in ls : \E d \in Discovered(m) : \E line \in dl(d) : l = CreditedLine(d, owner[d], line)
    BY DEF CalculatedLines
  <1> SUFFICES ASSUME NEW d \in Deals, NEW r \in Reps
               PROVE  PostsFor(ls, d, r, OutstandingHeld(prior, d, r))
    BY DEF Posts
  <1> DEFINE deal == Seed(d, m, prior)
             owed == OutstandingHeld(prior, d, r)
  <1>2. ASSUME NEW l \in ls, l.deal = d, l.rep = r
        PROVE  /\ d \in Discovered(m) /\ owner[d] = r
               /\ \E line \in dl(d) : l = CreditedLine(d, r, line)
    <2>1. PICK e \in Discovered(m) : \E line \in dl(e) : l = CreditedLine(e, owner[e], line)
      BY <1>1
    <2>2. l.deal = e /\ l.rep = owner[e]
      BY <2>1 DEF CreditedLine
    <2> QED BY <1>2, <2>1, <2>2
  <1>3. /\ deal.firstSale = FirstSale[d] /\ deal.recurring = Recurring[d]
        /\ deal.heldToRelease = Larger(OutstandingHeld(prior, d, owner[d]), 0)
    BY DEF Seed
  <1>4. FirstSale[d] \in Nat /\ Recurring[d] \in Nat
    BY RunsAssumption
  <1>5. ASSUME NEW line \in dl(d)
        PROVE  \/ /\ line.kind = "first_sale" /\ line.status = EarnedOrHeld(deal)
                  /\ line.amount = FirstSale[d] /\ MonthOf(deal.startedAt) = m
               \/ /\ line.kind = "recurring" /\ line.status = EarnedOrHeld(deal)
                  /\ line.amount = Recurring[d] /\ MonthOf(deal.startedAt) < m
               \/ line.kind \in {"clawback", "adjustment"} /\ line.status = "earned"
               \/ /\ line.kind = "release" /\ line.status = "released"
                  /\ line.amount = deal.heldToRelease /\ ReleaseDue(deal)
    <2>1. line \in CalculateDealLines(deal, pol, m)
      OBVIOUS
    <2> HIDE DEF deal, dl
    <2>2. FirstSaleDue(deal, pol, m) => MonthOf(deal.startedAt) = m
      BY DEF FirstSaleDue
    <2>3. RecurringDue(deal, pol, m) => MonthOf(deal.startedAt) < m
      BY DEF RecurringDue
    <2> QED BY <1>3, <2>1, <2>2, <2>3, StatusOfKind
  <1>6. EarnedOrHeld(deal) = IF deal.pastDue THEN "held" ELSE "earned"
    BY DEF EarnedOrHeld
  <1>7. ReleaseDue(deal) => deal.heldToRelease > 0 /\ ~deal.pastDue
    BY DEF ReleaseDue
  <1>8. deal.pastDue \in BOOLEAN
    BY DEF Seed
  <1>9. ASSUME NEW l \in HeldFor(ls, d, r)
        PROVE  /\ deal.pastDue
               /\ \/ /\ MonthOf(deal.startedAt) = m
                     /\ l = [deal |-> d, rep |-> r, kind |-> "first_sale", status |-> "held",
                             amount |-> FirstSale[d]]
                  \/ /\ MonthOf(deal.startedAt) < m
                     /\ l = [deal |-> d, rep |-> r, kind |-> "recurring", status |-> "held",
                             amount |-> Recurring[d]]
    <2>1. l.deal = d /\ l.rep = r /\ l.status = "held" /\ l \in ls
      BY DEF HeldFor
    <2>2. PICK line \in dl(d) : l = CreditedLine(d, r, line)
      BY <1>2, <2>1
    <2>3. line.status = "held"
      BY <2>1, <2>2 DEF CreditedLine
    <2> HIDE DEF deal, dl
    <2>4. deal.pastDue
      BY <1>5, <1>6, <2>3
    <2>5. \/ line.kind = "first_sale" /\ line.amount = FirstSale[d] /\ MonthOf(deal.startedAt) = m
          \/ line.kind = "recurring" /\ line.amount = Recurring[d] /\ MonthOf(deal.startedAt) < m
      BY <1>5, <2>3
    <2> QED BY <2>2, <2>3, <2>4, <2>5 DEF CreditedLine
  <1>10. ASSUME NEW l \in ReleasedFor(ls, d, r)
         PROVE  /\ ~deal.pastDue /\ owner[d] = r
                /\ deal.heldToRelease > 0
                /\ l = [deal |-> d, rep |-> r, kind |-> "release", status |-> "released",
                        amount |-> deal.heldToRelease]
    <2>1. l.deal = d /\ l.rep = r /\ l.kind = "release" /\ l \in ls
      BY DEF ReleasedFor
    <2>2. PICK line \in dl(d) : l = CreditedLine(d, r, line)
      BY <1>2, <2>1
    <2>3. line.kind = "release"
      BY <2>1, <2>2 DEF CreditedLine
    <2>4. owner[d] = r
      BY <1>2, <2>1
    <2> HIDE DEF deal, dl
    <2>5. line.status = "released" /\ line.amount = deal.heldToRelease /\ ReleaseDue(deal)
      BY <1>5, <2>3
    <2> QED BY <1>7, <2>2, <2>3, <2>4, <2>5 DEF CreditedLine
  <1>11. ASSUME EarnsFor(ls, d, r)
         PROVE  /\ ~deal.pastDue /\ d \in Discovered(m) /\ owner[d] = r
                /\ ~(deal.startedAt >= PeriodEnd(m))
    <2>1. PICK l \in ls : /\ l.deal = d /\ l.rep = r
                          /\ l.kind \in {"first_sale", "recurring"} /\ l.status = "earned"
      BY <1>11 DEF EarnsFor
    <2>2. PICK line \in dl(d) : l = CreditedLine(d, r, line)
      BY <1>2, <2>1
    <2>3. line.kind \in {"first_sale", "recurring"} /\ line.status = "earned"
      BY <2>1, <2>2 DEF CreditedLine
    <2>4. d \in Discovered(m) /\ owner[d] = r
      BY <1>2, <2>1
    <2>5. ~(deal.startedAt >= PeriodEnd(m))
      BY <2>2 DEF CalculateDealLines
    <2> HIDE DEF deal, dl
    <2>6. ~deal.pastDue
      BY <1>5, <1>6, <2>3
    <2> QED BY <2>4, <2>5, <2>6
  <1>12. ASSUME EarnsFor(ls, d, r), owed \in Int, owed > 0
         PROVE  ReleasedFor(ls, d, r) # {}
    <2>1. deal.heldToRelease = owed
      BY <1>3, <1>11, <1>12 DEF Larger
    <2> DEFINE line == BaseLine("release", "released", owed)
    <2>2. LineWhen(ReleaseDue(deal), "release", "released", deal.heldToRelease) = {line}
      <3>1. ReleaseDue(deal) /\ owed # 0
        BY <1>11, <1>12, <2>1 DEF ReleaseDue
      <3> QED BY <2>1, <3>1 DEF LineWhen
    <2>3. line \in dl(d)
      BY <1>11, <1>12, <2>2 DEF CalculateDealLines
    <2>4. CreditedLine(d, r, line) \in ls
      BY <1>11, <1>12, <2>3 DEF CalculatedLines
    <2>5. CreditedLine(d, r, line) \in ReleasedFor(ls, d, r)
      BY <2>4 DEF ReleasedFor, CreditedLine, BaseLine
    <2> QED BY <2>5
  <1> HIDE DEF ls, dl
  <1>13. \A l, k \in HeldFor(ls, d, r) : l = k
    <2> HIDE DEF deal
    <2> QED BY <1>9 DEF Months
  <1>14. \A l \in HeldFor(ls, d, r) : l.amount \in Nat
    BY <1>4, <1>9
  <1>15. \A l, k \in ReleasedFor(ls, d, r) : l = k
    <2> HIDE DEF deal
    <2> QED BY <1>10
  <1>16. \A l \in ReleasedFor(ls, d, r) : l.amount = owed /\ owed > 0
    <2> SUFFICES ASSUME NEW l \in ReleasedFor(ls, d, r) PROVE l.amount = owed /\ owed > 0
      OBVIOUS
    <2>1. /\ l.amount = deal.heldToRelease /\ deal.heldToRelease > 0
          /\ deal.heldToRelease = Larger(owed, 0)
      BY <1>3, <1>10
    <2> HIDE DEF deal, owed
    <2> QED BY <2>1 DEF Larger
  <1>17. HeldFor(ls, d, r) = {} \/ ReleasedFor(ls, d, r) = {}
    <2> HIDE DEF deal
    <2> QED BY <1>9, <1>10
  <1>18. EarnsFor(ls, d, r) => HeldFor(ls, d, r) = {}
    <2> HIDE DEF deal
    <2> QED BY <1>9, <1>11
  <1> HIDE DEF owed
  <1>19. PostsFor(ls, d, r, owed)
    BY <1>12, <1>13, <1>14, <1>15, <1>16, <1>17, <1>18 DEF PostsFor
  <1> QED BY <1>19 DEF owed

-----------------------------------------------------------------------------
(* What a step can do to the results and the tables.                         *)

(* The result to persist is the one computed, or is being computed.          *)
LEMMA ResultStep ==
    ASSUME CloseInv, [CloseNext]_vars, NEW q \in Requests, pc'[q] = "persist"
    PROVE  \/ pc[q] = "persist" /\ target'[q] = target[q] /\ result'[q] = result[q]
           \/ Calculate(q)
  <1>1. /\ pc \in [Requests -> {"idle", "reading", "persist", "lock"}]
        /\ target \in [Requests -> Months]
        /\ result = [r \in Requests |-> result[r]]
    BY DEF CloseInv, Typing, LocalsOK
  <1>2. CASE World \/ UNCHANGED vars
    BY <1>2 DEF World, NextDay, ProviderEvent, AssignOwner, RepDeparts,
                ApproveDecisions, vars, requests
  <1>3. ASSUME NEW p \in Requests, CloseRequest(p)
        PROVE  \/ pc[q] = "persist" /\ target'[q] = target[q] /\ result'[q] = result[q]
               \/ Calculate(q)
    <2>1. p = q
      BY <1>3, OthersAreIdle
    <2>2. pc'[q] \in {"idle", "reading", "lock"} \/ Calculate(q)
      BY <1>1, <1>3, <2>1
         DEF CloseRequest, CloseCalculate, StartCalculate, Read, RefuseCalculate, Persist,
             PersistConflict, CloseLock, LockRead, LockCommit, Crash, Finish
    <2> QED BY <2>2
  <1> QED BY <1>2, <1>3 DEF CloseNext

(* A month's tables stay as they are unless a result is persisted into them. *)
LEMMA TableStep ==
    ASSUME CloseInv, [CloseNext]_vars, NEW m \in Months
    PROVE  \/ lines'[m] = lines[m] /\ snapshots'[m] = snapshots[m]
           \/ \E q \in Requests : /\ Persist(q) /\ target[q] = m
                                  /\ lines'[m] = result[q].lines
                                  /\ snapshots'[m] = result[q].snapshots
                                  /\ status'[m] # "none"
  <1>1. CASE UNCHANGED <<lines, snapshots>>
    BY <1>1
  <1>2. ASSUME NEW q \in Requests, Persist(q)
        PROVE  \/ lines'[m] = lines[m] /\ snapshots'[m] = snapshots[m]
               \/ /\ Persist(q) /\ target[q] = m
                  /\ lines'[m] = result[q].lines
                  /\ snapshots'[m] = result[q].snapshots
                  /\ status'[m] # "none"
    <2>1. /\ lines = [k \in Months |-> lines[k]]
          /\ snapshots = [k \in Months |-> snapshots[k]]
          /\ status \in [Months -> {"none", "open", "locked"}]
      BY DEF CloseInv, Typing, TablesOK
    <2>2. target[q] # m => lines'[m] = lines[m] /\ snapshots'[m] = snapshots[m]
      BY <1>2, <2>1 DEF Persist, WriteRun
    <2>3. target[q] = m => /\ lines'[m] = result[q].lines
                           /\ snapshots'[m] = result[q].snapshots
                           /\ status'[m] # "none"
      BY <1>2, <2>1 DEF Persist, WriteRun
    <2> QED BY <1>2, <2>2, <2>3
  <1>3. UNCHANGED <<lines, snapshots>> \/ \E q \in Requests : Persist(q)
    BY DEF CloseNext, CloseRequest, World, NextDay, ProviderEvent, AssignOwner, RepDeparts,
           ApproveDecisions, CloseCalculate, StartCalculate, Read, RefuseCalculate,
           Calculate, PersistConflict, CloseLock, LockRead, LockCommit, Crash, vars, runs
  <1> QED BY <1>1, <1>2, <1>3

LEMMA StatusNeverReturns ==
    ASSUME CloseInv, [CloseNext]_vars, NEW m \in Months, status'[m] = "none"
    PROVE  status[m] = "none"
  <1>1. status \in [Months -> {"none", "open", "locked"}]
    BY DEF CloseInv, Typing, TablesOK
  <1>2. \/ status' = status
        \/ \E q \in Requests : Persist(q) \/ LockCommit(q)
    BY DEF CloseNext, CloseRequest, World, NextDay, ProviderEvent, AssignOwner, RepDeparts,
           ApproveDecisions, CloseCalculate, StartCalculate, Read, RefuseCalculate,
           Calculate, PersistConflict, CloseLock, LockRead, Crash, vars, runs
  <1>3. ASSUME NEW q \in Requests, Persist(q) PROVE status[m] = "none"
    BY <1>1, <1>3 DEF Persist, WriteRun
  <1>4. ASSUME NEW q \in Requests, LockCommit(q) PROVE status[m] = "none"
    BY <1>1, <1>4 DEF LockCommit
  <1> QED BY <1>2, <1>3, <1>4

LEMMA NothingPosts == ASSUME NEW prior PROVE Posts({}, prior)
  BY DEF Posts, PostsFor, HeldFor, ReleasedFor, EarnsFor

(* What a calculation under way was given. *)
LEMMA CalculationReads ==
    ASSUME CloseInv, NEW q \in Requests, Calculate(q)
    PROVE  /\ EarlierLocked(target[q])
           /\ seen[q].lines = PriorLines(target[q])
           /\ seen[q].snapshots = PriorSnapshots(target[q])
           /\ target[q] \in Months
           /\ target'[q] = target[q]
           /\ result'[q].lines = CalculatedLines(target[q], seen[q].policy, seen[q].lines)
           /\ result'[q].snapshots
                = RepSnapshots(result'[q].lines, seen[q].policy, seen[q].snapshots)
           /\ PriorLines(target[q])' = PriorLines(target[q])
           /\ PriorSnapshots(target[q])' = PriorSnapshots(target[q])
  <1>1. pc[q] = "reading" /\ unread[q] = {}
    BY DEF Calculate, AllRead
  <1>2. /\ EarlierLocked(target[q])
        /\ seen[q].lines = PriorLines(target[q])
        /\ seen[q].snapshots = PriorSnapshots(target[q])
    BY <1>1 DEF CloseInv, Current
  <1>3. target[q] \in Months /\ target'[q] = target[q]
    BY DEF CloseInv, Typing, LocalsOK, Calculate
  <1>4. result = [r \in Requests |-> result[r]]
    BY DEF CloseInv, Typing, LocalsOK
  <1>5. /\ result'[q].lines = CalculatedLines(target[q], seen[q].policy, seen[q].lines)
        /\ result'[q].snapshots
             = RepSnapshots(result'[q].lines, seen[q].policy, seen[q].snapshots)
    BY <1>4 DEF Calculate
  <1>6. UNCHANGED <<status, lines, snapshots>>
    BY DEF Calculate, runs
  <1>7. /\ PriorLines(target[q])' = PriorLines(target[q])
        /\ PriorSnapshots(target[q])' = PriorSnapshots(target[q])
    BY <1>3, <1>6 DEF PriorLines, PriorSnapshots, LockedBefore
  <1> QED BY <1>2, <1>3, <1>5, <1>7

LEMMA InitHeldInv == ASSUME Init PROVE HeldInv
  BY NothingPosts DEF Init, HeldInv

LEMMA NextHeldInv ==
    ASSUME CloseInv, CloseInv', HeldInv, [CloseNext]_vars PROVE HeldInv'
  <1>1. ASSUME NEW q \in Requests, pc'[q] = "persist"
        PROVE  Posts(result'[q].lines, PriorLines(target[q])')
    <2>1. CASE pc[q] = "persist" /\ target'[q] = target[q] /\ result'[q] = result[q]
      <3>1. EarlierLocked(target[q]) /\ target[q] \in Months
        BY <2>1 DEF CloseInv, Current, Typing, LocalsOK
      <3>2. PriorLines(target[q])' = PriorLines(target[q])
        <4>1. \A m \in Months : EarlierLocked(m) => PriorLines(m)' = PriorLines(m)
          BY HistoryIsSettled
        <4> QED BY <2>1, <3>1, <4>1 DEF PriorLines, LockedBefore
      <3>3. Posts(result[q].lines, PriorLines(target[q]))
        BY <2>1 DEF HeldInv
      <3> QED BY <2>1, <3>2, <3>3
    <2>2. CASE Calculate(q)
      BY <2>2, CalculationReads, CalculationPosts
    <2> QED BY <1>1, <2>1, <2>2, ResultStep
  <1>2. ASSUME NEW m \in Months
        PROVE  /\ Posts(lines'[m], PriorLines(m)')
               /\ status'[m] = "none" => lines'[m] = {}
    <2>1. CASE lines'[m] = lines[m]
      <3>1. CASE status[m] = "none"
        <4>1. lines'[m] = {}
          BY <2>1, <3>1 DEF HeldInv
        <4> QED BY <4>1, NothingPosts
      <3>2. CASE status[m] # "none"
        <4>1. EarlierLocked(m)
          BY <3>2 DEF CloseInv, InOrder
        <4>2. PriorLines(m)' = PriorLines(m)
          BY <4>1, HistoryIsSettled
        <4>3. status'[m] # "none"
          BY <3>2, StatusNeverReturns
        <4> QED BY <2>1, <4>2, <4>3 DEF HeldInv
      <3> QED BY <3>1, <3>2
    <2>2. ASSUME NEW q \in Requests, Persist(q), target[q] = m,
                 lines'[m] = result[q].lines, status'[m] # "none"
          PROVE  /\ Posts(lines'[m], PriorLines(m)')
                 /\ status'[m] = "none" => lines'[m] = {}
      <3>1. pc[q] = "persist"
        BY <2>2 DEF Persist
      <3>2. EarlierLocked(m)
        BY <2>2, <3>1 DEF CloseInv, Current
      <3>3. PriorLines(m)' = PriorLines(m)
        BY <3>2, HistoryIsSettled
      <3>4. Posts(result[q].lines, PriorLines(m))
        BY <2>2, <3>1 DEF HeldInv
      <3> QED BY <2>2, <3>3, <3>4
    <2> QED BY <2>1, <2>2, TableStep
  <1>3. \A q \in Requests : pc'[q] = "persist" => Posts(result'[q].lines, PriorLines(target[q])')
    BY <1>1
  <1> QED BY <1>2, <1>3 DEF HeldInv, Posts

LEMMA HeldInvAlways == CloseSpec => []HeldInv
  BY InitHeldInv, NextHeldInv, CloseInvAlways, PTL DEF CloseSpec

-----------------------------------------------------------------------------
(* The ledger of held commission: what the months up to one have held and    *)
(* released for a deal and rep.                                              *)

PostedAmount(ps) == MapThenSumSet(LAMBDA p : p[2].amount, ps)

PostsAreInts(ps) == IsFiniteSet(ps) /\ \A p \in ps : p[2].amount \in Int

HeldPosts(n, d, r) == UNION {{m} \X HeldFor(lines[m], d, r) : m \in 1..n}
ReleasePosts(n, d, r) == UNION {{m} \X ReleasedFor(lines[m], d, r) : m \in 1..n}

HeldUpTo(n, d, r) == PostedAmount(HeldPosts(n, d, r))
ReleasedUpTo(n, d, r) == PostedAmount(ReleasePosts(n, d, r))

LedgerOK(n, d, r) ==
    /\ PostsAreInts(HeldPosts(n, d, r)) /\ PostsAreInts(ReleasePosts(n, d, r))
    /\ ReleasedUpTo(n, d, r) <= HeldUpTo(n, d, r)

LEMMA PostedIsInt ==
    ASSUME NEW ps, PostsAreInts(ps) PROVE PostedAmount(ps) \in Int
  <1> DEFINE a == [p \in ps |-> p[2].amount]
  <1>1. \A p \in ps : a[p] = p[2].amount /\ a[p] \in Int
    BY DEF PostsAreInts
  <1> HIDE DEF a
  <1> QED BY <1>1, PostedAmountsTotal, TotalInt DEF PostsAreInts, PostedAmount

LEMMA NothingPosted == PostsAreInts({}) /\ PostedAmount({}) = 0
  <1> DEFINE a == [p \in {} |-> 0]
  <1>1. \A p \in {} : a[p] = p[2].amount
    OBVIOUS
  <1>2. PostedAmount({}) = Total(a, {})
    <2> HIDE DEF a
    <2> QED BY <1>1, FS_EmptySet, PostedAmountsTotal DEF PostedAmount
  <1>3. Total(a, {}) = 0
    <2> HIDE DEF a
    <2> QED BY TotalEmpty
  <1> QED BY <1>2, <1>3, FS_EmptySet DEF PostsAreInts

(* A month that adds at most one line adds its amount.                       *)
LEMMA PostOfMonth ==
    ASSUME NEW ps, PostsAreInts(ps), NEW m, \A p \in ps : p[1] # m,
           NEW ls, \A l, k \in ls : l = k, \A l \in ls : l.amount \in Int
    PROVE  /\ PostsAreInts(ps \cup ({m} \X ls))
           /\ ls = {} => PostedAmount(ps \cup ({m} \X ls)) = PostedAmount(ps)
           /\ \A l \in ls : PostedAmount(ps \cup ({m} \X ls)) = l.amount + PostedAmount(ps)
  <1>1. CASE ls = {}
    <2>1. ps \cup ({m} \X ls) = ps
      BY <1>1
    <2> QED BY <1>1, <2>1
  <1>2. ASSUME NEW l \in ls
        PROVE  /\ PostsAreInts(ps \cup ({m} \X ls))
               /\ PostedAmount(ps \cup ({m} \X ls)) = l.amount + PostedAmount(ps)
    <2> DEFINE z == <<m, l>>
               qs == ps \cup {z}
               a == [p \in qs |-> p[2].amount]
    <2>1. ps \cup ({m} \X ls) = qs
      BY <1>2
    <2>2. z \notin ps /\ z[2].amount = l.amount /\ l.amount \in Int
      OBVIOUS
    <2>3. IsFiniteSet(ps) /\ IsFiniteSet(qs)
      BY FS_AddElement DEF PostsAreInts
    <2>4. \A p \in qs : a[p] = p[2].amount /\ a[p] \in Int
      BY <2>2 DEF PostsAreInts
    <2>5. a[z] = l.amount
      OBVIOUS
    <2> HIDE DEF a, z
    <2>6. Total(a, qs) = a[z] + Total(a, ps)
      BY <2>2, <2>3, <2>4, TotalWithMember
    <2>7. Total(a, ps) = PostedAmount(ps)
      BY <2>3, <2>4, PostedAmountsTotal DEF PostedAmount
    <2> HIDE DEF qs
    <2>8. Total(a, qs) = PostedAmount(qs)
      BY <2>3, <2>4, PostedAmountsTotal DEF PostedAmount
    <2>9. PostsAreInts(qs)
      BY <2>3, <2>4 DEF PostsAreInts
    <2> QED BY <2>1, <2>5, <2>6, <2>7, <2>8, <2>9
  <1> QED BY <1>1, <1>2

LEMMA LedgerStep ==
    ASSUME NEW m \in Nat, m # 0, NEW d, NEW r, LedgerOK(m - 1, d, r),
           PostsFor(lines[m], d, r, HeldUpTo(m - 1, d, r) - ReleasedUpTo(m - 1, d, r))
    PROVE  /\ LedgerOK(m, d, r)
           /\ EarnsFor(lines[m], d, r) => ReleasedUpTo(m, d, r) = HeldUpTo(m, d, r)
  <1> DEFINE held == HeldFor(lines[m], d, r)
             released == ReleasedFor(lines[m], d, r)
             h0 == HeldUpTo(m - 1, d, r)
             r0 == ReleasedUpTo(m - 1, d, r)
             h1 == HeldUpTo(m, d, r)
             r1 == ReleasedUpTo(m, d, r)
  <1>1. 1..m = (1..(m - 1)) \cup {m} /\ m \notin 1..(m - 1)
    OBVIOUS
  <1>2. /\ HeldPosts(m, d, r) = HeldPosts(m - 1, d, r) \cup ({m} \X held)
        /\ ReleasePosts(m, d, r) = ReleasePosts(m - 1, d, r) \cup ({m} \X released)
    BY <1>1 DEF HeldPosts, ReleasePosts
  <1>3. \A p \in HeldPosts(m - 1, d, r) \cup ReleasePosts(m - 1, d, r) : p[1] # m
    BY <1>1 DEF HeldPosts, ReleasePosts
  <1>4. PostsAreInts(HeldPosts(m - 1, d, r)) /\ PostsAreInts(ReleasePosts(m - 1, d, r))
    BY DEF LedgerOK
  <1>5. h0 \in Int /\ r0 \in Int /\ r0 <= h0
    BY <1>4, PostedIsInt DEF LedgerOK, HeldUpTo, ReleasedUpTo
  <1>6. /\ \A l, k \in held : l = k
        /\ \A l \in held : l.amount \in Nat
        /\ \A l, k \in released : l = k
        /\ \A l \in released : l.amount = h0 - r0 /\ h0 - r0 > 0
        /\ held = {} \/ released = {}
        /\ EarnsFor(lines[m], d, r) => held = {} /\ (h0 - r0 > 0 => released # {})
    <2>1. h0 - r0 \in Int
      BY <1>5
    <2> HIDE DEF h0, r0
    <2>2. PostsFor(lines[m], d, r, h0 - r0)
      BY DEF h0, r0
    <2> QED BY <2>1, <2>2 DEF PostsFor
  <1> HIDE DEF held, released
  <1>7. /\ PostsAreInts(HeldPosts(m, d, r))
        /\ held = {} => h1 = h0
        /\ \A l \in held : h1 = l.amount + h0
    <2>1. \A l \in held : l.amount \in Int
      BY <1>6
    <2> DEFINE ps == HeldPosts(m - 1, d, r)
    <2>2. PostsAreInts(ps) /\ \A p \in ps : p[1] # m
      BY <1>3, <1>4
    <2> HIDE DEF ps
    <2>3. /\ PostsAreInts(ps \cup ({m} \X held))
          /\ held = {} => PostedAmount(ps \cup ({m} \X held)) = PostedAmount(ps)
          /\ \A l \in held : PostedAmount(ps \cup ({m} \X held)) = l.amount + PostedAmount(ps)
      BY <1>6, <2>1, <2>2, PostOfMonth
    <2>4. ps = HeldPosts(m - 1, d, r) /\ HeldPosts(m, d, r) = ps \cup ({m} \X held)
      BY <1>2 DEF ps
    <2> QED BY <2>3, <2>4 DEF HeldUpTo
  <1>8. /\ PostsAreInts(ReleasePosts(m, d, r))
        /\ released = {} => r1 = r0
        /\ \A l \in released : r1 = l.amount + r0
    <2>1. \A l \in released : l.amount \in Int
      BY <1>5, <1>6
    <2> DEFINE ps == ReleasePosts(m - 1, d, r)
    <2>2. PostsAreInts(ps) /\ \A p \in ps : p[1] # m
      BY <1>3, <1>4
    <2> HIDE DEF ps
    <2>3. /\ PostsAreInts(ps \cup ({m} \X released))
          /\ released = {} => PostedAmount(ps \cup ({m} \X released)) = PostedAmount(ps)
          /\ \A l \in released :
                PostedAmount(ps \cup ({m} \X released)) = l.amount + PostedAmount(ps)
      BY <1>6, <2>1, <2>2, PostOfMonth
    <2>4. ps = ReleasePosts(m - 1, d, r) /\ ReleasePosts(m, d, r) = ps \cup ({m} \X released)
      BY <1>2 DEF ps
    <2> QED BY <2>3, <2>4 DEF ReleasedUpTo
  <1> HIDE DEF h0, r0, h1, r1
  <1>9. r1 <= h1
    <2>1. CASE released = {}
      <3>1. r1 = r0
        BY <1>8, <2>1
      <3>2. h1 = h0 \/ \E n \in Nat : h1 = n + h0
        BY <1>6, <1>7
      <3> QED BY <1>5, <3>1, <3>2
    <2>2. CASE released # {}
      <3>1. h1 = h0
        BY <1>6, <1>7, <2>2
      <3>2. r1 = (h0 - r0) + r0
        BY <1>6, <1>8, <2>2
      <3> QED BY <1>5, <3>1, <3>2
    <2> QED BY <2>1, <2>2
  <1>10. ASSUME EarnsFor(lines[m], d, r) PROVE r1 = h1
    <2>1. h1 = h0 /\ (h0 - r0 > 0 => released # {})
      BY <1>6, <1>7, <1>10
    <2>2. released = {} => r1 = r0
      BY <1>8
    <2>3. released # {} => r1 = (h0 - r0) + r0
      BY <1>6, <1>8
    <2> QED BY <1>5, <2>1, <2>2, <2>3
  <1> QED BY <1>7, <1>8, <1>9, <1>10 DEF LedgerOK, h1, r1

(* What a month owes, by its locked history, is what the ledger says.        *)
LEMMA OwedByLedger ==
    ASSUME NEW m \in Months, EarlierLocked(m), NEW d, NEW r
    PROVE  OutstandingHeld(PriorLines(m), d, r)
             = HeldUpTo(m - 1, d, r) - ReleasedUpTo(m - 1, d, r)
  <1>1. LockedBefore(m) = 1..(m - 1)
    BY RunsAssumption DEF LockedBefore, EarlierLocked, Months
  <1> DEFINE mine == {p \in PriorLines(m) : p[2].deal = d /\ p[2].rep = r}
  <1>2. PriorLines(m) = UNION {{k} \X lines[k] : k \in 1..(m - 1)}
    BY <1>1 DEF PriorLines
  <1>3. {p \in mine : p[2].status = "held"} = HeldPosts(m - 1, d, r)
    BY <1>2 DEF HeldPosts, HeldFor
  <1>4. {p \in mine : p[2].kind = "release"} = ReleasePosts(m - 1, d, r)
    BY <1>2 DEF ReleasePosts, ReleasedFor
  <1> QED BY <1>3, <1>4 DEF OutstandingHeld, HeldUpTo, ReleasedUpTo, PostedAmount

(* The ledger of months whose earlier months are all locked.                 *)
LEMMA LedgerHolds ==
    ASSUME HeldInv, NEW n \in 0..LastMonth, n # 0 => EarlierLocked(n),
           NEW d \in Deals, NEW r \in Reps
    PROVE  LedgerOK(n, d, r)
  <1>0. LastMonth \in Nat /\ n \in Nat
    BY RunsAssumption
  <1> DEFINE T == {k \in 0..n : ~LedgerOK(k, d, r)}
  <1>1. SUFFICES ASSUME T # {} PROVE FALSE
    BY <1>0
  <1>2. PICK k \in T : \A j \in T : ~(<<j, k>> \in Before)
    <2>1. T \subseteq Nat
      BY <1>0
    <2> HIDE DEF T
    <2> QED BY <1>1, <2>1, BeforeIsWellFounded, WFMin
  <1>3. CASE k = 0
    <2>1. HeldPosts(0, d, r) = {} /\ ReleasePosts(0, d, r) = {}
      BY DEF HeldPosts, ReleasePosts
    <2>2. LedgerOK(0, d, r)
      BY <2>1, NothingPosted DEF LedgerOK, HeldUpTo, ReleasedUpTo
    <2> QED BY <1>2, <1>3, <2>2
  <1>4. CASE k # 0
    <2>1. k \in Months /\ k - 1 \in 0..n /\ k \in Nat
      BY <1>0, <1>2, <1>4 DEF Months
    <2>2. EarlierLocked(k)
      BY <1>0, <2>1 DEF EarlierLocked, Months
    <2>3. LedgerOK(k - 1, d, r)
      <3>1. <<k - 1, k>> \in Before
        BY <2>1 DEF Before
      <3>2. k - 1 \notin T
        BY <1>2, <3>1
      <3> QED BY <2>1, <3>2
    <2>4. PostsFor(lines[k], d, r, HeldUpTo(k - 1, d, r) - ReleasedUpTo(k - 1, d, r))
      BY <2>1, <2>2, OwedByLedger DEF HeldInv, Posts
    <2>5. LedgerOK(k, d, r)
      BY <1>4, <2>1, <2>3, <2>4, LedgerStep
    <2> QED BY <1>2, <2>5
  <1> QED BY <1>3, <1>4

(* The properties' sums are the ledger's.                                    *)
LEMMA PostedTotalsAreLedger ==
    ASSUME NEW n, NEW d, NEW r
    PROVE  /\ PostedTotal(1..n, d, r, IsHeld) = HeldUpTo(n, d, r)
           /\ PostedTotal(1..n, d, r, IsRelease) = ReleasedUpTo(n, d, r)
  <1>1. {p \in UNION {{m} \X lines[m] : m \in 1..n} :
            p[2].deal = d /\ p[2].rep = r /\ IsHeld(p[2])} = HeldPosts(n, d, r)
    BY DEF HeldPosts, HeldFor, IsHeld
  <1>2. {p \in UNION {{m} \X lines[m] : m \in 1..n} :
            p[2].deal = d /\ p[2].rep = r /\ IsRelease(p[2])} = ReleasePosts(n, d, r)
    BY DEF ReleasePosts, ReleasedFor, IsRelease
  <1> QED BY <1>1, <1>2 DEF PostedTotal, HeldUpTo, ReleasedUpTo, PostedAmount

(* Closed in order, the locked months are the first ones.                    *)
LEMMA LockedMonthsAreFirst ==
    ASSUME CloseInv
    PROVE  \E n \in 0..LastMonth : LockedMonths = 1..n /\ (n # 0 => EarlierLocked(n))
  <1>0. LastMonth \in Nat /\ LockedMonths \subseteq 1..LastMonth
    BY RunsAssumption DEF LockedMonths, Months
  <1>1. CASE LockedMonths = {}
    <2>1. LockedMonths = 1..0
      BY <1>1
    <2> QED BY <1>0, <2>1
  <1>2. CASE LockedMonths # {}
    <2> DEFINE n == Max(LockedMonths)
    <2>1. n \in LockedMonths /\ \A k \in LockedMonths : k <= n
      BY <1>0, <1>2, LatestMonth
    <2> HIDE DEF n
    <2>2. n \in Months /\ EarlierLocked(n)
      BY <2>1 DEF LockedMonths, CloseInv, InOrder
    <2>3. LockedMonths = 1..n
      BY <1>0, <2>1, <2>2 DEF LockedMonths, Months, EarlierLocked
    <2> QED BY <1>0, <2>2, <2>3 DEF Months
  <1> QED BY <1>1, <1>2

(* Closed in order, locked payroll never releases more of a deal's held      *)
(* commission to a rep than it held.                                         *)
THEOREM ReleasesAreCovered == CloseSpec => []ReleasedAtMostHeld
  <1>1. ASSUME CloseInv, HeldInv PROVE ReleasedAtMostHeld
    <2> SUFFICES ASSUME NEW d \in Deals, NEW r \in Reps
                 PROVE  PostedTotal(LockedMonths, d, r, IsRelease)
                          <= PostedTotal(LockedMonths, d, r, IsHeld)
      BY DEF ReleasedAtMostHeld
    <2>1. PICK n \in 0..LastMonth : LockedMonths = 1..n /\ (n # 0 => EarlierLocked(n))
      BY <1>1, LockedMonthsAreFirst
    <2>2. LedgerOK(n, d, r)
      BY <1>1, <2>1, LedgerHolds
    <2> QED BY <2>1, <2>2, PostedTotalsAreLedger DEF LedgerOK
  <1>2. CloseInv /\ HeldInv => ReleasedAtMostHeld
    BY <1>1
  <1> QED BY <1>2, CloseInvAlways, HeldInvAlways, PTL

(* Closed in order, a month that posts a deal's commission as earned to a    *)
(* rep has released everything held for it until then.                       *)
THEOREM EarningClearsHeld == CloseSpec => []HeldClearedWhenCurrent
  <1>1. ASSUME CloseInv, HeldInv PROVE HeldClearedWhenCurrent
    <2> SUFFICES ASSUME NEW m \in Months, NEW l \in lines[m],
                        l.kind \in {"first_sale", "recurring"}, l.status = "earned"
                 PROVE  PostedTotal(1..m, l.deal, l.rep, IsRelease)
                          = PostedTotal(1..m, l.deal, l.rep, IsHeld)
      BY DEF HeldClearedWhenCurrent
    <2> DEFINE d == l.deal
               r == l.rep
    <2>1. d \in Deals /\ r \in Reps
      BY <1>1 DEF CloseInv, Typing, TablesOK, LineOK
    <2>2. EarlierLocked(m)
      BY <1>1 DEF HeldInv, CloseInv, InOrder
    <2>3. m \in Nat /\ m # 0 /\ m - 1 \in 0..LastMonth /\ LastMonth \in Nat
      BY RunsAssumption DEF Months
    <2>4. m - 1 # 0 => EarlierLocked(m - 1)
      BY <2>2, <2>3 DEF EarlierLocked, Months
    <2>5. EarnsFor(lines[m], d, r)
      BY DEF EarnsFor
    <2> HIDE DEF d, r
    <2>6. LedgerOK(m - 1, d, r)
      BY <1>1, <2>1, <2>3, <2>4, LedgerHolds
    <2>7. PostsFor(lines[m], d, r, HeldUpTo(m - 1, d, r) - ReleasedUpTo(m - 1, d, r))
      BY <1>1, <2>1, <2>2, OwedByLedger DEF HeldInv, Posts
    <2>8. ReleasedUpTo(m, d, r) = HeldUpTo(m, d, r)
      BY <2>3, <2>5, <2>6, <2>7, LedgerStep
    <2> QED BY <2>8, PostedTotalsAreLedger DEF d, r
  <1>2. CloseInv /\ HeldInv => HeldClearedWhenCurrent
    BY <1>1
  <1> QED BY <1>2, CloseInvAlways, HeldInvAlways, PTL

-----------------------------------------------------------------------------
(* The draw account: what every stored snapshot settles.                     *)

(* Every version of the decisions treats base draw as recoverable: one that  *)
(* does not pays draw without booking it as an advance.                      *)
AllRecoverable == \A pol \in Policies : pol.recoverable

(* The balance and the cash of a snapshot are those of recoverable draw.     *)
SettlesWith(s) ==
    /\ s.totals.earned \in Int
    /\ s.totals.opening \in Nat
    /\ s.totals.closing = s.totals.opening + Larger(BaseDraw[s.rep] - s.totals.earned, 0)
         - Smaller(s.totals.opening, Larger(s.totals.earned - BaseDraw[s.rep], 0))
    /\ s.totals.cash = Larger(s.totals.earned, BaseDraw[s.rep])
         - Smaller(s.totals.opening, Larger(s.totals.earned - BaseDraw[s.rep], 0))

(* Every rep with base pay is in the snapshots.                              *)
Covers(ss) == \A r \in Reps : BaseDraw[r] # 0 => \E s \in ss : s.rep = r

(* Decisions and what requests saw of them are approved versions.            *)
Decided ==
    /\ decisions \in Seq([effectiveAt : 0..LastDay, policy : Policies])
    /\ \A q \in Requests : seen[q].policy \in Policies \cup {NoPolicy}

(* Stored snapshots and those about to be stored settle the draw.            *)
Settled ==
    /\ \A m \in Months : /\ \A s \in snapshots[m] : SettlesWith(s)
                         /\ status[m] # "none" => Covers(snapshots[m])
    /\ \A q \in Requests : pc[q] = "persist" =>
          (\A s \in result[q].snapshots : SettlesWith(s)) /\ Covers(result[q].snapshots)

DrawInv == Totals /\ Decided /\ Settled

-----------------------------------------------------------------------------
(* The lines of a calculation are finitely many, with whole amounts.         *)

LEMMA ImageIsFinite ==
    ASSUME NEW S, IsFiniteSet(S), NEW f PROVE IsFiniteSet({f[x] : x \in S})
  <1> DEFINE T == {f[x] : x \in S}
             g == [x \in S |-> f[x]]
  <1>1. g \in Surjection(S, T)
    BY DEF Surjection
  <1> QED BY <1>1, FS_Surjection

LEMMA DealLinesAreInts ==
    ASSUME NEW deal, NEW pol, NEW m,
           deal.firstSale \in Int, deal.recurring \in Int,
           deal.heldToRelease \in Int, deal.adjustment \in Int
    PROVE  AmountsAreInts(CalculateDealLines(deal, pol, m))
  <1>1. ASSUME NEW c, NEW kind, NEW stat, NEW amount \in Int
        PROVE  AmountsAreInts(LineWhen(c, kind, stat, amount))
    <2>1. IsFiniteSet(LineWhen(c, kind, stat, amount))
      <3>1. CASE c /\ amount # 0
        BY <3>1, FS_Singleton DEF LineWhen
      <3>2. CASE ~(c /\ amount # 0)
        BY <3>2, FS_EmptySet DEF LineWhen
      <3> QED BY <3>1, <3>2
    <2> QED BY <2>1, KindOfLineWhen DEF AmountsAreInts
  <1>2. ASSUME NEW a, NEW b, AmountsAreInts(a), AmountsAreInts(b)
        PROVE  AmountsAreInts(a \cup b)
    BY <1>2, FS_Union DEF AmountsAreInts
  <1> DEFINE l1 == LineWhen(FirstSaleDue(deal, pol, m), "first_sale", EarnedOrHeld(deal),
                            deal.firstSale)
             l2 == LineWhen(RecurringDue(deal, pol, m), "recurring", EarnedOrHeld(deal),
                            deal.recurring)
             l3 == LineWhen(ClawbackDue(deal, pol, m), "clawback", "earned", -deal.firstSale)
             l4 == LineWhen(ReleaseDue(deal), "release", "released", deal.heldToRelease)
             l5 == LineWhen(TRUE, "adjustment", "earned", deal.adjustment)
  <1>3. AmountsAreInts(l1) /\ AmountsAreInts(l2) /\ AmountsAreInts(l4)
    BY <1>1
  <1>4. AmountsAreInts(l3)
    <2>1. -deal.firstSale \in Int
      OBVIOUS
    <2> QED BY <1>1, <2>1
  <1>5. AmountsAreInts(l5)
    BY <1>1
  <1>6. CalculateDealLines(deal, pol, m) \in {{}, l1 \cup l2 \cup l3 \cup l4 \cup l5}
    BY DEF CalculateDealLines
  <1> HIDE DEF l1, l2, l3, l4, l5
  <1>7. AmountsAreInts(l1 \cup l2 \cup l3 \cup l4 \cup l5)
    BY <1>2, <1>3, <1>4, <1>5
  <1> QED BY <1>6, <1>7, SumOfNone

LEMMA CalculatedAmounts ==
    ASSUME NEW m, NEW pol, NEW prior,
           \A d \in Discovered(m) : OutstandingHeld(prior, d, owner[d]) \in Int
    PROVE  AmountsAreInts(CalculatedLines(m, pol, prior))
  <1> DEFINE dl(d) == CalculateDealLines(Seed(d, m, prior), pol, m)
             credited(d) == {CreditedLine(d, owner[d], line) : line \in dl(d)}
  <1>1. ASSUME NEW d \in Discovered(m)
        PROVE  AmountsAreInts(credited(d))
    <2> DEFINE deal == Seed(d, m, prior)
    <2>1. d \in Deals
      BY DEF Discovered
    <2>2. FirstSale[d] \in Int /\ Recurring[d] \in Int
      BY <2>1, RunsAssumption
    <2>3. Larger(OutstandingHeld(prior, d, owner[d]), 0) \in Int
      BY DEF Larger
    <2>4. /\ deal.firstSale \in Int /\ deal.recurring \in Int
          /\ deal.heldToRelease \in Int /\ deal.adjustment \in Int
      BY <2>2, <2>3 DEF Seed
    <2>5. AmountsAreInts(dl(d))
      <3> HIDE DEF deal
      <3>1. AmountsAreInts(CalculateDealLines(deal, pol, m))
        BY <2>4, DealLinesAreInts
      <3> QED BY <3>1 DEF deal
    <2> DEFINE f == [line \in dl(d) |-> CreditedLine(d, owner[d], line)]
    <2>6. credited(d) = {f[line] : line \in dl(d)}
      OBVIOUS
    <2>7. IsFiniteSet(credited(d))
      <3> HIDE DEF f, dl, credited
      <3>1. IsFiniteSet({f[line] : line \in dl(d)})
        BY <2>5, ImageIsFinite DEF AmountsAreInts
      <3> QED BY <2>6, <3>1
    <2>8. \A l \in credited(d) : l.amount \in Int
      <3> HIDE DEF dl
      <3> QED BY <2>5 DEF AmountsAreInts, CreditedLine
    <2> QED BY <2>7, <2>8 DEF AmountsAreInts
  <1> DEFINE sets == {credited(d) : d \in Discovered(m)}
  <1>2. CalculatedLines(m, pol, prior) = UNION sets
    BY DEF CalculatedLines
  <1> HIDE DEF credited
  <1>3. IsFiniteSet(sets)
    <2>1. IsFiniteSet(Discovered(m))
      BY RunsAssumption, FS_Subset DEF Discovered
    <2> DEFINE f == [d \in Discovered(m) |-> credited(d)]
    <2>2. sets = {f[d] : d \in Discovered(m)}
      OBVIOUS
    <2> HIDE DEF f, sets
    <2> QED BY <2>1, <2>2, ImageIsFinite
  <1>4. \A T \in sets : IsFiniteSet(T)
    BY <1>1 DEF AmountsAreInts
  <1>5. IsFiniteSet(UNION sets)
    <2> HIDE DEF sets
    <2> QED BY <1>3, <1>4, FS_UNION
  <1>6. \A l \in UNION sets : l.amount \in Int
    BY <1>1 DEF AmountsAreInts
  <1> QED BY <1>2, <1>5, <1>6 DEF AmountsAreInts

(* What the ledger owes is a whole amount.                                   *)
LEMMA OwedIsInt ==
    ASSUME CloseInv, HeldInv, NEW m \in Months, EarlierLocked(m),
           NEW d \in Deals, NEW r \in Reps
    PROVE  OutstandingHeld(PriorLines(m), d, r) \in Int
  <1>1. m - 1 \in 0..LastMonth /\ (m - 1 # 0 => EarlierLocked(m - 1))
    BY RunsAssumption DEF EarlierLocked, Months
  <1>2. LedgerOK(m - 1, d, r)
    BY <1>1, LedgerHolds
  <1>3. HeldUpTo(m - 1, d, r) \in Int /\ ReleasedUpTo(m - 1, d, r) \in Int
    BY <1>2, PostedIsInt DEF LedgerOK, HeldUpTo, ReleasedUpTo
  <1> QED BY <1>3, OwedByLedger

-----------------------------------------------------------------------------
(* The snapshots of a calculation settle the draw.                           *)

LEMMA ClosingIsNat ==
    ASSUME NEW s, s.rep \in Reps, SettlesWith(s)
    PROVE  s.totals.closing \in Nat
  <1> DEFINE e == s.totals.earned
             o == s.totals.opening
             b == BaseDraw[s.rep]
  <1>1. e \in Int /\ o \in Nat /\ b \in Nat
    BY RunsAssumption DEF SettlesWith
  <1>2. s.totals.closing = o + Larger(b - e, 0) - Smaller(o, Larger(e - b, 0))
    BY DEF SettlesWith
  <1> HIDE DEF e, o, b
  <1> QED BY <1>1, <1>2 DEF Larger, Smaller

LEMMA OpeningIsNat ==
    ASSUME NEW prior, \A p \in prior : p[2].totals.closing \in Nat, NEW r
    PROVE  OpeningBalance(prior, r) \in Nat
  <1> DEFINE newest == NewestSnapshot(prior, r)
  <1>1. newest \subseteq prior
    BY DEF NewestSnapshot
  <1> HIDE DEF newest
  <1>2. CASE newest = {}
    BY <1>2 DEF OpeningBalance, newest
  <1>3. CASE newest # {}
    <2> DEFINE p == CHOOSE p \in newest : TRUE
    <2>1. p \in newest
      BY <1>3
    <2>2. OpeningBalance(prior, r) = p[2].totals.closing
      BY <1>3 DEF OpeningBalance, newest
    <2> QED BY <1>1, <2>1, <2>2
  <1> QED BY <1>2, <1>3

LEMMA CalculationSettles ==
    ASSUME NEW ls, AmountsAreInts(ls), NEW pol, pol.recoverable,
           NEW prior, \A p \in prior : p[2].totals.closing \in Nat,
           NEW s \in RepSnapshots(ls, pol, prior)
    PROVE  SettlesWith(s)
  <1>1. PICK r \in SnapshotReps(ls) :
           s = RepSnapshot(r, {l \in ls : l.rep = r}, OpeningBalance(prior, r), pol.recoverable)
    BY DEF RepSnapshots
  <1> DEFINE mine == {l \in ls : l.rep = r}
             e == EarnedOf(mine)
             o == OpeningBalance(prior, r)
  <1>2. e \in Int
    <2> DEFINE paid == {l \in mine : l.status # "held"}
    <2>1. AmountsAreInts(paid)
      BY FS_Subset DEF AmountsAreInts
    <2> HIDE DEF paid
    <2>2. SumAmounts(paid) \in Int
      BY <2>1, SumIsInt
    <2> QED BY <2>2 DEF EarnedOf, paid
  <1>3. o \in Nat
    BY OpeningIsNat
  <1>4. /\ s.rep = r
        /\ s.totals.earned = e /\ s.totals.opening = o
        /\ s.totals.closing = ClosingBalance(e, BaseDraw[r], o, pol.recoverable)
        /\ s.totals.cash = CashPayable(e, BaseDraw[r], o, pol.recoverable)
    BY <1>1 DEF RepSnapshot, SummarizeRepCommission
  <1> HIDE DEF e, o, mine
  <1>5. /\ s.totals.closing = o + Larger(BaseDraw[r] - e, 0) - Smaller(o, Larger(e - BaseDraw[r], 0))
        /\ s.totals.cash = Larger(e, BaseDraw[r]) - Smaller(o, Larger(e - BaseDraw[r], 0))
    BY <1>4 DEF ClosingBalance, CashPayable, DrawRecovery
  <1> QED BY <1>2, <1>3, <1>4, <1>5 DEF SettlesWith

LEMMA CalculationCovers ==
    ASSUME NEW ls, NEW pol, NEW prior PROVE Covers(RepSnapshots(ls, pol, prior))
  <1> SUFFICES ASSUME NEW r \in Reps, BaseDraw[r] # 0
               PROVE  \E s \in RepSnapshots(ls, pol, prior) : s.rep = r
    BY DEF Covers
  <1> DEFINE s == RepSnapshot(r, {l \in ls : l.rep = r}, OpeningBalance(prior, r),
                              pol.recoverable)
  <1>1. s \in RepSnapshots(ls, pol, prior)
    BY DEF RepSnapshots, SnapshotReps
  <1>2. s.rep = r
    BY DEF RepSnapshot
  <1> QED BY <1>1, <1>2

-----------------------------------------------------------------------------
(* The invariant of the draw account is kept.                                *)

LEMMA ResolvedIsPolicy ==
    ASSUME Decided, NEW asOf PROVE ResolveApproved(asOf) \in Policies \cup {NoPolicy}
  <1> DEFINE effective == {i \in DOMAIN decisions : decisions[i].effectiveAt <= asOf}
  <1>1. CASE effective = {}
    BY <1>1 DEF ResolveApproved
  <1>2. CASE effective # {}
    <2>1. Len(decisions) \in Nat /\ DOMAIN decisions = 1..Len(decisions)
      BY DEF Decided
    <2>2. effective \in SUBSET (1..Len(decisions))
      BY <2>1
    <2> HIDE DEF effective
    <2>3. Max(effective) \in DOMAIN decisions
      BY <1>2, <2>1, <2>2, LatestMonth
    <2>4. ResolveApproved(asOf) = decisions[Max(effective)].policy
      BY <1>2 DEF ResolveApproved, effective
    <2> DEFINE V == [effectiveAt : 0..LastDay, policy : Policies]
    <2>5. decisions \in Seq(V)
      BY DEF Decided
    <2>6. \A v \in V : v.policy \in Policies
      OBVIOUS
    <2> HIDE DEF V
    <2>7. decisions[Max(effective)] \in V
      BY <2>3, <2>5
    <2> QED BY <2>4, <2>6, <2>7
  <1> QED BY <1>1, <1>2

LEMMA SeenPolicy ==
    ASSUME Typing, [Next]_vars, NEW q \in Requests
    PROVE  seen'[q].policy \in {seen[q].policy, NoPolicy, ResolveApproved(seen[q].asOf)}
  <1>1. CASE World \/ UNCHANGED vars
    BY <1>1 DEF World, NextDay, ProviderEvent, AssignOwner, RepDeparts,
                ApproveDecisions, vars, requests
  <1>2. ASSUME NEW p \in Requests, Request(p), p # q PROVE seen'[q] = seen[q]
    BY <1>2, OthersWait
  <1>3. ASSUME Request(q)
        PROVE  seen'[q].policy \in {seen[q].policy, NoPolicy, ResolveApproved(seen[q].asOf)}
    <2>1. /\ seen = [r \in Requests |-> seen[r]]
          /\ seen[q] = [asOf |-> seen[q].asOf, policy |-> seen[q].policy, lines |-> seen[q].lines,
                        snapshots |-> seen[q].snapshots, status |-> seen[q].status]
      BY DEF Typing, LocalsOK
    <2>2. CASE Finish(q)
      BY <2>1, <2>2 DEF Finish, NothingSeen
    <2>3. CASE \E m \in Months : StartCalculate(q, m) \/ LockRead(q, m)
      BY <2>1, <2>3 DEF StartCalculate, LockRead, NothingSeen
    <2>4. ASSUME NEW query \in Queries, Read(q, query)
          PROVE  seen'[q].policy \in {seen[q].policy, NoPolicy, ResolveApproved(seen[q].asOf)}
      <3>1. seen'[q] = Answer(query, target[q], seen[q])
        BY <2>1, <2>4 DEF Read
      <3> QED BY <2>1, <3>1 DEF Answer, Queries
    <2>5. CASE Calculate(q)
      BY <2>1, <2>5 DEF Calculate, Consumed
    <2> QED BY <1>3, <2>2, <2>3, <2>4, <2>5
            DEF Request, RefuseCalculate, Persist, PersistConflict, LockCommit, Crash
  <1> QED BY <1>1, <1>2, <1>3 DEF Next

LEMMA NextDecided == ASSUME Typing, Decided, [Next]_vars PROVE Decided'
  <1> DEFINE V == [effectiveAt : 0..LastDay, policy : Policies]
  <1>1. CASE \E at \in 0..LastDay, pol \in Policies : ApproveDecisions(at, pol)
    <2>1. PICK at \in 0..LastDay, pol \in Policies : ApproveDecisions(at, pol)
      BY <1>1
    <2>2. Version(at, pol) \in V
      BY DEF Version
    <2>3. decisions' = Append(decisions, Version(at, pol)) /\ decisions \in Seq(V)
      BY <2>1 DEF ApproveDecisions, Decided
    <2> HIDE DEF V
    <2>4. decisions' \in Seq(V)
      BY <2>2, <2>3
    <2>5. seen' = seen
      BY <2>1 DEF ApproveDecisions, requests
    <2> QED BY <2>4, <2>5 DEF Decided, V
  <1>2. CASE decisions' = decisions
    <2>1. \A q \in Requests : seen'[q].policy \in Policies \cup {NoPolicy}
      BY SeenPolicy, ResolvedIsPolicy DEF Decided
    <2> QED BY <1>2, <2>1 DEF Decided
  <1>3. \/ \E at \in 0..LastDay, pol \in Policies : ApproveDecisions(at, pol)
        \/ decisions' = decisions
    BY DEF Next, Request, World, NextDay, ProviderEvent, AssignOwner, RepDeparts,
           StartCalculate, Read, RefuseCalculate, Calculate, Persist, PersistConflict,
           LockRead, LockCommit, Crash, vars, facts
  <1> QED BY <1>1, <1>2, <1>3

LEMMA InitDrawInv == ASSUME Init PROVE DrawInv
  <1>1. Totals
    BY InitTotals
  <1>2. decisions \in Seq([effectiveAt : 0..LastDay, policy : Policies])
    <2>1. CASE decisions = <<>>
      BY <2>1
    <2>2. ASSUME NEW pol \in Policies, decisions = <<Version(0, pol)>>
          PROVE  decisions \in Seq([effectiveAt : 0..LastDay, policy : Policies])
      <3>1. Version(0, pol) \in [effectiveAt : 0..LastDay, policy : Policies]
        BY RunsAssumption DEF Version
      <3> QED BY <2>2, <3>1
    <2> QED BY <2>1, <2>2 DEF Init
  <1>3. Settled
    BY DEF Init, Settled
  <1>4. \A q \in Requests : seen[q].policy \in Policies \cup {NoPolicy}
    BY DEF Init, NothingSeen
  <1> QED BY <1>1, <1>2, <1>3, <1>4 DEF DrawInv, Decided

(* The history a calculation was given closes with balances.                 *)
LEMMA HistoryClosesWithNat ==
    ASSUME Typing, Settled, NEW m \in Months, NEW p \in PriorSnapshots(m)
    PROVE  p[2].totals.closing \in Nat
  <1>1. PICK k \in LockedBefore(m) : \E t \in snapshots[k] : p = <<k, t>>
    BY PriorPairs
  <1>2. PICK t \in snapshots[k] : p = <<k, t>>
    BY <1>1
  <1>3. k \in Months
    BY DEF LockedBefore
  <1>4. t.rep \in Reps /\ SettlesWith(t)
    BY <1>2, <1>3 DEF Typing, TablesOK, Settled
  <1> QED BY <1>2, <1>4, ClosingIsNat

LEMMA ResultSettles ==
    ASSUME CloseInv, HeldInv, DrawInv, AllRecoverable, NEW q \in Requests, Calculate(q)
    PROVE  (\A s \in result'[q].snapshots : SettlesWith(s)) /\ Covers(result'[q].snapshots)
  <1> DEFINE m == target[q]
             pol == seen[q].policy
             ls == CalculatedLines(m, pol, PriorLines(m))
             ss == RepSnapshots(ls, pol, PriorSnapshots(m))
  <1>1. /\ EarlierLocked(m) /\ m \in Months
        /\ result'[q].snapshots = ss
    BY CalculationReads
  <1>2. pol \in Policies
    BY DEF DrawInv, Decided, Calculate, Blocked
  <1>3. pol.recoverable
    BY <1>2 DEF AllRecoverable
  <1>4. \A d \in Discovered(m) : d \in Deals /\ owner[d] \in Reps
    BY DEF Calculate, Blocked, MappingBlockers, Discovered, CloseInv, Typing, TablesOK
  <1> HIDE DEF m, pol
  <1>5. \A d \in Discovered(m) : OutstandingHeld(PriorLines(m), d, owner[d]) \in Int
    BY <1>1, <1>4, OwedIsInt
  <1>6. AmountsAreInts(ls)
    BY <1>5, CalculatedAmounts
  <1>7. \A p \in PriorSnapshots(m) : p[2].totals.closing \in Nat
    BY <1>1, HistoryClosesWithNat DEF CloseInv, DrawInv
  <1> HIDE DEF ls
  <1>8. \A s \in ss : SettlesWith(s)
    BY <1>3, <1>6, <1>7, CalculationSettles
  <1>9. Covers(ss)
    BY CalculationCovers
  <1> QED BY <1>1, <1>8, <1>9

LEMMA NextSettled ==
    ASSUME CloseInv, HeldInv, DrawInv, AllRecoverable, [CloseNext]_vars
    PROVE  Settled'
  <1>1. ASSUME NEW q \in Requests, pc'[q] = "persist"
        PROVE  (\A s \in result'[q].snapshots : SettlesWith(s)) /\ Covers(result'[q].snapshots)
    BY <1>1, ResultStep, ResultSettles DEF DrawInv, Settled
  <1>2. ASSUME NEW m \in Months
        PROVE  /\ \A s \in snapshots'[m] : SettlesWith(s)
               /\ status'[m] # "none" => Covers(snapshots'[m])
    <2>1. CASE snapshots'[m] = snapshots[m] /\ status[m] # "none"
      BY <2>1 DEF DrawInv, Settled
    <2>2. ASSUME NEW q \in Requests, Persist(q), snapshots'[m] = result[q].snapshots
          PROVE  (\A s \in snapshots'[m] : SettlesWith(s)) /\ Covers(snapshots'[m])
      BY <2>2 DEF Persist, DrawInv, Settled
    <2>3. CASE snapshots'[m] = snapshots[m] /\ status[m] = "none"
      <3>1. snapshots'[m] = {}
        BY <2>3 DEF CloseInv, Chained
      <3>2. status'[m] = "none" \/ \E q \in Requests : Persist(q) /\ target[q] = m
        <4>1. /\ status' = status
              \/ \E q \in Requests : Persist(q) \/ LockCommit(q)
          BY DEF CloseNext, CloseRequest, World, NextDay, ProviderEvent, AssignOwner, RepDeparts,
                 ApproveDecisions, CloseCalculate, StartCalculate, Read, RefuseCalculate,
                 Calculate, PersistConflict, CloseLock, LockRead, Crash, vars, runs
        <4>2. status \in [Months -> {"none", "open", "locked"}]
          BY DEF CloseInv, Typing, TablesOK
        <4>3. ASSUME NEW q \in Requests, LockCommit(q) PROVE status'[m] = "none"
          BY <2>3, <4>2, <4>3 DEF LockCommit, CloseInv, Current
        <4>4. ASSUME NEW q \in Requests, Persist(q), target[q] # m PROVE status'[m] = "none"
          BY <2>3, <4>2, <4>4 DEF Persist, WriteRun
        <4> QED BY <2>3, <4>1, <4>3, <4>4
      <3>3. CASE status'[m] = "none"
        BY <3>1, <3>3
      <3>4. ASSUME NEW q \in Requests, Persist(q), target[q] = m
            PROVE  (\A s \in snapshots'[m] : SettlesWith(s)) /\ Covers(snapshots'[m])
        <4>1. snapshots'[m] = result[q].snapshots
          BY <3>4 DEF Persist, WriteRun, CloseInv, Typing, TablesOK
        <4> QED BY <2>2, <3>4, <4>1
      <3> QED BY <3>2, <3>3, <3>4
    <2> QED BY <2>1, <2>2, <2>3, TableStep
  <1> QED BY <1>1, <1>2 DEF Settled, SettlesWith, Covers

LEMMA NextDrawInv ==
    ASSUME CloseInv, HeldInv, DrawInv, AllRecoverable, [CloseNext]_vars
    PROVE  DrawInv'
  <1>1. Typing /\ [Next]_vars
    BY CloseIsNext DEF CloseInv
  <1>2. Totals' /\ Decided'
    BY <1>1, NextTotals, NextDecided DEF DrawInv
  <1> QED BY <1>2, NextSettled DEF DrawInv

-----------------------------------------------------------------------------
(* The locked history as a draw account.                                     *)

(* A rep's snapshots in a history, and a history with one more month.        *)
OfRep(ps, r) == {p \in ps : p[2].rep = r}
WithMonth(ps, m, ss) == ps \cup ({m} \X ss)

LEMMA TotalOfRepIs ==
    ASSUME NEW ps, NEW r, IsFiniteSet(OfRep(ps, r)), NEW field,
           NEW a, \A p \in OfRep(ps, r) : a[p] = p[2].totals[field]
    PROVE  TotalOfRep(ps, r, field) = Total(a, OfRep(ps, r))
  <1> DEFINE S == OfRep(ps, r)
  <1>1. TotalOfRep(ps, r, field) = MapThenSumSet(LAMBDA p : p[2].totals[field], S)
    BY Zenon DEF TotalOfRep, OfRep
  <1> HIDE DEF S
  <1>2. MapThenSumSet(LAMBDA p : p[2].totals[field], S) = Total(a, S)
    BY PostedTotalsTotal DEF S
  <1> QED BY <1>1, <1>2 DEF S

(* Before an open month is locked, the locked months are those before it.    *)
LEMMA HistoryOfOpenMonth ==
    ASSUME CloseInv, NEW m \in Months, status[m] = "open"
    PROVE  /\ EarlierLocked(m)
           /\ LockedMonths = 1..(m - 1)
           /\ LockedSnapshots = PriorSnapshots(m)
  <1>0. LastMonth \in Nat /\ m \in 1..LastMonth
    BY RunsAssumption DEF Months
  <1>1. EarlierLocked(m)
    BY DEF CloseInv, InOrder
  <1>2. \A k \in Months : status[k] = "locked" <=> k < m
    <2> SUFFICES ASSUME NEW k \in Months PROVE status[k] = "locked" <=> k < m
      OBVIOUS
    <2>1. k < m => status[k] = "locked"
      BY <1>1 DEF EarlierLocked
    <2>2. ASSUME status[k] = "locked" PROVE k < m
      <3>1. EarlierLocked(k)
        BY <2>2 DEF CloseInv, InOrder
      <3>2. ~(m < k) /\ k # m
        BY <2>2, <3>1 DEF EarlierLocked
      <3> QED BY <1>0, <3>2 DEF Months
    <2> QED BY <2>1, <2>2
  <1>3. LockedMonths = 1..(m - 1)
    BY <1>0, <1>2 DEF LockedMonths, Months
  <1>4. LockedBefore(LastMonth + 1) = LockedBefore(m)
    BY <1>0, <1>2 DEF LockedBefore, Months
  <1> QED BY <1>1, <1>3, <1>4 DEF LockedSnapshots, PriorSnapshots

(* The lock adds the month's snapshots to the history.                       *)
LEMMA HistoryAfterLock ==
    ASSUME CloseInv, NEW q \in Requests, LockCommit(q), NEW m, m = target[q]
    PROVE  /\ m \in Months /\ status[m] = "open"
           /\ LockedMonths' = 1..m
           /\ LockedSnapshots' = WithMonth(PriorSnapshots(m), m, snapshots[m])
  <1>1. m \in Months /\ status[m] = "open"
    BY DEF LockCommit, CloseInv, Current, Typing, LocalsOK
  <1>2. /\ status' = [status EXCEPT ![m] = "locked"]
        /\ snapshots' = snapshots
        /\ status \in [Months -> {"none", "open", "locked"}]
    BY DEF LockCommit, CloseInv, Typing, TablesOK
  <1>3. LockedMonths = 1..(m - 1) /\ EarlierLocked(m)
    BY <1>1, HistoryOfOpenMonth
  <1>4. \A k \in Months : status'[k] = "locked" <=> k \in LockedMonths \/ k = m
    BY <1>1, <1>2 DEF LockedMonths
  <1>5. LockedMonths' = LockedMonths \cup {m}
    BY <1>1, <1>4 DEF LockedMonths
  <1>6. m \in Nat /\ m >= 1 /\ LastMonth \in Nat /\ m <= LastMonth
    BY <1>1, RunsAssumption DEF Months
  <1>7. LockedMonths' = 1..m
    BY <1>3, <1>5, <1>6
  <1>8. LockedBefore(LastMonth + 1)' = LockedMonths'
    BY <1>6 DEF LockedBefore, LockedMonths, Months
  <1>9. LockedBefore(m) = LockedMonths
    BY <1>1, <1>3, <1>6 DEF LockedBefore, LockedMonths, EarlierLocked, Months
  <1>10. LockedSnapshots' = UNION {{k} \X snapshots[k] : k \in LockedBefore(m) \cup {m}}
    BY <1>2, <1>5, <1>8, <1>9 DEF LockedSnapshots, PriorSnapshots
  <1> QED BY <1>1, <1>7, <1>10 DEF PriorSnapshots, WithMonth

(* A rep's snapshots in a history: one a month at most, with whole totals.   *)
LEMMA HistoryOfRep ==
    ASSUME CloseInv, DrawInv, NEW m \in Months, NEW r \in Reps
    PROVE  /\ IsFiniteSet(OfRep(PriorSnapshots(m), r))
           /\ \A p \in OfRep(PriorSnapshots(m), r) :
                 /\ p[1] \in Months /\ p[1] < m /\ p[2] \in snapshots[p[1]]
                 /\ p = <<p[1], p[2]>> /\ p[2].rep = r
                 /\ p[2].totals.earned \in Int /\ p[2].totals.cash \in Int
  <1> DEFINE S == OfRep(PriorSnapshots(m), r)
             f == [p \in S |-> p[1]]
  <1>1. ASSUME NEW p \in S
        PROVE  /\ p[1] \in Months /\ p[1] < m /\ p[2] \in snapshots[p[1]]
               /\ p = <<p[1], p[2]>> /\ p[2].rep = r
    <2>1. p \in PriorSnapshots(m) /\ p[2].rep = r
      BY DEF OfRep
    <2>2. PICK k \in LockedBefore(m) : \E t \in snapshots[k] : p = <<k, t>>
      BY <2>1, PriorPairs
    <2> QED BY <2>1, <2>2 DEF LockedBefore
  <1>2. ASSUME NEW p \in S
        PROVE  p[2].totals.earned \in Int /\ p[2].totals.cash \in Int
    <2> DEFINE s == p[2]
    <2>1. SettlesWith(s) /\ s.rep = r
      BY <1>1 DEF DrawInv, Settled
    <2>2. BaseDraw[r] \in Nat
      BY RunsAssumption
    <2> HIDE DEF s
    <2>3. s.totals.earned \in Int /\ s.totals.cash \in Int
      BY <2>1, <2>2 DEF SettlesWith, Larger, Smaller
    <2> QED BY <2>3 DEF s
  <1>3. \A p, q \in S : p[1] = q[1] => p = q
    <2> SUFFICES ASSUME NEW p \in S, NEW q \in S, p[1] = q[1] PROVE p = q
      OBVIOUS
    <2>1. p[1] \in Months /\ p[2] \in snapshots[p[1]] /\ q[2] \in snapshots[p[1]]
      BY <1>1
    <2>2. AddsUp(lines[p[1]], snapshots[p[1]])
      BY <2>1 DEF DrawInv, Totals
    <2>3. p[2] = q[2]
      BY <1>1, <2>1, <2>2 DEF AddsUp
    <2> QED BY <1>1, <2>3
  <1>4. f \in Injection(S, Months)
    <2>1. f \in [S -> Months]
      BY <1>1
    <2>2. \A a, b \in S : f[a] = f[b] => a = b
      BY <1>3
    <2> HIDE DEF f, S
    <2> QED BY <2>1, <2>2 DEF Injection, IsInjective
  <1>5. IsFiniteSet(Months)
    BY RunsAssumption, FS_Interval DEF Months
  <1>6. IsFiniteSet(S)
    BY <1>4, <1>5, FS_Injection
  <1> QED BY <1>1, <1>2, <1>6

(* A month without a snapshot of the rep leaves its history as it was.       *)
LEMMA TotalWithoutRep ==
    ASSUME NEW ps, NEW m, NEW ss, NEW r, NEW field, \A s \in ss : s.rep # r,
           NEW all, all = WithMonth(ps, m, ss)
    PROVE  TotalOfRep(all, r, field) = TotalOfRep(ps, r, field)
  <1>1. OfRep(all, r) = OfRep(ps, r)
    BY DEF OfRep, WithMonth
  <1> QED BY <1>1, Zenon DEF TotalOfRep, OfRep

LEMMA BalanceWithoutRep ==
    ASSUME NEW ps, NEW m, NEW ss, NEW r, \A s \in ss : s.rep # r,
           NEW all, all = WithMonth(ps, m, ss)
    PROVE  OpeningBalance(all, r) = OpeningBalance(ps, r)
  <1>1. NewestSnapshot(all, r) = NewestSnapshot(ps, r)
    BY DEF NewestSnapshot, WithMonth
  <1> QED BY <1>1 DEF OpeningBalance

(* A month with one adds its totals and closes with its balance.             *)

OnlyOneOf(ss, r, s) == s \in ss /\ s.rep = r /\ \A t \in ss : t.rep = r => t = s
Earlier(ps, r, m) == IsFiniteSet(OfRep(ps, r)) /\ \A p \in OfRep(ps, r) : p[1] \in Nat /\ p[1] < m
Whole(ps, r, field) == \A p \in OfRep(ps, r) : p[2].totals[field] \in Int

LEMMA TotalWithRep ==
    ASSUME NEW ps, NEW m \in Nat, NEW ss, NEW s, NEW r, NEW field,
           OnlyOneOf(ss, r, s), Earlier(ps, r, m), Whole(ps, r, field),
           NEW v \in Int, v = s.totals[field], NEW all, all = WithMonth(ps, m, ss)
    PROVE  TotalOfRep(all, r, field) = v + TotalOfRep(ps, r, field)
  <1> DEFINE z == <<m, s>>
             old == OfRep(ps, r)
             new == OfRep(all, r)
             a == [p \in new |-> p[2].totals[field]]
  <1>1. new = old \cup {z}
    BY DEF OfRep, WithMonth, OnlyOneOf
  <1>2. z \notin old
    BY DEF OfRep, Earlier
  <1>3. \A p \in new : a[p] = p[2].totals[field]
    OBVIOUS
  <1>4. z[2] = s
    OBVIOUS
  <1> HIDE DEF z, new, old, a
  <1>5. \A p \in old \cup {z} : a[p] \in Int
    BY <1>1, <1>3, <1>4 DEF old, Whole
  <1>6. IsFiniteSet(old) /\ IsFiniteSet(new)
    BY <1>1, FS_AddElement DEF old, Earlier
  <1>7. Total(a, new) = a[z] + Total(a, old)
    BY <1>1, <1>2, <1>5, <1>6, TotalWithMember
  <1>8. TotalOfRep(all, r, field) = Total(a, new)
    BY <1>3, <1>6, TotalOfRepIs DEF new
  <1>9. TotalOfRep(ps, r, field) = Total(a, old)
    BY <1>1, <1>3, <1>6, TotalOfRepIs DEF old
  <1>10. a[z] = v
    BY <1>1, <1>3, <1>4
  <1> QED BY <1>7, <1>8, <1>9, <1>10

LEMMA MonthCloses ==
    ASSUME NEW ps, NEW m \in Nat, NEW ss, NEW s \in ss, NEW r, s.rep = r,
           \A t \in ss : t.rep = r => t = s,
           \A p \in OfRep(ps, r) : p[1] \in Nat /\ p[1] < m
    PROVE  OpeningBalance(WithMonth(ps, m, ss), r) = s.totals.closing
  <1> DEFINE newest == NewestSnapshot(WithMonth(ps, m, ss), r)
             z == <<m, s>>
  <1>1. z \in newest
    BY DEF NewestSnapshot, WithMonth, OfRep
  <1>2. ASSUME NEW p \in newest PROVE p = z
    <2>1. p \in WithMonth(ps, m, ss) /\ p[2].rep = r /\ m <= p[1]
      <3>1. z \in WithMonth(ps, m, ss) /\ z[2].rep = r /\ z[1] = m
        BY DEF WithMonth
      <3> QED BY <3>1 DEF NewestSnapshot
    <2>2. p \notin ps
      BY <2>1 DEF OfRep
    <2> QED BY <2>1, <2>2 DEF WithMonth
  <1>3. newest = {z}
    BY <1>1, <1>2
  <1> HIDE DEF newest
  <1>4. OpeningBalance(WithMonth(ps, m, ss), r) = (CHOOSE p \in newest : TRUE)[2].totals.closing
    BY <1>1 DEF OpeningBalance, newest
  <1>5. (CHOOSE p \in newest : TRUE) \in newest
    BY <1>1
  <1> QED BY <1>3, <1>4, <1>5

(* The initial states are those of an account that has settled nothing.      *)
LEMMA InitAccount == ASSUME Init PROVE Account!Init
  <1>1. LockedMonths = {} /\ LockedSnapshots = {}
    BY DEF Init, LockedMonths, LockedSnapshots, PriorSnapshots, LockedBefore
  <1>2. Cardinality(LockedMonths) = 0
    BY <1>1, FS_EmptySet
  <1>3. ASSUME NEW r, NEW field PROVE TotalOfRep(LockedSnapshots, r, field) = 0
    <2> DEFINE a == [p \in {} |-> 0]
    <2>1. OfRep(LockedSnapshots, r) = {}
      BY <1>1 DEF OfRep
    <2> HIDE DEF a
    <2>2. TotalOfRep(LockedSnapshots, r, field) = Total(a, {})
      BY <2>1, FS_EmptySet, TotalOfRepIs
    <2> QED BY <2>2, TotalEmpty
  <1>4. \A r : OpeningBalance(LockedSnapshots, r) = 0
    BY <1>1 DEF OpeningBalance, NewestSnapshot
  <1> QED BY <1>2, <1>3, <1>4
          DEF Account!Init, MonthsLocked, EarnedLocked, PaidLocked, BalanceLocked

(* A step that locks nothing leaves the account alone.                       *)
LEMMA AccountStays ==
    ASSUME CloseInv, [CloseNext]_vars, \A q \in Requests : ~LockCommit(q)
    PROVE  UNCHANGED Account!account
  <1>1. status \in [Months -> {"none", "open", "locked"}]
    BY DEF CloseInv, Typing, TablesOK
  <1>2. status' = status \/ \E q \in Requests : Persist(q)
    BY DEF CloseNext, CloseRequest, World, NextDay, ProviderEvent, AssignOwner, RepDeparts,
           ApproveDecisions, CloseCalculate, StartCalculate, Read, RefuseCalculate,
           Calculate, PersistConflict, CloseLock, LockRead, Crash, vars, runs
  <1>3. \A m \in Months : status'[m] = "locked" <=> status[m] = "locked"
    BY <1>1, <1>2 DEF Persist, WriteRun
  <1>4. \A m \in Months : status[m] = "locked" => snapshots'[m] = snapshots[m]
    BY LockedIsFrozen
  <1>5. LockedMonths' = LockedMonths
    BY <1>3 DEF LockedMonths
  <1>6. LockedBefore(LastMonth + 1)' = LockedBefore(LastMonth + 1)
    BY <1>3 DEF LockedBefore
  <1>7. LockedSnapshots' = LockedSnapshots
    <2>1. \A k \in LockedBefore(LastMonth + 1) : snapshots'[k] = snapshots[k]
      BY <1>4 DEF LockedBefore
    <2> QED BY <1>6, <2>1 DEF LockedSnapshots, PriorSnapshots
  <1>8. MonthsLocked' = MonthsLocked
    BY <1>5 DEF MonthsLocked
  <1>9. EarnedLocked' = EarnedLocked /\ PaidLocked' = PaidLocked
    BY <1>7 DEF EarnedLocked, PaidLocked
  <1>10. BalanceLocked' = BalanceLocked
    BY <1>7 DEF BalanceLocked
  <1> QED BY <1>8, <1>9, <1>10 DEF Account!account

(* What a rep's account becomes when a month is locked.                      *)
LEMMA RepSettles ==
    ASSUME CloseInv, DrawInv, NEW q \in Requests, LockCommit(q), NEW r \in Reps
    PROVE  Account!FairMonth(r, EarnedLocked'[r] - EarnedLocked[r],
                             PaidLocked'[r] - PaidLocked[r])
  <1> DEFINE m == target[q]
             ps == PriorSnapshots(m)
             ss == snapshots[m]
             e0 == TotalOfRep(ps, r, "earned")
             p0 == TotalOfRep(ps, r, "cash")
             o == OpeningBalance(ps, r)
             e1 == TotalOfRep(WithMonth(ps, m, ss), r, "earned")
             p1 == TotalOfRep(WithMonth(ps, m, ss), r, "cash")
             c == OpeningBalance(WithMonth(ps, m, ss), r)
             b == BaseDraw[r]
  <1>1. /\ m \in Months /\ status[m] = "open" /\ m \in Nat
        /\ LockedSnapshots' = WithMonth(ps, m, ss)
        /\ LockedSnapshots = ps
    BY HistoryAfterLock, HistoryOfOpenMonth DEF Months
  <1>2. EarnedLocked[r] = e0 /\ PaidLocked[r] = p0 /\ BalanceLocked[r] = o
    BY <1>1 DEF EarnedLocked, PaidLocked, BalanceLocked
  <1>3. EarnedLocked'[r] = e1 /\ PaidLocked'[r] = p1 /\ BalanceLocked'[r] = c
    BY <1>1 DEF EarnedLocked, PaidLocked, BalanceLocked
  <1>4. /\ IsFiniteSet(OfRep(ps, r))
        /\ \A p \in OfRep(ps, r) : /\ p[1] \in Nat /\ p[1] < m
                                   /\ p[2].totals.earned \in Int /\ p[2].totals.cash \in Int
    BY <1>1, HistoryOfRep DEF Months
  <1>5. e0 \in Int /\ p0 \in Int
    <2>1. ASSUME NEW field \in {"earned", "cash"} PROVE TotalOfRep(ps, r, field) \in Int
      <3> DEFINE old == OfRep(ps, r)
                 a == [p \in old |-> p[2].totals[field]]
      <3>1. \A p \in old : a[p] = p[2].totals[field] /\ a[p] \in Int
        BY <1>4
      <3>2. IsFiniteSet(old)
        BY <1>4
      <3> HIDE DEF old, a
      <3>3. TotalOfRep(ps, r, field) = Total(a, old)
        BY <3>1, <3>2, TotalOfRepIs DEF old
      <3>4. Total(a, old) \in Int
        BY <3>1, <3>2, TotalInt
      <3> QED BY <3>3, <3>4
    <2> QED BY <2>1
  <1>6. b \in Nat
    BY RunsAssumption
  <1>7. o \in Nat
    <2>1. \A p \in ps : p[2].totals.closing \in Nat
      BY <1>1, HistoryClosesWithNat DEF CloseInv, DrawInv
    <2> HIDE DEF ps
    <2> QED BY <2>1, OpeningIsNat
  <1>8. /\ p1 - p0 >= b /\ c = o + (p1 - p0) - (e1 - e0) /\ c >= 0
        /\ e1 - e0 <= b => p1 - p0 = b
        /\ e1 - e0 > b /\ p1 - p0 > b => c = 0
    <2>1. CASE \E s \in ss : s.rep = r
      <3>1. PICK s \in ss : s.rep = r
        BY <2>1
      <3>2. \A t \in ss : t.rep = r => t = s
        BY <1>1, <3>1 DEF DrawInv, Totals, AddsUp
      <3>3. SettlesWith(s)
        BY <1>1, <3>1 DEF DrawInv, Settled
      <3>4. s.totals.opening = o
        BY <1>1, <3>1 DEF CloseInv, Chained, OpensWith
      <3> DEFINE e == s.totals.earned
                 p == s.totals.cash
      <3>5. e \in Int /\ p \in Int
        <4>1. SettlesWith(s) /\ BaseDraw[s.rep] \in Nat
          BY <3>1, <3>3, <1>6
        <4> QED BY <4>1 DEF SettlesWith, Larger, Smaller
      <3>6. e1 = e + e0 /\ p1 = p + p0
        <4> HIDE DEF ps, ss, m
        <4> DEFINE all == WithMonth(ps, m, ss)
        <4>1. all = WithMonth(ps, m, ss)
          OBVIOUS
        <4>2. Earlier(ps, r, m) /\ m \in Nat /\ OnlyOneOf(ss, r, s)
          BY <1>1, <1>4, <3>1, <3>2 DEF Earlier, OnlyOneOf
        <4>3. Whole(ps, r, "earned") /\ Whole(ps, r, "cash")
          BY <1>4 DEF Whole
        <4>4. e = s.totals["earned"] /\ p = s.totals["cash"]
          OBVIOUS
        <4> HIDE DEF all, ss, ps, m, e, p, e0, e1, p0, p1, c, o, b
        <4>5. TotalOfRep(all, r, "earned") = e + TotalOfRep(ps, r, "earned")
          BY <3>5, <4>1, <4>2, <4>3, <4>4, TotalWithRep
        <4>6. TotalOfRep(all, r, "cash") = p + TotalOfRep(ps, r, "cash")
          BY <3>5, <4>1, <4>2, <4>3, <4>4, TotalWithRep
        <4> QED BY <4>1, <4>5, <4>6 DEF e0, e1, p0, p1
      <3>7. c = s.totals.closing
        <4> HIDE DEF ps, ss, m
        <4> QED BY <1>1, <1>4, <3>1, <3>2, MonthCloses
      <3>8. /\ c = o + Larger(b - e, 0) - Smaller(o, Larger(e - b, 0))
            /\ p = Larger(e, b) - Smaller(o, Larger(e - b, 0))
        BY <3>1, <3>3, <3>4, <3>7 DEF SettlesWith
      <3> HIDE DEF e, p, c, o, b, e0, e1, p0, p1
      <3>9. /\ p >= b /\ c = o + p - e /\ c >= 0
            /\ e <= b => p = b
            /\ e > b /\ p > b => c = 0
        <4>1. CASE e <= b
          BY <1>6, <1>7, <3>5, <3>8, <4>1 DEF Larger, Smaller
        <4>2. CASE e > b /\ o >= e - b
          BY <1>6, <1>7, <3>5, <3>8, <4>2 DEF Larger, Smaller
        <4>3. CASE e > b /\ o < e - b
          BY <1>6, <1>7, <3>5, <3>8, <4>3 DEF Larger, Smaller
        <4> QED BY <1>6, <1>7, <3>5, <4>1, <4>2, <4>3
      <3>10. e1 - e0 = e /\ p1 - p0 = p
        BY <1>5, <3>5, <3>6
      <3> QED BY <3>9, <3>10
    <2>2. CASE \A s \in ss : s.rep # r
      <3>1. b = 0
        BY <1>1, <2>2 DEF DrawInv, Settled, Covers
      <3>2. e1 = e0 /\ p1 = p0 /\ c = o
        <4> HIDE DEF ps, ss, m
        <4>1. /\ \A field : TotalOfRep(WithMonth(ps, m, ss), r, field) = TotalOfRep(ps, r, field)
              /\ OpeningBalance(WithMonth(ps, m, ss), r) = OpeningBalance(ps, r)
          BY <2>2, TotalWithoutRep, BalanceWithoutRep
        <4> QED BY <4>1, Zenon
      <3> HIDE DEF c, o, b, e0, e1, p0, p1
      <3> QED BY <1>5, <1>7, <3>1, <3>2
    <2> QED BY <2>1, <2>2
  <1> QED BY <1>2, <1>3, <1>8 DEF Account!FairMonth

(* Locking a month settles it in every rep's account.                        *)
LEMMA LockSettles ==
    ASSUME CloseInv, DrawInv, NEW q \in Requests, LockCommit(q)
    PROVE  Account!Settle
  <1> DEFINE m == target[q]
  <1>1. /\ m \in Months /\ LockedMonths = 1..(m - 1) /\ LockedMonths' = 1..m
    BY HistoryAfterLock, HistoryOfOpenMonth
  <1>2. m \in Nat /\ m >= 1
    BY <1>1 DEF Months
  <1>3. Cardinality(LockedMonths)' = Cardinality(LockedMonths) + 1
    <2>1. Cardinality(1..m) = m /\ Cardinality(1..(m - 1)) = m - 1
      BY <1>2, FS_Interval
    <2> QED BY <1>1, <1>2, <2>1
  <1> QED BY <1>3, RepSettles DEF Account!Settle, MonthsLocked

(* Closed in order, with draw recoverable by every approved version of the   *)
(* decisions, locked payroll is a draw account of every rep: the months'     *)
(* earned and cash totals and the closing balances are those of settling one *)
(* month after the other (summarizeRepCommission over the locked history).   *)
THEOREM LockedPayrollIsADrawAccount ==
    ASSUME AllRecoverable PROVE CloseSpec => PaysLikeADrawAccount
  <1>1. CloseInv /\ HeldInv /\ DrawInv /\ [CloseNext]_vars => DrawInv'
    BY NextDrawInv
  <1>2. CloseInv /\ DrawInv /\ [CloseNext]_vars => [Account!Settle]_(Account!account)
    BY AccountStays, LockSettles
  <1>3. Init => Account!Init /\ DrawInv
    BY InitAccount, InitDrawInv
  <1> QED BY <1>1, <1>2, <1>3, CloseInvAlways, HeldInvAlways, PTL
          DEF CloseSpec, PaysLikeADrawAccount, Account!Spec
=============================================================================
