-------------------------- MODULE CommissionSums --------------------------
(***************************************************************************)
(* What the sums of the commission engine and of the locked history are.   *)
(*                                                                         *)
(* A sum over a set is the community modules' recursive function, which    *)
(* adds the members in the order CHOOSE gives.  The first lemmas show, by  *)
(* a smallest counterexample, that the function exists for every finite    *)
(* set, that the order does not matter and that a member can be taken out; *)
(* the others apply that to the lines of one deal's month.                 *)
(***************************************************************************)
EXTENDS CommissionEngine, FiniteSetTheorems, TLAPS

---------------------------------------------------------------------------
(* Sums of a function over a finite set.                                   *)

Pick(s) == CHOOSE x \in s : TRUE

(* g gives every subset of S the sum of a over it.                         *)
IsTable(g, a, S) ==
    g = [s \in SUBSET S |-> IF s = {} THEN 0 ELSE a[Pick(s)] + g[s \ {Pick(s)}]]

Total(a, S) == (CHOOSE g : IsTable(g, a, S))[S]

(* Of the subsets of a finite set that belong to B, one has no other below. *)
LEMMA SmallestSubset ==
    ASSUME NEW S, IsFiniteSet(S), NEW B \in SUBSET SUBSET S, B # {}
    PROVE  \E s \in B : \A t \in B : t \subseteq s => t = s
  <1>1. B \subseteq FiniteSubsetsOf(S)
    BY FS_Subset DEF FiniteSubsetsOf
  <1>2. PICK s \in B : \A t \in B : ~(<<t, s>> \in StrictSubsetOrdering(S))
    BY <1>1, FS_StrictSubsetOrderingWellFounded, WFMin
  <1>3. ASSUME NEW t \in B, t \subseteq s PROVE t = s
    BY <1>2, <1>3 DEF StrictSubsetOrdering
  <1> QED BY <1>3

LEMMA PickIsMember ==
    ASSUME NEW s, s # {} PROVE Pick(s) \in s
  BY DEF Pick

LEMMA TableAt ==
    ASSUME NEW g, NEW a, NEW S, IsTable(g, a, S), NEW s \in SUBSET S
    PROVE  g[s] = IF s = {} THEN 0 ELSE a[Pick(s)] + g[s \ {Pick(s)}]
  BY DEF IsTable

(* Two tables agree on every finite set both cover. *)
LEMMA TablesAgree ==
    ASSUME NEW s, IsFiniteSet(s), NEW a, NEW b, \A x \in s : a[x] = b[x],
           NEW S, NEW T, s \subseteq S, s \subseteq T,
           NEW g, NEW h, IsTable(g, a, S), IsTable(h, b, T)
    PROVE  g[s] = h[s]
  <1> DEFINE B == {t \in SUBSET s : g[t] # h[t]}
  <1>1. SUFFICES ASSUME B # {} PROVE FALSE
    OBVIOUS
  <1>2. PICK t \in B : \A u \in B : u \subseteq t => u = t
    <2>1. B \in SUBSET SUBSET s
      OBVIOUS
    <2> HIDE DEF B
    <2> QED BY <1>1, <2>1, SmallestSubset
  <1> DEFINE x == Pick(t)
  <1>3. g[t] = (IF t = {} THEN 0 ELSE a[x] + g[t \ {x}])
    BY <1>2, TableAt
  <1>4. h[t] = (IF t = {} THEN 0 ELSE b[x] + h[t \ {x}])
    BY <1>2, TableAt
  <1>5. t # {}
    BY <1>2, <1>3, <1>4
  <1>6. x \in t
    BY <1>5, PickIsMember
  <1>7. g[t \ {x}] = h[t \ {x}]
    <2> HIDE DEF x
    <2>1. t \ {x} \in SUBSET s /\ t \ {x} \subseteq t /\ t \ {x} # t
      BY <1>2, <1>6
    <2>2. t \ {x} \notin B
      BY <1>2, <2>1
    <2> QED BY <2>1, <2>2
  <1>8. a[x] = b[x]
    BY <1>2, <1>6
  <1> QED BY <1>2, <1>3, <1>4, <1>5, <1>7, <1>8

(* Every finite set has its table. *)
LEMMA TableExists ==
    ASSUME NEW S, IsFiniteSet(S), NEW a
    PROVE  IsTable(CHOOSE g : IsTable(g, a, S), a, S)
  <1> DEFINE B == {t \in SUBSET S : ~ \E g : IsTable(g, a, t)}
  <1>1. SUFFICES ASSUME B # {} PROVE FALSE
    <2>1. (\E g : IsTable(g, a, S)) \/ S \in B
      OBVIOUS
    <2> QED BY <1>1, <2>1
  <1>2. PICK t \in B : \A u \in B : u \subseteq t => u = t
    <2>1. B \in SUBSET SUBSET S
      OBVIOUS
    <2> HIDE DEF B
    <2> QED BY <1>1, <2>1, SmallestSubset
  <1>3. IsFiniteSet(t)
    BY <1>2, FS_Subset
  <1>4. \A u \in SUBSET t : u # t => IsTable(CHOOSE g : IsTable(g, a, u), a, u)
    <2> SUFFICES ASSUME NEW u \in SUBSET t, u # t
                 PROVE  \E g : IsTable(g, a, u)
      OBVIOUS
    <2> QED BY <1>2
  <1>5. \A u \in SUBSET t : u # t =>
           Total(a, u) = IF u = {} THEN 0 ELSE a[Pick(u)] + Total(a, u \ {Pick(u)})
    <2> SUFFICES ASSUME NEW u \in SUBSET t, u # t
                 PROVE  Total(a, u) = IF u = {} THEN 0
                                      ELSE a[Pick(u)] + Total(a, u \ {Pick(u)})
      OBVIOUS
    <2> DEFINE v == u \ {Pick(u)}
               g == CHOOSE k : IsTable(k, a, u)
               h == CHOOSE k : IsTable(k, a, v)
    <2>1. IsTable(g, a, u)
      BY <1>4
    <2>2. v \in SUBSET t /\ v \subseteq u
      OBVIOUS
    <2>3. CASE u = {}
      BY <2>1, <2>3, TableAt DEF Total
    <2>4. CASE u # {}
      <3>1. v # t
        BY <2>4, PickIsMember
      <3>2. IsTable(h, a, v)
        BY <1>4, <2>2, <3>1
      <3>3. IsFiniteSet(v)
        BY <1>3, <2>2, FS_Subset
      <3>4. g[v] = h[v]
        <4> HIDE DEF g, h, v
        <4> QED BY <2>1, <2>2, <3>2, <3>3, TablesAgree
      <3>5. g[u] = a[Pick(u)] + g[v]
        <4> HIDE DEF g
        <4> QED BY <2>1, <2>4, TableAt
      <3> QED BY <2>4, <3>4, <3>5 DEF Total
    <2> QED BY <2>3, <2>4
  <1> DEFINE f == [s \in SUBSET t |-> IF s = {} THEN 0
                                       ELSE a[Pick(s)] + Total(a, s \ {Pick(s)})]
  <1>6. \A s \in SUBSET t : s # {} => f[s \ {Pick(s)}] = Total(a, s \ {Pick(s)})
    <2> SUFFICES ASSUME NEW s \in SUBSET t, s # {}
                 PROVE  f[s \ {Pick(s)}] = Total(a, s \ {Pick(s)})
      OBVIOUS
    <2>1. s \ {Pick(s)} \in SUBSET t /\ s \ {Pick(s)} # t
      BY PickIsMember
    <2> QED BY <1>5, <2>1
  <1>7. IsTable(f, a, t)
    <2>1. \A s \in SUBSET t :
             (IF s = {} THEN 0 ELSE a[Pick(s)] + Total(a, s \ {Pick(s)}))
               = (IF s = {} THEN 0 ELSE a[Pick(s)] + f[s \ {Pick(s)}])
      BY <1>6
    <2>2. f = [s \in SUBSET t |-> IF s = {} THEN 0
                                  ELSE a[Pick(s)] + f[s \ {Pick(s)}]]
      <3> DEFINE e == [s \in SUBSET t |-> IF s = {} THEN 0
                                  ELSE a[Pick(s)] + f[s \ {Pick(s)}]]
      <3>1. \A s \in SUBSET t : f[s] = e[s]
        BY <2>1
      <3> QED BY <3>1
    <2> HIDE DEF f
    <2> QED BY <2>2 DEF IsTable
  <1> QED BY <1>2, <1>7

LEMMA TotalEmpty ==
    ASSUME NEW a PROVE Total(a, {}) = 0
  <1>1. IsTable(CHOOSE g : IsTable(g, a, {}), a, {})
    BY FS_EmptySet, TableExists
  <1> DEFINE g == CHOOSE k : IsTable(k, a, {})
  <1> HIDE DEF g
  <1>2. g[{}] = 0
    <2>1. {} \in SUBSET {}
      OBVIOUS
    <2> QED BY <1>1, <2>1, TableAt DEF g
  <1> QED BY <1>2 DEF Total, g

LEMMA TotalOfPick ==
    ASSUME NEW S, IsFiniteSet(S), S # {}, NEW a
    PROVE  Total(a, S) = a[Pick(S)] + Total(a, S \ {Pick(S)})
  <1> DEFINE v == S \ {Pick(S)}
             g == CHOOSE k : IsTable(k, a, S)
             h == CHOOSE k : IsTable(k, a, v)
  <1>1. IsFiniteSet(v) /\ v \subseteq S
    BY FS_RemoveElement
  <1>2. IsTable(g, a, S) /\ IsTable(h, a, v)
    BY <1>1, TableExists
  <1>3. g[S] = a[Pick(S)] + g[v]
    <2> HIDE DEF g
    <2> QED BY <1>2, TableAt
  <1>4. g[v] = h[v]
    <2> HIDE DEF g, h, v
    <2> QED BY <1>1, <1>2, TablesAgree
  <1> QED BY <1>3, <1>4 DEF Total

(* A sum of integers is one, whatever the set. *)
LEMMA TotalInt ==
    ASSUME NEW S, IsFiniteSet(S), NEW a, \A x \in S : a[x] \in Int
    PROVE  Total(a, S) \in Int
  <1> DEFINE B == {t \in SUBSET S : Total(a, t) \notin Int}
  <1>1. SUFFICES ASSUME B # {} PROVE FALSE
    OBVIOUS
  <1>2. PICK t \in B : \A u \in B : u \subseteq t => u = t
    <2>1. B \in SUBSET SUBSET S
      OBVIOUS
    <2> HIDE DEF B
    <2> QED BY <1>1, <2>1, SmallestSubset
  <1>3. t \in SUBSET S /\ IsFiniteSet(t) /\ t # {}
    <2>1. t \in SUBSET S /\ Total(a, t) \notin Int
      BY <1>2
    <2>2. Total(a, {}) = 0
      BY TotalEmpty
    <2>3. t # {}
      BY <2>1, <2>2
    <2> QED BY <2>1, <2>3, FS_Subset
  <1> DEFINE x == Pick(t)
  <1>4. x \in t
    BY <1>3, PickIsMember
  <1>5. Total(a, t) = a[x] + Total(a, t \ {x})
    BY <1>3, TotalOfPick
  <1> HIDE DEF x
  <1>6. Total(a, t \ {x}) \in Int
    <2>1. t \ {x} \in SUBSET S /\ t \ {x} \subseteq t /\ t \ {x} # t
      BY <1>3, <1>4
    <2>2. t \ {x} \notin B
      BY <1>2, <2>1
    <2> QED BY <2>1, <2>2
  <1> QED BY <1>2, <1>3, <1>4, <1>5, <1>6

(* The order of the additions does not matter: any member can be taken out. *)
LEMMA TotalOfMember ==
    ASSUME NEW S, IsFiniteSet(S), NEW a, \A x \in S : a[x] \in Int, NEW z \in S
    PROVE  Total(a, S) = a[z] + Total(a, S \ {z})
  <1> DEFINE B == {t \in SUBSET S :
                     \E x \in t : Total(a, t) # a[x] + Total(a, t \ {x})}
  <1>1. SUFFICES ASSUME B # {} PROVE FALSE
    <2>1. S \in SUBSET S
      OBVIOUS
    <2> QED BY <1>1, <2>1
  <1>2. PICK t \in B : \A u \in B : u \subseteq t => u = t
    <2>1. B \in SUBSET SUBSET S
      OBVIOUS
    <2> HIDE DEF B
    <2> QED BY <1>1, <2>1, SmallestSubset
  <1>3. PICK x \in t : Total(a, t) # a[x] + Total(a, t \ {x})
    BY <1>2
  <1>4. t \in SUBSET S /\ IsFiniteSet(t) /\ t # {}
    BY <1>2, <1>3, FS_Subset
  <1> DEFINE y == Pick(t)
  <1>5. y \in t
    BY <1>4, PickIsMember
  <1>6. Total(a, t) = a[y] + Total(a, t \ {y})
    BY <1>4, TotalOfPick
  <1> HIDE DEF y
  <1>7. x # y
    BY <1>3, <1>6
  <1>8. \A u \in SUBSET t : u # t => \A w \in u : Total(a, u) = a[w] + Total(a, u \ {w})
    BY <1>2, <1>4
  <1> HIDE DEF B
  <1>9. Total(a, t \ {y}) = a[x] + Total(a, (t \ {y}) \ {x})
    <2>1. t \ {y} \in SUBSET t /\ t \ {y} # t /\ x \in t \ {y}
      BY <1>3, <1>5, <1>7
    <2> QED BY <1>8, <2>1
  <1>10. Total(a, t \ {x}) = a[y] + Total(a, (t \ {x}) \ {y})
    <2>1. t \ {x} \in SUBSET t /\ t \ {x} # t /\ y \in t \ {x}
      BY <1>3, <1>5, <1>7
    <2> QED BY <1>8, <2>1
  <1>11. (t \ {y}) \ {x} = (t \ {x}) \ {y}
    OBVIOUS
  <1>12. Total(a, (t \ {x}) \ {y}) \in Int
    <2>1. IsFiniteSet((t \ {x}) \ {y}) /\ (t \ {x}) \ {y} \subseteq S
      BY <1>4, FS_RemoveElement
    <2> QED BY <2>1, TotalInt
  <1>13. a[x] \in Int /\ a[y] \in Int
    BY <1>3, <1>4, <1>5
  <1> DEFINE w == Total(a, (t \ {x}) \ {y})
  <1>14. Total(a, t \ {y}) = a[x] + w /\ Total(a, t \ {x}) = a[y] + w
    BY <1>9, <1>10, <1>11
  <1> HIDE DEF w
  <1>15. w \in Int
    BY <1>12 DEF w
  <1> QED BY <1>3, <1>6, <1>13, <1>14, <1>15

(* Adding a member adds its value. *)
LEMMA TotalWithMember ==
    ASSUME NEW S, IsFiniteSet(S), NEW a, NEW z, z \notin S,
           \A x \in S \cup {z} : a[x] \in Int
    PROVE  Total(a, S \cup {z}) = a[z] + Total(a, S)
  <1>1. IsFiniteSet(S \cup {z}) /\ z \in S \cup {z}
    BY FS_AddElement
  <1>2. (S \cup {z}) \ {z} = S
    OBVIOUS
  <1> QED BY <1>1, <1>2, TotalOfMember

---------------------------------------------------------------------------
(* The sums the commission modules take, as totals.                        *)

(* Over lines. *)
LEMMA AmountsTotal ==
    ASSUME NEW S, IsFiniteSet(S), NEW a, \A x \in S : a[x] = x.amount
    PROVE  SumAmounts(S) = Total(a, S)
  <1> DEFINE h == CHOOSE g : IsTable(g, a, S)
             tab(g) == g = [s \in SUBSET S |->
                              IF s = {} THEN 0 ELSE Pick(s).amount + g[s \ {Pick(s)}]]
  <1>1. IsTable(h, a, S)
    BY TableExists
  <1>2. \A g : tab(g) <=> IsTable(g, a, S)
    <2>1. \A s \in SUBSET S : s # {} => a[Pick(s)] = Pick(s).amount
      BY PickIsMember
    <2>2. ASSUME NEW g
          PROVE  [s \in SUBSET S |-> IF s = {} THEN 0
                                     ELSE Pick(s).amount + g[s \ {Pick(s)}]]
                   = [s \in SUBSET S |-> IF s = {} THEN 0
                                         ELSE a[Pick(s)] + g[s \ {Pick(s)}]]
      BY <2>1
    <2> QED BY <2>2 DEF IsTable
  <1>3. tab(CHOOSE g : tab(g))
    <2>1. tab(h)
      BY <1>1, <1>2
    <2> HIDE DEF tab
    <2> QED BY <2>1, Zenon
  <1>4. (CHOOSE g : tab(g))[S] = h[S]
    <2>1. IsTable(CHOOSE g : tab(g), a, S)
      BY <1>2, <1>3
    <2> DEFINE k == CHOOSE g : tab(g)
    <2> HIDE DEF h, k
    <2> QED BY <1>1, <2>1, TablesAgree DEF k
  <1>5. SumAmounts(S) = (CHOOSE g : tab(g))[S]
    BY DEF SumAmounts, MapThenSumSet, MapThenFoldSet, Pick
  <1> QED BY <1>4, <1>5 DEF Total

(* Over posted lines, each with its month. *)
LEMMA PostedAmountsTotal ==
    ASSUME NEW S, IsFiniteSet(S), NEW a, \A x \in S : a[x] = x[2].amount
    PROVE  MapThenSumSet(LAMBDA p : p[2].amount, S) = Total(a, S)
  <1> DEFINE h == CHOOSE g : IsTable(g, a, S)
             tab(g) == g = [s \in SUBSET S |->
                              IF s = {} THEN 0 ELSE Pick(s)[2].amount + g[s \ {Pick(s)}]]
  <1>1. IsTable(h, a, S)
    BY TableExists
  <1>2. \A g : tab(g) <=> IsTable(g, a, S)
    <2>1. \A s \in SUBSET S : s # {} => a[Pick(s)] = Pick(s)[2].amount
      BY PickIsMember
    <2>2. ASSUME NEW g
          PROVE  [s \in SUBSET S |-> IF s = {} THEN 0
                                     ELSE Pick(s)[2].amount + g[s \ {Pick(s)}]]
                   = [s \in SUBSET S |-> IF s = {} THEN 0
                                         ELSE a[Pick(s)] + g[s \ {Pick(s)}]]
      BY <2>1
    <2> QED BY <2>2 DEF IsTable
  <1>3. tab(CHOOSE g : tab(g))
    <2>1. tab(h)
      BY <1>1, <1>2
    <2> HIDE DEF tab
    <2> QED BY <2>1, Zenon
  <1>4. (CHOOSE g : tab(g))[S] = h[S]
    <2>1. IsTable(CHOOSE g : tab(g), a, S)
      BY <1>2, <1>3
    <2> DEFINE k == CHOOSE g : tab(g)
    <2> HIDE DEF h, k
    <2> QED BY <1>1, <2>1, TablesAgree DEF k
  <1>5. MapThenSumSet(LAMBDA p : p[2].amount, S) = (CHOOSE g : tab(g))[S]
    BY DEF MapThenSumSet, MapThenFoldSet, Pick
  <1> QED BY <1>4, <1>5 DEF Total

(* Over one field of snapshots, each with its month. *)
LEMMA PostedTotalsTotal ==
    ASSUME NEW S, IsFiniteSet(S), NEW field, NEW a, \A x \in S : a[x] = x[2].totals[field]
    PROVE  MapThenSumSet(LAMBDA p : p[2].totals[field], S) = Total(a, S)
  <1> DEFINE h == CHOOSE g : IsTable(g, a, S)
             tab(g) == g = [s \in SUBSET S |->
                              IF s = {} THEN 0 ELSE Pick(s)[2].totals[field] + g[s \ {Pick(s)}]]
  <1>1. IsTable(h, a, S)
    BY TableExists
  <1>2. \A g : tab(g) <=> IsTable(g, a, S)
    <2>1. \A s \in SUBSET S : s # {} => a[Pick(s)] = Pick(s)[2].totals[field]
      BY PickIsMember
    <2>2. ASSUME NEW g
          PROVE  [s \in SUBSET S |-> IF s = {} THEN 0
                                     ELSE Pick(s)[2].totals[field] + g[s \ {Pick(s)}]]
                   = [s \in SUBSET S |-> IF s = {} THEN 0
                                         ELSE a[Pick(s)] + g[s \ {Pick(s)}]]
      BY <2>1
    <2> QED BY <2>2 DEF IsTable
  <1>3. tab(CHOOSE g : tab(g))
    <2>1. tab(h)
      BY <1>1, <1>2
    <2> HIDE DEF tab
    <2> QED BY <2>1, Zenon
  <1>4. (CHOOSE g : tab(g))[S] = h[S]
    <2>1. IsTable(CHOOSE g : tab(g), a, S)
      BY <1>2, <1>3
    <2> DEFINE k == CHOOSE g : tab(g)
    <2> HIDE DEF h, k
    <2> QED BY <1>1, <2>1, TablesAgree DEF k
  <1>5. MapThenSumSet(LAMBDA p : p[2].totals[field], S) = (CHOOSE g : tab(g))[S]
    BY DEF MapThenSumSet, MapThenFoldSet, Pick
  <1> QED BY <1>4, <1>5 DEF Total

---------------------------------------------------------------------------
(* The lines of one deal's month.                                          *)

AmountWhen(condition, amount) == IF condition THEN amount ELSE 0

AmountsAreInts(ls) == IsFiniteSet(ls) /\ \A l \in ls : l.amount \in Int

LEMMA SumIsInt ==
    ASSUME NEW ls, AmountsAreInts(ls) PROVE SumAmounts(ls) \in Int
  <1> DEFINE a == [l \in ls |-> l.amount]
  <1>1. \A l \in ls : a[l] = l.amount /\ a[l] \in Int
    BY DEF AmountsAreInts
  <1> HIDE DEF a
  <1> QED BY <1>1, AmountsTotal, TotalInt DEF AmountsAreInts

(* A set of lines and one line of another kind. *)
LEMMA SumWithLine ==
    ASSUME NEW ls, AmountsAreInts(ls),
           NEW condition \in BOOLEAN, NEW kind, NEW line_status, NEW amount \in Int,
           \A l \in ls : l.kind # kind
    PROVE  /\ AmountsAreInts(ls \cup LineWhen(condition, kind, line_status, amount))
           /\ SumAmounts(ls \cup LineWhen(condition, kind, line_status, amount))
                = SumAmounts(ls) + AmountWhen(condition, amount)
  <1> DEFINE z == BaseLine(kind, line_status, amount)
             more == ls \cup LineWhen(condition, kind, line_status, amount)
  <1>1. SumAmounts(ls) \in Int
    BY SumIsInt
  <1>2. CASE condition /\ amount # 0
    <2> DEFINE a == [l \in ls \cup {z} |-> l.amount]
    <2>1. z.amount = amount /\ z.kind = kind
      BY DEF BaseLine
    <2>2. z \notin ls
      BY <2>1
    <2>3. \A l \in ls \cup {z} : a[l] = l.amount /\ a[l] \in Int
      BY <2>1 DEF AmountsAreInts
    <2>4. a[z] = amount
      BY <2>1
    <2> HIDE DEF a, z
    <2>5. IsFiniteSet(ls \cup {z})
      BY FS_AddElement DEF AmountsAreInts
    <2>6. SumAmounts(ls \cup {z}) = Total(a, ls \cup {z})
      BY <2>3, <2>5, AmountsTotal
    <2>7. SumAmounts(ls) = Total(a, ls)
      BY <2>3, AmountsTotal DEF AmountsAreInts
    <2>8. Total(a, ls \cup {z}) = a[z] + Total(a, ls)
      BY <2>2, <2>3, TotalWithMember DEF AmountsAreInts
    <2>9. more = ls \cup {z}
      BY <1>2 DEF LineWhen, z
    <2>10. AmountsAreInts(more)
      BY <2>3, <2>5, <2>9 DEF AmountsAreInts
    <2> HIDE DEF more
    <2>11. SumAmounts(more) = SumAmounts(ls) + AmountWhen(condition, amount)
      BY <1>1, <1>2, <2>4, <2>6, <2>7, <2>8, <2>9 DEF AmountWhen
    <2> QED BY <2>10, <2>11 DEF more
  <1>3. CASE ~(condition /\ amount # 0)
    <2>1. more = ls
      BY <1>3 DEF LineWhen
    <2>2. AmountWhen(condition, amount) = 0
      BY <1>3 DEF AmountWhen
    <2> HIDE DEF more
    <2>3. AmountsAreInts(more) /\ SumAmounts(more) = SumAmounts(ls) + AmountWhen(condition, amount)
      BY <1>1, <2>1, <2>2
    <2> QED BY <2>3 DEF more
  <1> QED BY <1>2, <1>3

LEMMA SumOfNone == AmountsAreInts({}) /\ SumAmounts({}) = 0
  <1> DEFINE a == [l \in {} |-> 0]
  <1>1. \A l \in {} : a[l] = l.amount
    OBVIOUS
  <1>2. SumAmounts({}) = Total(a, {})
    <2> HIDE DEF a
    <2> QED BY <1>1, FS_EmptySet, AmountsTotal
  <1>3. Total(a, {}) = 0
    <2> HIDE DEF a
    <2> QED BY TotalEmpty
  <1> QED BY <1>2, <1>3, FS_EmptySet DEF AmountsAreInts

LEMMA KindOfLineWhen ==
    ASSUME NEW condition, NEW kind, NEW line_status, NEW amount,
           NEW l \in LineWhen(condition, kind, line_status, amount)
    PROVE  l.kind = kind /\ l.status = line_status /\ l.amount = amount
             /\ condition /\ amount # 0
  BY DEF LineWhen, BaseLine

(* One line for each kind, each under its condition. *)
LinesOfKinds(firstSale, recurring, clawback, release, adjustment) ==
    LineWhen(firstSale.due, "first_sale", firstSale.status, firstSale.amount)
    \cup LineWhen(recurring.due, "recurring", recurring.status, recurring.amount)
    \cup LineWhen(clawback.due, "clawback", clawback.status, clawback.amount)
    \cup LineWhen(release.due, "release", release.status, release.amount)
    \cup LineWhen(adjustment.due, "adjustment", adjustment.status, adjustment.amount)

Branches == [due : BOOLEAN, status : LineStatuses, amount : Int]

AmountOf(branch) == AmountWhen(branch.due, branch.amount)

LEMMA SumOfKinds ==
    ASSUME NEW b1 \in Branches, NEW b2 \in Branches, NEW b3 \in Branches,
           NEW b4 \in Branches, NEW b5 \in Branches
    PROVE  /\ AmountsAreInts(LinesOfKinds(b1, b2, b3, b4, b5))
           /\ SumAmounts(LinesOfKinds(b1, b2, b3, b4, b5))
                = AmountOf(b1) + AmountOf(b2) + AmountOf(b3) + AmountOf(b4) + AmountOf(b5)
  <1> DEFINE l1 == LineWhen(b1.due, "first_sale", b1.status, b1.amount)
             l2 == l1 \cup LineWhen(b2.due, "recurring", b2.status, b2.amount)
             l3 == l2 \cup LineWhen(b3.due, "clawback", b3.status, b3.amount)
             l4 == l3 \cup LineWhen(b4.due, "release", b4.status, b4.amount)
             l5 == l4 \cup LineWhen(b5.due, "adjustment", b5.status, b5.amount)
  <1>0. \A b \in Branches : b.due \in BOOLEAN /\ b.amount \in Int /\ AmountOf(b) \in Int
    BY DEF Branches, AmountOf, AmountWhen
  <1>1. AmountsAreInts(l1) /\ SumAmounts(l1) = AmountOf(b1)
    <2>1. l1 = {} \cup l1
      OBVIOUS
    <2>2. AmountsAreInts({} \cup l1) /\ SumAmounts({} \cup l1) = SumAmounts({}) + AmountOf(b1)
      BY <1>0, SumOfNone, SumWithLine DEF AmountOf
    <2> HIDE DEF l1
    <2> QED BY <1>0, <2>1, <2>2, SumOfNone
  <1>2. AmountsAreInts(l2) /\ SumAmounts(l2) = SumAmounts(l1) + AmountOf(b2)
    <2>1. \A l \in l1 : l.kind # "recurring"
      BY KindOfLineWhen
    <2>2. AmountsAreInts(l1) /\ b2.due \in BOOLEAN /\ b2.amount \in Int
      BY <1>0, <1>1
    <2> HIDE DEF l1
    <2> QED BY <2>1, <2>2, SumWithLine DEF AmountOf
  <1>3. AmountsAreInts(l3) /\ SumAmounts(l3) = SumAmounts(l2) + AmountOf(b3)
    <2>1. \A l \in l2 : l.kind # "clawback"
      BY KindOfLineWhen
    <2>2. AmountsAreInts(l2) /\ b3.due \in BOOLEAN /\ b3.amount \in Int
      BY <1>0, <1>2
    <2> HIDE DEF l2
    <2> QED BY <2>1, <2>2, SumWithLine DEF AmountOf
  <1>4. AmountsAreInts(l4) /\ SumAmounts(l4) = SumAmounts(l3) + AmountOf(b4)
    <2>1. \A l \in l3 : l.kind # "release"
      BY KindOfLineWhen
    <2>2. AmountsAreInts(l3) /\ b4.due \in BOOLEAN /\ b4.amount \in Int
      BY <1>0, <1>3
    <2> HIDE DEF l3
    <2> QED BY <2>1, <2>2, SumWithLine DEF AmountOf
  <1>5. AmountsAreInts(l5) /\ SumAmounts(l5) = SumAmounts(l4) + AmountOf(b5)
    <2>1. \A l \in l4 : l.kind # "adjustment"
      BY KindOfLineWhen
    <2>2. AmountsAreInts(l4) /\ b5.due \in BOOLEAN /\ b5.amount \in Int
      BY <1>0, <1>4
    <2> HIDE DEF l4
    <2> QED BY <2>1, <2>2, SumWithLine DEF AmountOf
  <1>6. LinesOfKinds(b1, b2, b3, b4, b5) = l5
    BY DEF LinesOfKinds
  <1> HIDE DEF l1, l2, l3, l4, l5
  <1> QED BY <1>0, <1>1, <1>2, <1>3, <1>4, <1>5, <1>6

(* A branch of which only the lines of some kinds are taken.                *)
Only(kinds, kind, branch) ==
    [due |-> branch.due /\ kind \in kinds, status |-> branch.status, amount |-> branch.amount]

LEMMA OnlyIsBranch ==
    ASSUME NEW branch \in Branches, NEW kinds, NEW kind
    PROVE  /\ Only(kinds, kind, branch) \in Branches
           /\ AmountOf(Only(kinds, kind, branch))
                = AmountWhen(kind \in kinds, AmountOf(branch))
  BY DEF Only, Branches, AmountOf, AmountWhen

LEMMA OnlyOfLine ==
    ASSUME NEW branch \in Branches, NEW kind, NEW kinds
    PROVE  {l \in LineWhen(branch.due, kind, branch.status, branch.amount) : l.kind \in kinds}
             = LineWhen(Only(kinds, kind, branch).due, kind, Only(kinds, kind, branch).status,
                        Only(kinds, kind, branch).amount)
  <1> DEFINE z == BaseLine(kind, branch.status, branch.amount)
             ls == LineWhen(branch.due, kind, branch.status, branch.amount)
             posted == branch.due /\ branch.amount # 0
  <1>1. z.kind = kind
    BY DEF BaseLine
  <1>2. ls = IF posted THEN {z} ELSE {}
    BY DEF LineWhen
  <1>3. /\ Only(kinds, kind, branch).due <=> branch.due /\ kind \in kinds
        /\ Only(kinds, kind, branch).status = branch.status
        /\ Only(kinds, kind, branch).amount = branch.amount
    BY DEF Only
  <1>4. LineWhen(Only(kinds, kind, branch).due, kind, Only(kinds, kind, branch).status,
                 Only(kinds, kind, branch).amount)
          = IF posted /\ kind \in kinds THEN {z} ELSE {}
    BY <1>3 DEF LineWhen
  <1>5. {l \in ls : l.kind \in kinds} = IF posted /\ kind \in kinds THEN {z} ELSE {}
    <2> HIDE DEF z, ls, posted
    <2> QED BY <1>1, <1>2
  <1> QED BY <1>4, <1>5

(* The branches of calculateDealCommissionLines. *)
Started(deal, month) == deal.startedAt < PeriodEnd(month)
FirstSaleBranch(deal, policy, month) ==
    [due |-> Started(deal, month) /\ FirstSaleDue(deal, policy, month),
     status |-> EarnedOrHeld(deal), amount |-> deal.firstSale]
RecurringBranch(deal, policy, month) ==
    [due |-> Started(deal, month) /\ RecurringDue(deal, policy, month),
     status |-> EarnedOrHeld(deal), amount |-> deal.recurring]
ClawbackBranch(deal, policy, month) ==
    [due |-> Started(deal, month) /\ ClawbackDue(deal, policy, month),
     status |-> "earned", amount |-> -deal.firstSale]
ReleaseBranch(deal, month) ==
    [due |-> Started(deal, month) /\ ReleaseDue(deal),
     status |-> "released", amount |-> deal.heldToRelease]
AdjustmentBranch(deal, month) ==
    [due |-> Started(deal, month), status |-> "earned", amount |-> deal.adjustment]

DealOK(deal) ==
    /\ deal.startedAt \in Int
    /\ deal.pastDue \in BOOLEAN
    /\ deal.firstSale \in Int
    /\ deal.recurring \in Int
    /\ deal.heldToRelease \in Int
    /\ deal.adjustment \in Int

LEMMA BranchesAreBranches ==
    ASSUME NEW deal, DealOK(deal), NEW policy, NEW month \in Int
    PROVE  /\ FirstSaleBranch(deal, policy, month) \in Branches
           /\ RecurringBranch(deal, policy, month) \in Branches
           /\ ClawbackBranch(deal, policy, month) \in Branches
           /\ ReleaseBranch(deal, month) \in Branches
           /\ AdjustmentBranch(deal, month) \in Branches
  <1>1. /\ FirstSaleDue(deal, policy, month) \in BOOLEAN
        /\ RecurringDue(deal, policy, month) \in BOOLEAN
        /\ ClawbackDue(deal, policy, month) \in BOOLEAN
        /\ ReleaseDue(deal) \in BOOLEAN
    BY DEF FirstSaleDue, RecurringDue, ClawbackDue, ReleaseDue
  <1>2. EarnedOrHeld(deal) \in LineStatuses
    BY DEF EarnedOrHeld, LineStatuses
  <1>3. Started(deal, month) \in BOOLEAN
    BY DEF Started
  <1> QED BY <1>1, <1>2, <1>3 DEF DealOK, Branches, LineStatuses, FirstSaleBranch,
             RecurringBranch, ClawbackBranch, ReleaseBranch, AdjustmentBranch

LEMMA DealLinesOfKinds ==
    ASSUME NEW deal, DealOK(deal), NEW policy, NEW month \in Int
    PROVE  CalculateDealLines(deal, policy, month)
             = LinesOfKinds(FirstSaleBranch(deal, policy, month),
                            RecurringBranch(deal, policy, month),
                            ClawbackBranch(deal, policy, month),
                            ReleaseBranch(deal, month),
                            AdjustmentBranch(deal, month))
  <1>1. PeriodEnd(month) \in Int
    BY DaysPerMonthAssumption DEF PeriodEnd
  <1>2. Started(deal, month) <=> ~(deal.startedAt >= PeriodEnd(month))
    BY <1>1 DEF Started, DealOK
  <1>3. CASE Started(deal, month)
    BY <1>2, <1>3 DEF CalculateDealLines, LinesOfKinds, FirstSaleBranch, RecurringBranch,
                ClawbackBranch, ReleaseBranch, AdjustmentBranch, LineWhen
  <1>4. CASE ~Started(deal, month)
    BY <1>2, <1>4 DEF CalculateDealLines, LinesOfKinds, FirstSaleBranch, RecurringBranch,
                ClawbackBranch, ReleaseBranch, AdjustmentBranch, LineWhen
  <1> QED BY <1>3, <1>4

(* What the lines of some kinds add up to. *)
KindsTotal(ls, kinds) == SumAmounts({l \in ls : l.kind \in kinds})

(* It is the sum of the branches of those kinds. *)
LEMMA SumOfSelected ==
    ASSUME NEW b1 \in Branches, NEW b2 \in Branches, NEW b3 \in Branches,
           NEW b4 \in Branches, NEW b5 \in Branches, NEW kinds
    PROVE  KindsTotal(LinesOfKinds(b1, b2, b3, b4, b5), kinds)
             = AmountWhen("first_sale" \in kinds, AmountOf(b1))
               + AmountWhen("recurring" \in kinds, AmountOf(b2))
               + AmountWhen("clawback" \in kinds, AmountOf(b3))
               + AmountWhen("release" \in kinds, AmountOf(b4))
               + AmountWhen("adjustment" \in kinds, AmountOf(b5))
  <1> DEFINE l1 == LineWhen(b1.due, "first_sale", b1.status, b1.amount)
             l2 == LineWhen(b2.due, "recurring", b2.status, b2.amount)
             l3 == LineWhen(b3.due, "clawback", b3.status, b3.amount)
             l4 == LineWhen(b4.due, "release", b4.status, b4.amount)
             l5 == LineWhen(b5.due, "adjustment", b5.status, b5.amount)
             o1 == Only(kinds, "first_sale", b1)
             o2 == Only(kinds, "recurring", b2)
             o3 == Only(kinds, "clawback", b3)
             o4 == Only(kinds, "release", b4)
             o5 == Only(kinds, "adjustment", b5)
             all == LinesOfKinds(b1, b2, b3, b4, b5)
  <1>1. all = l1 \cup l2 \cup l3 \cup l4 \cup l5
    BY DEF LinesOfKinds
  <1>2. {l \in l1 : l.kind \in kinds} = LineWhen(o1.due, "first_sale", o1.status, o1.amount)
    BY OnlyOfLine
  <1>3. {l \in l2 : l.kind \in kinds} = LineWhen(o2.due, "recurring", o2.status, o2.amount)
    BY OnlyOfLine
  <1>4. {l \in l3 : l.kind \in kinds} = LineWhen(o3.due, "clawback", o3.status, o3.amount)
    BY OnlyOfLine
  <1>5. {l \in l4 : l.kind \in kinds} = LineWhen(o4.due, "release", o4.status, o4.amount)
    BY OnlyOfLine
  <1>6. {l \in l5 : l.kind \in kinds} = LineWhen(o5.due, "adjustment", o5.status, o5.amount)
    BY OnlyOfLine
  <1>7. {l \in all : l.kind \in kinds}
          = {l \in l1 : l.kind \in kinds} \cup {l \in l2 : l.kind \in kinds}
            \cup {l \in l3 : l.kind \in kinds} \cup {l \in l4 : l.kind \in kinds}
            \cup {l \in l5 : l.kind \in kinds}
    <2> HIDE DEF l1, l2, l3, l4, l5, all
    <2> QED BY <1>1
  <1>8. /\ o1 \in Branches /\ AmountOf(o1) = AmountWhen("first_sale" \in kinds, AmountOf(b1))
        /\ o2 \in Branches /\ AmountOf(o2) = AmountWhen("recurring" \in kinds, AmountOf(b2))
        /\ o3 \in Branches /\ AmountOf(o3) = AmountWhen("clawback" \in kinds, AmountOf(b3))
        /\ o4 \in Branches /\ AmountOf(o4) = AmountWhen("release" \in kinds, AmountOf(b4))
        /\ o5 \in Branches /\ AmountOf(o5) = AmountWhen("adjustment" \in kinds, AmountOf(b5))
    BY OnlyIsBranch
  <1> HIDE DEF l1, l2, l3, l4, l5, o1, o2, o3, o4, o5, all
  <1>9. {l \in all : l.kind \in kinds} = LinesOfKinds(o1, o2, o3, o4, o5)
    BY <1>2, <1>3, <1>4, <1>5, <1>6, <1>7 DEF LinesOfKinds
  <1>10. SumAmounts(LinesOfKinds(o1, o2, o3, o4, o5))
           = AmountOf(o1) + AmountOf(o2) + AmountOf(o3) + AmountOf(o4) + AmountOf(o5)
    BY <1>8, SumOfKinds
  <1> QED BY <1>8, <1>9, <1>10 DEF all, KindsTotal

LEMMA StatusOfKind ==
    ASSUME NEW deal, NEW policy, NEW month,
           NEW l \in CalculateDealLines(deal, policy, month)
    PROVE  \/ /\ l.kind = "first_sale" /\ l.status = EarnedOrHeld(deal)
              /\ l.amount = deal.firstSale /\ FirstSaleDue(deal, policy, month)
           \/ /\ l.kind = "recurring" /\ l.status = EarnedOrHeld(deal)
              /\ l.amount = deal.recurring /\ RecurringDue(deal, policy, month)
           \/ /\ l.kind = "clawback" /\ l.status = "earned"
              /\ l.amount = -deal.firstSale /\ ClawbackDue(deal, policy, month)
           \/ /\ l.kind = "release" /\ l.status = "released"
              /\ l.amount = deal.heldToRelease /\ ReleaseDue(deal)
           \/ /\ l.kind = "adjustment" /\ l.status = "earned"
              /\ l.amount = deal.adjustment
  <1>1. \/ l \in LineWhen(FirstSaleDue(deal, policy, month), "first_sale",
                          EarnedOrHeld(deal), deal.firstSale)
        \/ l \in LineWhen(RecurringDue(deal, policy, month), "recurring",
                          EarnedOrHeld(deal), deal.recurring)
        \/ l \in LineWhen(ClawbackDue(deal, policy, month), "clawback", "earned",
                          -deal.firstSale)
        \/ l \in LineWhen(ReleaseDue(deal), "release", "released", deal.heldToRelease)
        \/ l \in LineWhen(TRUE, "adjustment", "earned", deal.adjustment)
    BY DEF CalculateDealLines
  <1>2. CASE l \in LineWhen(FirstSaleDue(deal, policy, month), "first_sale",
                            EarnedOrHeld(deal), deal.firstSale)
    BY <1>2, KindOfLineWhen
  <1>3. CASE l \in LineWhen(RecurringDue(deal, policy, month), "recurring",
                            EarnedOrHeld(deal), deal.recurring)
    BY <1>3, KindOfLineWhen
  <1>4. CASE l \in LineWhen(ClawbackDue(deal, policy, month), "clawback", "earned",
                            -deal.firstSale)
    BY <1>4, KindOfLineWhen
  <1>5. CASE l \in LineWhen(ReleaseDue(deal), "release", "released", deal.heldToRelease)
    BY <1>5, KindOfLineWhen
  <1>6. CASE l \in LineWhen(TRUE, "adjustment", "earned", deal.adjustment)
    BY <1>6 DEF LineWhen, BaseLine
  <1> QED BY <1>1, <1>2, <1>3, <1>4, <1>5, <1>6

(* What one deal's month adds up to. *)
LEMMA DealSums ==
    ASSUME NEW deal, DealOK(deal), NEW policy, NEW month \in Int
    PROVE  LET ls == CalculateDealLines(deal, policy, month)
               fresh == AmountWhen(FirstSaleBranch(deal, policy, month).due, deal.firstSale)
                        + AmountWhen(RecurringBranch(deal, policy, month).due, deal.recurring)
               released == AmountWhen(ReleaseBranch(deal, month).due, deal.heldToRelease)
               others == AmountWhen(ClawbackBranch(deal, policy, month).due, -deal.firstSale)
                         + AmountWhen(Started(deal, month), deal.adjustment)
           IN  /\ AmountsAreInts(ls)
               /\ EarnedOf(ls) = AmountWhen(~deal.pastDue, fresh) + released + others
               /\ SumAmounts({l \in ls : l.status = "held"}) = AmountWhen(deal.pastDue, fresh)
               /\ SumAmounts({l \in ls : l.kind = "release"}) = released
  <1> DEFINE ls == CalculateDealLines(deal, policy, month)
             b1 == FirstSaleBranch(deal, policy, month)
             b2 == RecurringBranch(deal, policy, month)
             b3 == ClawbackBranch(deal, policy, month)
             b4 == ReleaseBranch(deal, month)
             b5 == AdjustmentBranch(deal, month)
  <1>1. b1 \in Branches /\ b2 \in Branches /\ b3 \in Branches /\ b4 \in Branches
          /\ b5 \in Branches
    BY BranchesAreBranches
  <1>2. ls = LinesOfKinds(b1, b2, b3, b4, b5)
    BY DealLinesOfKinds
  <1>3. \A l \in ls :
           \/ l.kind = "first_sale" /\ l.status = EarnedOrHeld(deal)
           \/ l.kind = "recurring" /\ l.status = EarnedOrHeld(deal)
           \/ l.kind = "clawback" /\ l.status = "earned"
           \/ l.kind = "release" /\ l.status = "released"
           \/ l.kind = "adjustment" /\ l.status = "earned"
    BY StatusOfKind
  <1>4. EarnedOrHeld(deal) = IF deal.pastDue THEN "held" ELSE "earned"
    BY DEF EarnedOrHeld
  <1>5. /\ b1.due \in BOOLEAN /\ b2.due \in BOOLEAN /\ b3.due \in BOOLEAN
        /\ b4.due \in BOOLEAN /\ b5.due \in BOOLEAN
    BY <1>1 DEF Branches
  <1>6. /\ b1.amount = deal.firstSale /\ b2.amount = deal.recurring
        /\ b3.amount = -deal.firstSale /\ b4.amount = deal.heldToRelease
        /\ b5.amount = deal.adjustment /\ b5.due = Started(deal, month)
    BY DEF FirstSaleBranch, RecurringBranch, ClawbackBranch, ReleaseBranch, AdjustmentBranch
  <1>7. deal.pastDue \in BOOLEAN /\ deal.firstSale \in Int /\ deal.recurring \in Int
          /\ deal.heldToRelease \in Int /\ deal.adjustment \in Int
    BY DEF DealOK
  <1> HIDE DEF ls, b1, b2, b3, b4, b5
  <1>8. AmountsAreInts(ls)
    BY <1>1, <1>2, SumOfKinds
  <1>9. \A kinds : KindsTotal(ls, kinds)
                     = AmountWhen("first_sale" \in kinds, AmountOf(b1))
                       + AmountWhen("recurring" \in kinds, AmountOf(b2))
                       + AmountWhen("clawback" \in kinds, AmountOf(b3))
                       + AmountWhen("release" \in kinds, AmountOf(b4))
                       + AmountWhen("adjustment" \in kinds, AmountOf(b5))
    BY <1>1, <1>2, SumOfSelected
  <1>10. /\ AmountOf(b1) = AmountWhen(b1.due, deal.firstSale) /\ AmountOf(b1) \in Int
         /\ AmountOf(b2) = AmountWhen(b2.due, deal.recurring) /\ AmountOf(b2) \in Int
         /\ AmountOf(b3) = AmountWhen(b3.due, -deal.firstSale) /\ AmountOf(b3) \in Int
         /\ AmountOf(b4) = AmountWhen(b4.due, deal.heldToRelease) /\ AmountOf(b4) \in Int
         /\ AmountOf(b5) = AmountWhen(Started(deal, month), deal.adjustment)
         /\ AmountOf(b5) \in Int
    BY <1>5, <1>6, <1>7 DEF AmountOf, AmountWhen
  <1>11. EarnedOf(ls) = AmountWhen(~deal.pastDue, AmountOf(b1) + AmountOf(b2))
                          + AmountOf(b4) + (AmountOf(b3) + AmountOf(b5))
    <2>1. CASE deal.pastDue
      <3>1. {l \in ls : l.status # "held"}
              = {l \in ls : l.kind \in {"clawback", "release", "adjustment"}}
        BY <1>3, <1>4, <2>1
      <3>2. EarnedOf(ls) = KindsTotal(ls, {"clawback", "release", "adjustment"})
        BY <3>1 DEF EarnedOf, KindsTotal
      <3>3. EarnedOf(ls) = 0 + 0 + AmountOf(b3) + AmountOf(b4) + AmountOf(b5)
        BY <1>9, <3>2 DEF AmountWhen
      <3>4. AmountWhen(~deal.pastDue, AmountOf(b1) + AmountOf(b2)) = 0
        BY <2>1 DEF AmountWhen
      <3> QED BY <1>10, <3>3, <3>4
    <2>2. CASE ~deal.pastDue
      <3>1. {l \in ls : l.status # "held"} = {l \in ls : l.kind \in LineKinds}
        BY <1>3, <1>4, <2>2 DEF LineKinds
      <3>2. EarnedOf(ls) = KindsTotal(ls, LineKinds)
        BY <3>1 DEF EarnedOf, KindsTotal
      <3>3. EarnedOf(ls) = AmountOf(b1) + AmountOf(b2) + AmountOf(b3) + AmountOf(b4)
                             + AmountOf(b5)
        BY <1>9, <3>2 DEF AmountWhen, LineKinds
      <3>4. AmountWhen(~deal.pastDue, AmountOf(b1) + AmountOf(b2)) = AmountOf(b1) + AmountOf(b2)
        BY <2>2 DEF AmountWhen
      <3> QED BY <1>10, <3>3, <3>4
    <2> QED BY <2>1, <2>2
  <1>12. SumAmounts({l \in ls : l.status = "held"})
           = AmountWhen(deal.pastDue, AmountOf(b1) + AmountOf(b2))
    <2>1. CASE deal.pastDue
      <3>1. {l \in ls : l.status = "held"} = {l \in ls : l.kind \in {"first_sale", "recurring"}}
        BY <1>3, <1>4, <2>1
      <3>2. SumAmounts({l \in ls : l.status = "held"}) = KindsTotal(ls, {"first_sale", "recurring"})
        BY <3>1 DEF KindsTotal
      <3> QED BY <1>9, <1>10, <2>1, <3>2 DEF AmountWhen
    <2>2. CASE ~deal.pastDue
      <3>1. {l \in ls : l.status = "held"} = {l \in ls : l.kind \in {}}
        BY <1>3, <1>4, <2>2
      <3>2. SumAmounts({l \in ls : l.status = "held"}) = KindsTotal(ls, {})
        BY <3>1 DEF KindsTotal
      <3> QED BY <1>9, <1>10, <2>2, <3>2 DEF AmountWhen
    <2> QED BY <2>1, <2>2
  <1>13. SumAmounts({l \in ls : l.kind = "release"}) = AmountOf(b4)
    <2>1. {l \in ls : l.kind = "release"} = {l \in ls : l.kind \in {"release"}}
      OBVIOUS
    <2>2. SumAmounts({l \in ls : l.kind = "release"}) = KindsTotal(ls, {"release"})
      BY <2>1 DEF KindsTotal
    <2> QED BY <1>9, <1>10, <2>2 DEF AmountWhen
  <1> QED BY <1>8, <1>10, <1>11, <1>12, <1>13 DEF ls, b1, b2, b3, b4
===========================================================================
