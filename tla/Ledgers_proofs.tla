---------------------------- MODULE Ledgers_proofs ----------------------------
(***************************************************************************)
(* Proofs about the two ledgers that count: TestBudget, whose seconds are  *)
(* charged before a runner starts, and FailureLedger, whose counts and     *)
(* entries move to archives when they no longer fit; and about Delivery,   *)
(* whose states are archived as it starts over.                            *)
(* Sums, chains and counts are recursive data; what is said of them is     *)
(* proved by taking a minimal counterexample.                              *)
(***************************************************************************)
EXTENDS TestBudget, FailureLedger, Delivery, TLAPS, FiniteSetTheorems, SequenceTheorems

(***************************************************************************)
(* Totals of seconds.  The library's induction theorems take a predicate   *)
(* as parameter; what is used in their place is that among the subsets of  *)
(* a finite set that break a law one is minimal.                           *)
(***************************************************************************)
\* How a total is built: an element is picked and added to what the rest makes.
Pick(s) == CHOOSE x \in s : TRUE
Rest(s) == s \ {Pick(s)}
Adds(g, f, S) ==
    g = [s \in SUBSET S |-> IF s = {} THEN 0 ELSE f[Pick(s)] + g[Rest(s)]]

LEMMA TotalIs == \A f, S : Total(f, S) = (CHOOSE g : Adds(g, f, S))[S]
  BY DEF Total, MapThenSumSet, MapThenFoldSet, Pick, Rest, Adds

LEMMA Picked == \A s : s # {} => Pick(s) \in s /\ Rest(s) \subseteq s /\ Rest(s) # s
  BY DEF Pick, Rest

\* Induction over the subsets of a finite set: of the subsets in Bad one is minimal.
LEMMA MinimalSubset ==
  ASSUME NEW S, IsFiniteSet(S), NEW Bad \in SUBSET (SUBSET S), Bad # {}
  PROVE  \E s \in Bad : \A t \in Bad : t \subseteq s => t = s
<1>1. IsWellFoundedOn(StrictSubsetOrdering(S), SUBSET S)
  BY FS_StrictSubsetOrderingWellFounded, FS_FiniteSubsetsOfFinite
<1>2. PICK s \in Bad : \A t \in Bad : ~ (<<t, s>> \in StrictSubsetOrdering(S))
  BY <1>1, WFMin
<1>3. ASSUME NEW t \in Bad, t \subseteq s PROVE t = s
  <2>1. ~ (<<t, s>> \in StrictSubsetOrdering(S))
    BY <1>2
  <2> QED
    BY <1>3, <2>1 DEF StrictSubsetOrdering
<1> QED
  BY <1>3

LEMMA AddsOnce ==
  ASSUME NEW S, IsFiniteSet(S), NEW f, NEW g, NEW h, Adds(g, f, S), Adds(h, f, S)
  PROVE  \A s \in SUBSET S : g[s] = h[s]
<1> DEFINE Bad == {s \in SUBSET S : g[s] # h[s]}
<1> SUFFICES ASSUME Bad # {} PROVE FALSE
  OBVIOUS
<1>1. PICK s \in Bad : \A t \in Bad : t \subseteq s => t = s
  <2>1. Bad \in SUBSET (SUBSET S)
    OBVIOUS
  <2> HIDE DEF Bad
  <2> QED
    BY <2>1, MinimalSubset
<1>2. s # {}
  BY DEF Adds
<1>3. g[Rest(s)] = h[Rest(s)]
  BY <1>1, <1>2, Picked
<1> QED
  BY <1>1, <1>2, <1>3 DEF Adds

\* The rule by which a total is built holds of it.
LEMMA TotalRule ==
  ASSUME NEW f, NEW S, IsFiniteSet(S)
  PROVE  Total(f, S) = IF S = {} THEN 0 ELSE f[Pick(S)] + Total(f, Rest(S))
<1> DEFINE Holds(s) == Total(f, s) = IF s = {} THEN 0 ELSE f[Pick(s)] + Total(f, Rest(s))
<1> DEFINE Bad == {s \in SUBSET S : ~Holds(s)}
<1> SUFFICES ASSUME Bad # {} PROVE FALSE
  OBVIOUS
<1>1. PICK s \in Bad : \A t \in Bad : t \subseteq s => t = s
  <2>1. Bad \in SUBSET (SUBSET S)
    OBVIOUS
  <2> HIDE DEF Bad
  <2> QED
    BY <2>1, MinimalSubset
<1>2. IsFiniteSet(s)
  BY FS_Subset
<1> DEFINE By(t) == IF t = {} THEN 0 ELSE f[Pick(t)] + Total(f, Rest(t))
<1> DEFINE h == [t \in SUBSET s |-> By(t)]
<1>3. \A t \in SUBSET s : t # s => h[t] = Total(f, t)
  BY <1>1
<1>4. \A t \in SUBSET s : h[t] = IF t = {} THEN 0 ELSE f[Pick(t)] + h[Rest(t)]
  <2> TAKE t \in SUBSET s
  <2>1. CASE t = {}
    BY <2>1
  <2>2. CASE t # {}
    <3>1. Rest(t) \in SUBSET s /\ Rest(t) # s
      BY <2>2, Picked
    <3>2. h[Rest(t)] = Total(f, Rest(t))
      BY <1>3, <3>1
    <3> QED
      BY <2>2, <3>2
  <2> QED
    BY <2>1, <2>2
<1>5. Adds(h, f, s)
  <2> HIDE DEF By
  <2>1. h = [t \in SUBSET s |-> h[t]]
    OBVIOUS
  <2> HIDE DEF h
  <2> QED
    BY <1>4, <2>1 DEF Adds
<1>6. \A t \in SUBSET s : (CHOOSE g : Adds(g, f, s))[t] = h[t]
  <2>1. Adds(CHOOSE g : Adds(g, f, s), f, s)
    <3> HIDE DEF h
    <3> QED BY <1>5
  <2> HIDE DEF h
  <2> QED
    BY <1>2, <1>5, <2>1, AddsOnce
<1>7. Total(f, s) = By(s)
  <2>1. (CHOOSE g : Adds(g, f, s))[s] = h[s]
     BY <1>6
  <2> HIDE DEF By
  <2> QED
  BY <2>1, TotalIs
<1> QED
  BY <1>1, <1>7


\* Totals are sums: in any order, over any partition, element by element.
LEMMA TotalEmpty == \A f : Total(f, {}) = 0
  BY TotalRule, FS_EmptySet

LEMMA TotalType ==
  ASSUME NEW S, IsFiniteSet(S), NEW f, \A x \in S : f[x] \in Nat
  PROVE  Total(f, S) \in Nat
<1> DEFINE Bad == {s \in SUBSET S : Total(f, s) \notin Nat}
<1> SUFFICES ASSUME Bad # {} PROVE FALSE
  OBVIOUS
<1>1. PICK s \in Bad : \A t \in Bad : t \subseteq s => t = s
  <2>1. Bad \in SUBSET (SUBSET S)
    OBVIOUS
  <2> HIDE DEF Bad
  <2> QED
    BY <2>1, MinimalSubset
<1>2. IsFiniteSet(s)
  BY FS_Subset
<1>3. s # {}
  <2>1. Total(f, {}) \in Nat /\ Total(f, s) \notin Nat
    BY TotalEmpty
  <2> QED
    BY <2>1
<1>4. Total(f, Rest(s)) \in Nat
  BY <1>1, <1>3, Picked
<1>5. Total(f, s) = f[Pick(s)] + Total(f, Rest(s))
  BY <1>2, <1>3, TotalRule
<1>6. f[Pick(s)] \in Nat
  BY <1>3, Picked
<1> QED
  BY <1>1, <1>4, <1>5, <1>6

LEMMA TotalWithout ==
  ASSUME NEW S, IsFiniteSet(S), NEW f, \A x \in S : f[x] \in Nat
  PROVE  \A x \in S : Total(f, S) = f[x] + Total(f, S \ {x})
<1> DEFINE Bad == {s \in SUBSET S : \E x \in s : Total(f, s) # f[x] + Total(f, s \ {x})}
<1> SUFFICES ASSUME Bad # {} PROVE FALSE
  OBVIOUS
<1>1. PICK s \in Bad : \A t \in Bad : t \subseteq s => t = s
  <2>1. Bad \in SUBSET (SUBSET S)
    OBVIOUS
  <2> HIDE DEF Bad
  <2> QED
    BY <2>1, MinimalSubset
<1>2. PICK x \in s : Total(f, s) # f[x] + Total(f, s \ {x})
  OBVIOUS
<1> DEFINE y == Pick(s)
<1>3. IsFiniteSet(s) /\ s # {} /\ y \in s /\ x \in S /\ y \in S
  BY FS_Subset, Picked
<1>4. Total(f, s) = f[y] + Total(f, s \ {y})
  BY <1>3, TotalRule DEF Rest
<1>5. x # y
  BY <1>2, <1>4
<1>6. s \ {y} \notin Bad /\ s \ {x} \notin Bad
  BY <1>1, <1>3
<1>7. Total(f, s \ {y}) = f[x] + Total(f, (s \ {y}) \ {x})
  BY <1>5, <1>6
<1>8. Total(f, s \ {x}) = f[y] + Total(f, (s \ {x}) \ {y})
  BY <1>3, <1>5, <1>6
<1>9. (s \ {x}) \ {y} = (s \ {y}) \ {x}
  OBVIOUS
<1>10. Total(f, (s \ {x}) \ {y}) \in Nat
  <2>1. IsFiniteSet((s \ {x}) \ {y})
    BY <1>3, FS_Subset
  <2> QED
    BY <2>1, TotalType
<1>11. f[x] \in Nat /\ f[y] \in Nat
  BY <1>3
<1>12. Total(f, s) = f[x] + Total(f, s \ {x})
  <2>1. PICK rest \in Nat : rest = Total(f, (s \ {x}) \ {y})
    BY <1>10
  <2>2. Total(f, s \ {y}) = f[x] + rest
    BY <1>7, <1>9, <2>1
  <2>3. Total(f, s \ {x}) = f[y] + rest
    BY <1>8, <2>1
  <2> HIDE DEF y, Bad
  <2> QED
    BY <1>4, <1>11, <2>2, <2>3
<1> QED
  BY <1>2, <1>12

LEMMA TotalSame ==
  ASSUME NEW S, IsFiniteSet(S), NEW f, NEW g, \A x \in S : f[x] = g[x]
  PROVE  Total(f, S) = Total(g, S)
<1> DEFINE Bad == {s \in SUBSET S : Total(f, s) # Total(g, s)}
<1> SUFFICES ASSUME Bad # {} PROVE FALSE
  OBVIOUS
<1>1. PICK s \in Bad : \A t \in Bad : t \subseteq s => t = s
  <2>1. Bad \in SUBSET (SUBSET S)
    OBVIOUS
  <2> HIDE DEF Bad
  <2> QED
    BY <2>1, MinimalSubset
<1>2. IsFiniteSet(s)
  BY FS_Subset
<1>3. s # {}
  BY <1>1, TotalEmpty
<1>4. Total(f, Rest(s)) = Total(g, Rest(s))
  BY <1>1, <1>3, Picked
<1>5. f[Pick(s)] = g[Pick(s)]
  BY <1>3, Picked
<1>6. Total(f, s) = f[Pick(s)] + Total(f, Rest(s)) /\ Total(g, s) = g[Pick(s)] + Total(g, Rest(s))
  BY <1>2, <1>3, TotalRule
<1> QED
  BY <1>1, <1>4, <1>5, <1>6

LEMMA TotalSplit ==
  ASSUME NEW S, IsFiniteSet(S), NEW K \in SUBSET S, NEW f, \A x \in S : f[x] \in Nat
  PROVE  Total(f, S) = Total(f, K) + Total(f, S \ K)
<1> DEFINE Bad == {s \in SUBSET S : K \subseteq s /\ Total(f, s) # Total(f, K) + Total(f, s \ K)}
<1> SUFFICES ASSUME Bad # {} PROVE FALSE
  OBVIOUS
<1>1. PICK s \in Bad : \A t \in Bad : t \subseteq s => t = s
  <2>1. Bad \in SUBSET (SUBSET S)
    OBVIOUS
  <2> HIDE DEF Bad
  <2> QED
    BY <2>1, MinimalSubset
<1>2. IsFiniteSet(s) /\ IsFiniteSet(K)
  BY FS_Subset
<1>3. Total(f, K) \in Nat
  BY <1>2, TotalType
<1>4. CASE s = K
  <2>1. s \ K = {}
    BY <1>4
  <2>2. Total(f, s \ K) = 0
    BY <2>1, TotalEmpty
  <2>3. Total(f, s) = Total(f, K) + Total(f, s \ K)
    BY <1>3, <1>4, <2>2
  <2> QED
    BY <1>1, <2>3
<1>5. ASSUME NEW x \in s \ K PROVE FALSE
  <2>1. s \ {x} \notin Bad
    BY <1>1, <1>5
  <2>2. Total(f, s \ {x}) = Total(f, K) + Total(f, (s \ {x}) \ K)
    BY <1>5, <2>1
  <2>3. Total(f, s) = f[x] + Total(f, s \ {x})
    BY <1>2, <1>5, TotalWithout
  <2>4. IsFiniteSet(s \ K) /\ \A z \in s \ K : f[z] \in Nat
    BY <1>2, FS_Subset
  <2>5. Total(f, s \ K) = f[x] + Total(f, (s \ K) \ {x})
    BY <1>5, <2>4, TotalWithout
  <2>6. (s \ {x}) \ K = (s \ K) \ {x}
    OBVIOUS
  <2>7. Total(f, (s \ K) \ {x}) \in Nat
    <3>1. IsFiniteSet((s \ K) \ {x})
      BY <2>4, FS_Subset
    <3> QED
      BY <2>4, <3>1, TotalType
  <2>8. f[x] \in Nat
    BY <1>5
  <2> QED
    BY <1>1, <1>3, <2>2, <2>3, <2>5, <2>6, <2>7, <2>8
<1> QED
  BY <1>1, <1>4, <1>5

LEMMA TotalWith ==
  ASSUME NEW S, IsFiniteSet(S), NEW x, x \notin S, NEW f, \A y \in S \cup {x} : f[y] \in Nat
  PROVE  Total(f, S \cup {x}) = Total(f, S) + f[x]
<1>1. IsFiniteSet(S \cup {x})
  BY FS_AddElement
<1>2. Total(f, S \cup {x}) = f[x] + Total(f, (S \cup {x}) \ {x})
  BY <1>1, TotalWithout
<1>3. (S \cup {x}) \ {x} = S
  OBVIOUS
<1>4. Total(f, S \cup {x}) = f[x] + Total(f, S)
  BY <1>2, <1>3, Zenon
<1>5. Total(f, S) \in Nat
  BY TotalType
<1> QED
  BY <1>4, <1>5

LEMMA TotalChanged ==
  ASSUME NEW S, IsFiniteSet(S), NEW x \in S, NEW f, NEW g,
         \A y \in S : f[y] \in Nat /\ g[y] \in Nat,
         \A y \in S \ {x} : g[y] = f[y]
  PROVE  Total(g, S) = Total(f, S) - f[x] + g[x]
<1>1. IsFiniteSet(S \ {x})
  BY FS_Subset
<1>2. Total(g, S \ {x}) = Total(f, S \ {x})
  BY <1>1, TotalSame
<1>3. Total(f, S \ {x}) \in Nat
  BY <1>1, TotalType
<1>4. Total(f, S) = f[x] + Total(f, S \ {x}) /\ Total(g, S) = g[x] + Total(g, S \ {x})
  BY TotalWithout
<1> QED
  BY <1>2, <1>3, <1>4

LEMMA TotalZero ==
  ASSUME NEW S, IsFiniteSet(S), NEW f, \A x \in S : f[x] = 0
  PROVE  Total(f, S) = 0
<1> DEFINE Bad == {s \in SUBSET S : Total(f, s) # 0}
<1> SUFFICES ASSUME Bad # {} PROVE FALSE
  OBVIOUS
<1>1. PICK s \in Bad : \A t \in Bad : t \subseteq s => t = s
  <2>1. Bad \in SUBSET (SUBSET S)
    OBVIOUS
  <2> HIDE DEF Bad
  <2> QED
    BY <2>1, MinimalSubset
<1>2. IsFiniteSet(s) /\ s # {}
  BY <1>1, FS_Subset, TotalEmpty
<1>3. Total(f, Rest(s)) = 0
  BY <1>1, <1>2, Picked
<1>4. f[Pick(s)] = 0
  BY <1>2, Picked
<1>5. Total(f, s) = f[Pick(s)] + Total(f, Rest(s))
  BY <1>2, TotalRule
<1> QED
  BY <1>1, <1>3, <1>4, <1>5

(***************************************************************************)
(* TestBudget: the invariant.  A registry lives in up to three places, and *)
(* whatever is moved between them is sound; that it counts every launch is *)
(* claimed only of the budget of the task in TASK, and of what a start has *)
(* backed up as long as nobody wrote over it.                              *)
(***************************************************************************)
\* The registries that may become the one in the file.
Current == {registry} \cup (IF held = None THEN {} ELSE {held.registry})
Versions == Current \cup (IF start = None THEN {} ELSE {start.backup})

\* What holds of the budget of a candidate in every version.
Sound(e, c) ==
    /\ e \in Budget
    /\ \A p \in e.active :
          pc[p] \notin {"idle", "loaded"} /\ args[p].task = c /\ Known(e, args[p].run)
    /\ e.allowance # None => e.active = {} /\ e.failures = 0
    /\ Cardinality(KnownRuns(e)) <= 1 + decisions[c]
    /\ e.failures = 0 /\ CodeRuns(e) = {} => Cardinality(KnownRuns(e)) <= decisions[c]
    /\ e.consumed + Reserved(e) <= Cap + Total(Overrun, Launches(c))

\* The budget has seen every launch, and none but these.
Faithful(e, c) ==
    /\ \A p \in e.active : due[p] = args[p].timeout
    /\ e.consumed + Reserved(e) = Total(due, Launches(c))
    /\ KnownRuns(e) = LaunchedRuns(c)

\* A task that no start has written to TASK.
Unborn(c) == c > born \/ (c = born /\ start # None /\ start.phase \in {"journaled", "emptied"})

DuesFit == \A p \in Runners :
    /\ pc[p] \in {"idle", "loaded"} => due[p] = 0
    /\ pc[p] \in {"running", "reported"} => due[p] = args[p].timeout

StartFits == start # None =>
    /\ start.from < born
    /\ present = IF start.phase \in {"committed", "synced"} THEN born ELSE start.from

VersionsSound == \A v \in Versions : \A c \in Tasks : Sound(v[c], c)

UnbornUnused ==
    /\ \A v \in Versions : \A c \in Tasks : Unborn(c) => v[c] = Unused
    /\ \A c \in Tasks : Unborn(c) => \A p \in DOMAIN args : args[p].task # c

CurrentFaithful == InForce =>
    \A v \in Current : \A c \in Tasks : c = present => Faithful(v[c], c)

BackupFaithful == start # None /\ ~start.touched /\ start.from \notin reopened =>
    \A v \in Versions : \A c \in Tasks :
        v = start.backup /\ c = start.from => Faithful(v[c], c)

IInv ==
    /\ TypeOK
    /\ DuesFit /\ StartFits
    /\ VersionsSound /\ UnbornUnused
    /\ CurrentFaithful /\ BackupFaithful

(***************************************************************************)
(* What one entry of a registry says.                                      *)
(***************************************************************************)
LEMMA AttemptIsKnown == \A x \in Attempt : x # None
  BY BudgetAssumption

LEMMA KnownRunsFinite ==
  ASSUME NEW e
  PROVE  IsFiniteSet(KnownRuns(e)) /\ Cardinality(KnownRuns(e)) \in Nat
<1>1. KnownRuns(e) \subseteq Runs
  BY DEF KnownRuns
<1> QED
  BY <1>1, BudgetAssumption, FS_Subset, FS_CardinalityType

\* The seconds of the runners that have arguments.
LEMMA SecondsFit ==
  ASSUME TypeOK
  PROVE  /\ IsFiniteSet(DOMAIN args)
         /\ \A p \in DOMAIN args :
               /\ p \in Runners /\ args[p] \in Args
               /\ args[p].timeout \in Nat \ {0} /\ due[p] \in Nat
               /\ Timeout[p] = args[p].timeout /\ Overrun[p] \in Nat
<1>1. DOMAIN args \subseteq Runners
  BY DEF TypeOK
<1>2. IsFiniteSet(DOMAIN args)
  BY <1>1, BudgetAssumption, FS_Subset
<1>3. ASSUME NEW p \in DOMAIN args
      PROVE  /\ p \in Runners /\ args[p] \in Args
             /\ args[p].timeout \in Nat \ {0} /\ due[p] \in Nat
             /\ Timeout[p] = args[p].timeout /\ Overrun[p] \in Nat
  <2>1. p \in Runners /\ args[p] \in Args /\ due[p] \in Nat
    BY <1>1 DEF TypeOK
  <2>2. args[p].timeout \in Nat \ {0}
    BY <2>1, BudgetAssumption DEF Args
  <2> QED
    BY <2>1, <2>2 DEF Timeout, Overrun
<1> QED
  BY <1>2, <1>3

LEMMA LaunchesFit ==
  ASSUME TypeOK, NEW c
  PROVE  /\ IsFiniteSet(Launches(c)) /\ Launches(c) \subseteq DOMAIN args
         /\ Total(Overrun, Launches(c)) \in Nat
         /\ Total(due, Launches(c)) \in Nat
<1>1. Launches(c) \subseteq DOMAIN args
  BY DEF Launches
<1>2. IsFiniteSet(Launches(c))
  BY <1>1, SecondsFit, FS_Subset
<1>3. \A p \in Launches(c) : Overrun[p] \in Nat /\ due[p] \in Nat
  BY <1>1, SecondsFit
<1> QED
  BY <1>1, <1>2, <1>3, TotalType

LEMMA ActiveFit ==
  ASSUME TypeOK, NEW c, NEW e, Sound(e, c)
  PROVE  /\ e.active \subseteq DOMAIN args
         /\ IsFiniteSet(e.active)
         /\ \A kept \in SUBSET e.active :
               /\ IsFiniteSet(kept)
               /\ Seconds(kept) \in Nat /\ Seconds(e.active \ kept) \in Nat
               /\ Reserved(e) = Seconds(kept) + Seconds(e.active \ kept)
<1>1. e.active \subseteq Runners
  BY DEF Sound, Budget
<1>2. e.active \subseteq DOMAIN args
  BY <1>1 DEF Sound, TypeOK
<1>3. IsFiniteSet(e.active)
  BY <1>1, BudgetAssumption, FS_Subset
<1>4. \A p \in e.active : Timeout[p] \in Nat
  BY <1>2, SecondsFit
<1>5. ASSUME NEW kept \in SUBSET e.active
      PROVE  /\ IsFiniteSet(kept)
             /\ Seconds(kept) \in Nat /\ Seconds(e.active \ kept) \in Nat
             /\ Reserved(e) = Seconds(kept) + Seconds(e.active \ kept)
  <2>1. IsFiniteSet(kept) /\ IsFiniteSet(e.active \ kept)
    BY <1>3, FS_Subset
  <2>2. Seconds(kept) \in Nat /\ Seconds(e.active \ kept) \in Nat
    BY <1>4, <2>1, TotalType DEF Seconds
  <2>3. Reserved(e) = Seconds(kept) + Seconds(e.active \ kept)
    BY <1>3, <1>4, TotalSplit DEF Seconds, Reserved
  <2> QED
    BY <2>1, <2>2, <2>3
<1> QED
  BY <1>2, <1>3, <1>5

\* reconcile_reservations moves seconds from what is reserved to what is consumed.
LEMMA ReconciledEntry ==
  ASSUME TypeOK, NEW c, NEW e, Sound(e, c), NEW kept \in SUBSET e.active
  PROVE  /\ Sound(Reconciled(e, kept), c)
         /\ Faithful(e, c) => Faithful(Reconciled(e, kept), c)
<1> DEFINE n == Reconciled(e, kept)
<1>1. e \in Budget /\ e.consumed \in Nat
  BY DEF Sound, Budget
<1>2. Seconds(kept) \in Nat /\ Seconds(e.active \ kept) \in Nat
      /\ Reserved(e) = Seconds(kept) + Seconds(e.active \ kept)
  BY ActiveFit
<1>3. n = [e EXCEPT !.consumed = e.consumed + Seconds(e.active \ kept), !.active = kept]
  BY DEF Reconciled, ConsumedAfter
<1> HIDE DEF n
<1>4. n \in Budget /\ n.active = kept /\ n.attempts = e.attempts /\ n.failures = e.failures
      /\ n.allowance = e.allowance /\ n.consumed = e.consumed + Seconds(e.active \ kept)
  <2>1. PICK x \in Nat : x = e.consumed + Seconds(e.active \ kept)
    BY <1>1, <1>2
  <2>2. kept \in SUBSET Runners
    BY <1>1 DEF Budget
  <2>3. n = [e EXCEPT !.consumed = x, !.active = kept]
    BY <1>3, <2>1
  <2>4. n \in Budget /\ n.active = kept /\ n.attempts = e.attempts /\ n.failures = e.failures
        /\ n.allowance = e.allowance /\ n.consumed = x
    BY <1>1, <2>2, <2>3 DEF Budget
  <2> QED
    BY <2>1, <2>4
<1>5. Reserved(n) = Seconds(kept)
  BY <1>4 DEF Reserved
<1>6. n.consumed + Reserved(n) = e.consumed + Reserved(e)
  BY <1>1, <1>2, <1>4, <1>5
<1>7. KnownRuns(n) = KnownRuns(e) /\ CodeRuns(n) = CodeRuns(e)
      /\ \A r : Known(n, r) <=> Known(e, r)
  BY <1>4 DEF KnownRuns, CodeRuns, Known
<1>8. Sound(n, c)
  BY <1>4, <1>6, <1>7 DEF Sound
<1>9. Faithful(e, c) => Faithful(n, c)
  BY <1>4, <1>6, <1>7 DEF Faithful
<1> QED
  BY <1>8, <1>9 DEF n

\* A budget nobody has used.
LEMMA UnusedEntry ==
  /\ Unused \in Budget
  /\ Unused.active = {} /\ Unused.failures = 0 /\ Unused.allowance = None /\ Unused.consumed = 0
  /\ KnownRuns(Unused) = {} /\ CodeRuns(Unused) = {}
<1>1. Unused \in Budget
  BY DEF Unused, Budget
<1> QED
  BY <1>1 DEF Unused, KnownRuns, CodeRuns, Known

LEMMA UnusedIsSound ==
  ASSUME TypeOK, NEW c \in Tasks
  PROVE  Sound(Unused, c) /\ (Launches(c) = {} => Faithful(Unused, c))
<1>1. Reserved(Unused) = 0
  BY UnusedEntry, TotalEmpty DEF Reserved, Seconds
<1>2. Total(Overrun, Launches(c)) \in Nat
  BY LaunchesFit
<1>3. Cardinality(KnownRuns(Unused)) = 0
  BY UnusedEntry, FS_EmptySet
<1>4. decisions[c] \in Nat
  BY DEF TypeOK
<1>5. Sound(Unused, c)
  BY <1>1, <1>2, <1>3, <1>4, UnusedEntry, BudgetAssumption DEF Sound
<1>6. ASSUME Launches(c) = {} PROVE Faithful(Unused, c)
  <2>1. Total(due, Launches(c)) = 0
    BY <1>6, TotalEmpty
  <2>2. LaunchedRuns(c) = {}
    BY <1>6 DEF LaunchedRuns
  <2> QED
    BY <1>1, <2>1, <2>2, UnusedEntry DEF Faithful
<1> QED
  BY <1>5, <1>6

LEMMA EmptyIsUnused == Empty \in Registry /\ \A c \in Tasks : Empty[c] = Unused
  BY UnusedEntry DEF Empty, Registry

(***************************************************************************)
(* The steps, as far as they change what is owed and by whom.              *)
(***************************************************************************)
\* Nobody's seconds or arguments change.
Waits ==
    /\ args' = args /\ due' = due
    /\ \A q \in Runners : pc'[q] = pc[q] \/ (pc[q] \in {"running", "reported"} /\ pc'[q] \in {"reported", "dead"})

\* A runner gets its arguments.
Loads(p) ==
    /\ pc[p] = "idle" /\ pc' = [pc EXCEPT ![p] = "loaded"]
    /\ DOMAIN args' = DOMAIN args \cup {p}
    /\ \A q \in DOMAIN args \ {p} : args'[q] = args[q]
    /\ args'[p] \in Args /\ args'[p].task = present
    /\ due' = due

Begins(p) ==
    /\ pc[p] = "loaded" /\ pc' = [pc EXCEPT ![p] = "running"]
    /\ args' = args /\ due' = [due EXCEPT ![p] = args[p].timeout]

Ends(p, x) ==
    /\ pc[p] \in {"running", "reported"} /\ pc' = [pc EXCEPT ![p] = "done"]
    /\ args' = args /\ due' = [due EXCEPT ![p] = x]

Moves ==
    \/ Waits
    \/ \E p \in Runners : Loads(p)
    \/ \E p \in Runners : Begins(p)
    \/ \E p \in Runners : \E x \in Nat \ {0} : Ends(p, x)

\* Every start and every restore leaves the runners alone.
LEMMA StartWaits == Start => Waits /\ decisions' = decisions
<1>1. ASSUME UNCHANGED <<runner, due, decisions>> PROVE Waits /\ decisions' = decisions
  BY <1>1 DEF runner, Waits
<1> QED
  BY <1>1 DEF Start, BeginStart, EmptyRegistry, CommitTask, SyncContext, EndStart, StartDies,
              UndoTask, PutBack, Forget

LEMMA StepMoves ==
  ASSUME TypeOK, [Next]_vars
  PROVE  /\ Moves
         /\ \A c \in Tasks : decisions[c] \in Nat /\ decisions'[c] \in Nat /\ decisions[c] <= decisions'[c]
<1>d. \A c \in Tasks : decisions[c] \in Nat
  BY DEF TypeOK
<1>0. ASSUME decisions' = decisions
      PROVE  \A c \in Tasks : decisions[c] \in Nat /\ decisions'[c] \in Nat /\ decisions[c] <= decisions'[c]
  BY <1>0, <1>d
<1>1. CASE Lock \/ Unlock
  BY <1>0, <1>1 DEF Lock, Unlock, runner, Waits, Moves
<1>2. ASSUME NEW p \in Runners, NEW a \in Args, LoadReceipt(p, a)
      PROVE  Loads(p) /\ decisions' = decisions
  BY <1>2 DEF LoadReceipt, Loads
<1>3. ASSUME NEW p \in Runners, Reserve(p) PROVE Begins(p) /\ decisions' = decisions
  BY <1>3 DEF Reserve, Begins
<1>4. ASSUME NEW p \in Runners, WriteReceipt(p) PROVE Waits /\ decisions' = decisions
  BY <1>4 DEF WriteReceipt, Waits, TypeOK
<1>5. ASSUME NEW p \in Runners, NEW x \in 1..(args[p].timeout + Grace), NEW f \in Failure, Finish(p, x, f)
      PROVE  x \in Nat \ {0} /\ Ends(p, x) /\ decisions' = decisions
  <2>1. pc[p] # "idle"
    BY <1>5 DEF Finish
  <2>2. p \in DOMAIN args
    BY <2>1 DEF TypeOK
  <2>3. args[p].timeout \in Nat
    BY <2>2, SecondsFit
  <2>4. x \in Nat \ {0}
    BY <2>3, BudgetAssumption
  <2> QED
    BY <1>5, <2>4 DEF Finish, Ends
<1>6. ASSUME NEW p \in Runners, Die(p) PROVE Waits /\ decisions' = decisions
  BY <1>6 DEF Die, Waits, TypeOK
<1>7. ASSUME NEW c \in 0..born, NEW launch \in Launch, Prepare(c, launch)
      PROVE  Waits /\ decisions' = decisions
  BY <1>7 DEF Prepare, runner, Waits
<1>8. ASSUME NEW q \in requests, Apply(q)
      PROVE  /\ Waits
             /\ \A c \in Tasks : decisions'[c] \in Nat /\ decisions[c] <= decisions'[c]
  <2>1. decisions' = [decisions EXCEPT ![q.task] = @ + 1] /\ Waits
    BY <1>8 DEF Apply, runner, Waits
  <2> QED
    BY <1>d, <2>1 DEF TypeOK
<1>9. CASE UNCHANGED vars
  BY <1>0, <1>9 DEF vars, runner, Waits, Moves
<1>10. CASE \E p \in Runners : Runner(p)
  <2> PICK p \in Runners : Runner(p)
    BY <1>10
  <2> QED
    BY <1>0, <1>2, <1>3, <1>4, <1>5, <1>6 DEF Runner, Moves
<1>11. CASE \E c \in 0..born, launch \in Launch : Prepare(c, launch)
  BY <1>0, <1>7, <1>11 DEF Moves
<1>12. CASE \E q \in requests : Apply(q)
  BY <1>d, <1>8, <1>12 DEF Moves
<1>13. CASE Start
  BY <1>0, <1>13, StartWaits DEF Moves
<1> QED
  BY <1>1, <1>9, <1>10, <1>11, <1>12, <1>13 DEF Next

\* What a runner owes, and beyond its timeout, only grows, and only for its own task.
LEMMA OverrunGrows ==
  ASSUME TypeOK, DuesFit, Moves, NEW c
  PROVE  /\ Total(Overrun', Launches(c)') \in Nat
         /\ Total(Overrun, Launches(c)) <= Total(Overrun', Launches(c)')
<1>t. /\ IsFiniteSet(Launches(c)) /\ Launches(c) \subseteq DOMAIN args
      /\ Total(Overrun, Launches(c)) \in Nat
      /\ \A q \in DOMAIN args : q \in Runners /\ Overrun[q] \in Nat /\ due[q] \in Nat
                                /\ args[q].timeout \in Nat \ {0}
  BY LaunchesFit, SecondsFit
<1>1. CASE Waits
  <2>1. Overrun' = Overrun /\ Launches(c)' = Launches(c)
    BY <1>1 DEF Waits, Overrun, Launches
  <2> QED
    BY <1>t, <2>1
<1>2. ASSUME NEW p \in Runners, Loads(p) PROVE Total(Overrun', Launches(c)') = Total(Overrun, Launches(c))
  <2>1. due[p] = 0
    BY <1>2 DEF DuesFit, Loads
  <2>2. p \notin Launches(c) /\ p \notin Launches(c)'
    BY <1>2, <2>1 DEF Launches, Loads
  <2>3. Launches(c)' = Launches(c)
    BY <1>2, <2>2 DEF Loads, Launches
  <2>4. \A q \in Launches(c) : Overrun'[q] = Overrun[q]
    BY <1>t, <1>2, <2>2 DEF Loads, Overrun
  <2> QED
    BY <1>t, <2>3, <2>4, TotalSame
<1>3. ASSUME NEW p \in Runners, Begins(p)
      PROVE  /\ Total(Overrun', Launches(c)') \in Nat
             /\ Total(Overrun, Launches(c)) <= Total(Overrun', Launches(c)')
  <2>1. due[p] = 0 /\ p \in DOMAIN args
    BY <1>3 DEF DuesFit, Begins, TypeOK
  <2>2. due'[p] = args[p].timeout /\ \A q \in Runners \ {p} : due'[q] = due[q]
    BY <1>3 DEF Begins, TypeOK
  <2>3. p \notin Launches(c)
    BY <2>1 DEF Launches
  <2>4. Overrun'[p] = 0 /\ \A q \in Launches(c) : Overrun'[q] = Overrun[q]
    BY <1>t, <1>3, <2>1, <2>2, <2>3 DEF Begins, Overrun
  <2>5. Total(Overrun', Launches(c)) = Total(Overrun, Launches(c))
    BY <1>t, <2>4, TotalSame
  <2>6. CASE args[p].task = c
    <3>1. Launches(c)' = Launches(c) \cup {p}
      BY <1>t, <1>3, <2>1, <2>2, <2>6 DEF Begins, Launches
    <3>2. \A q \in Launches(c) \cup {p} : Overrun'[q] \in Nat
      BY <1>t, <2>4
    <3>3. Total(Overrun', Launches(c) \cup {p}) = Total(Overrun', Launches(c)) + Overrun'[p]
      BY <1>t, <2>3, <3>2, TotalWith
    <3> QED
      BY <1>t, <2>4, <2>5, <3>1, <3>3
  <2>7. CASE args[p].task # c
    <3>1. Launches(c)' = Launches(c)
      BY <1>t, <1>3, <2>2, <2>7 DEF Begins, Launches
    <3> QED
      BY <1>t, <2>5, <3>1
  <2> QED
    BY <2>6, <2>7
<1>4. ASSUME NEW p \in Runners, NEW x \in Nat \ {0}, Ends(p, x)
      PROVE  /\ Total(Overrun', Launches(c)') \in Nat
             /\ Total(Overrun, Launches(c)) <= Total(Overrun', Launches(c)')
  <2>1. due[p] = args[p].timeout /\ p \in DOMAIN args
    BY <1>4 DEF DuesFit, Ends, TypeOK
  <2>2. due'[p] = x /\ \A q \in Runners \ {p} : due'[q] = due[q]
    BY <1>4 DEF Ends, TypeOK
  <2>3. Launches(c)' = Launches(c)
    BY <1>t, <1>4, <2>1, <2>2 DEF Ends, Launches
  <2>4. \A q \in Launches(c) \ {p} : Overrun'[q] = Overrun[q]
    BY <1>t, <1>4, <2>2 DEF Ends, Overrun
  <2>5. Overrun[p] = 0 /\ Overrun'[p] \in Nat
    BY <1>t, <1>4, <2>1, <2>2 DEF Ends, Overrun
  <2>6. CASE p \in Launches(c)
    <3>1. \A q \in Launches(c) : Overrun[q] \in Nat /\ Overrun'[q] \in Nat
      BY <1>t, <2>4, <2>5
    <3>2. Total(Overrun', Launches(c)) = Total(Overrun, Launches(c)) - Overrun[p] + Overrun'[p]
      BY <1>t, <2>4, <2>6, <3>1, TotalChanged
    <3> QED
      BY <1>t, <2>3, <2>5, <3>2
  <2>7. CASE p \notin Launches(c)
    <3>1. Total(Overrun', Launches(c)) = Total(Overrun, Launches(c))
      BY <1>t, <2>4, <2>7, TotalSame
    <3> QED
      BY <1>t, <2>3, <3>1
  <2> QED
    BY <2>6, <2>7
<1> QED
  BY <1>t, <1>1, <1>2, <1>3, <1>4 DEF Moves

\* What a budget has reserved does not depend on what others do.
LEMMA ReservedStays ==
  ASSUME TypeOK, Moves, NEW c, NEW e, Sound(e, c)
  PROVE  /\ Reserved(e)' = Reserved(e)
         /\ \A p \in e.active : args'[p] = args[p] /\ pc'[p] \notin {"idle", "loaded"}
<1>1. e.active \subseteq DOMAIN args /\ IsFiniteSet(e.active) /\ e.active \subseteq Runners
  BY ActiveFit DEF Sound, Budget
<1>2. \A p \in e.active : p \in DOMAIN args' /\ args'[p] = args[p] /\ pc'[p] \notin {"idle", "loaded"}
  BY <1>1 DEF Moves, Waits, Loads, Begins, Ends, Sound, TypeOK
<1>3. \A p \in e.active : Timeout'[p] = Timeout[p]
  BY <1>1, <1>2 DEF Timeout
<1>4. Total(Timeout', e.active) = Total(Timeout, e.active)
  BY <1>1, <1>3, TotalSame
<1> QED
  BY <1>2, <1>4 DEF Reserved, Seconds

LEMMA SoundStays ==
  ASSUME TypeOK, DuesFit, [Next]_vars, NEW c \in Tasks, NEW e, Sound(e, c)
  PROVE  Sound(e, c)'
<1>m. Moves /\ decisions[c] \in Nat /\ decisions'[c] \in Nat /\ decisions[c] <= decisions'[c]
  BY StepMoves
<1>1. /\ Total(Overrun', Launches(c)') \in Nat
      /\ Total(Overrun, Launches(c)) <= Total(Overrun', Launches(c)')
      /\ Total(Overrun, Launches(c)) \in Nat
  BY <1>m, OverrunGrows, LaunchesFit
<1>2. /\ Reserved(e)' = Reserved(e)
      /\ \A p \in e.active : args'[p] = args[p] /\ pc'[p] \notin {"idle", "loaded"}
  BY <1>m, ReservedStays
<1>3. e.consumed \in Nat /\ Reserved(e) \in Nat
  <2>1. Seconds({}) \in Nat /\ Seconds(e.active \ {}) \in Nat
        /\ Reserved(e) = Seconds({}) + Seconds(e.active \ {})
    BY ActiveFit
  <2> QED
    BY <2>1 DEF Sound, Budget
<1>4. Cardinality(KnownRuns(e)) \in Nat
  BY KnownRunsFinite
<1>5. e.consumed + Reserved(e)' <= Cap + Total(Overrun', Launches(c)')
  <2>1. e.consumed + Reserved(e) <= Cap + Total(Overrun, Launches(c))
    BY DEF Sound
  <2> QED
    BY <1>1, <1>2, <1>3, <2>1, BudgetAssumption
<1>6. /\ Cardinality(KnownRuns(e)) <= 1 + decisions'[c]
      /\ e.failures = 0 /\ CodeRuns(e) = {} => Cardinality(KnownRuns(e)) <= decisions'[c]
  BY <1>m, <1>4 DEF Sound
<1> QED
  BY <1>2, <1>5, <1>6 DEF Sound, KnownRuns, CodeRuns, Known

\* The seconds of one runner change those of its own task only.
LEMMA FaithfulStays ==
  ASSUME TypeOK, DuesFit, [Next]_vars, NEW c \in Tasks, NEW e, Sound(e, c), Faithful(e, c),
         \A p \in Runners : due'[p] # due[p] => args[p].task # c
  PROVE  Faithful(e, c)'
<1>m. Moves
  BY StepMoves
<1>t. /\ IsFiniteSet(Launches(c)) /\ Launches(c) \subseteq DOMAIN args /\ DOMAIN args \subseteq Runners
      /\ e.active \subseteq DOMAIN args
  BY LaunchesFit, ActiveFit DEF TypeOK
<1>1. /\ Reserved(e)' = Reserved(e)
      /\ \A p \in e.active : args'[p] = args[p] /\ args[p].task = c
  BY <1>m, ReservedStays DEF Sound
<1>2. \A p \in e.active : due'[p] = args'[p].timeout
  BY <1>1, <1>t DEF Faithful
<1>3. /\ DOMAIN args \subseteq DOMAIN args'
      /\ \A p \in DOMAIN args' : args'[p].task = c /\ due'[p] > 0 => p \in DOMAIN args /\ args'[p] = args[p]
      /\ \A p \in Launches(c) : args'[p] = args[p]
  <2>1. CASE args' = args
    BY <1>t, <2>1 DEF Launches
  <2>2. ASSUME NEW p \in Runners, Loads(p)
        PROVE  /\ DOMAIN args \subseteq DOMAIN args'
               /\ \A q \in DOMAIN args' : args'[q].task = c /\ due'[q] > 0 => q \in DOMAIN args /\ args'[q] = args[q]
               /\ \A q \in Launches(c) : args'[q] = args[q]
    <3>1. due[p] = 0 /\ due' = due
      BY <2>2 DEF Loads, DuesFit
    <3> QED
      BY <1>t, <2>2, <3>1 DEF Loads, Launches
  <2> QED
    BY <1>m, <2>1, <2>2 DEF Moves, Waits, Begins, Ends
<1>4. Launches(c)' = Launches(c) /\ \A p \in Launches(c) : due'[p] = due[p] /\ args'[p] = args[p]
  BY <1>3, <1>t DEF Launches
<1>5. Total(due', Launches(c)') = Total(due, Launches(c))
  BY <1>4, <1>t, TotalSame
<1>6. LaunchedRuns(c)' = LaunchedRuns(c)
  BY <1>4 DEF LaunchedRuns
<1> QED
  BY <1>1, <1>2, <1>5, <1>6 DEF Faithful, KnownRuns, Known

(***************************************************************************)
(* What a command writes in place of the entry it found.                   *)
(***************************************************************************)
\* reserve_budget
LEMMA ReservedEntry ==
  ASSUME TypeOK, DuesFit, [Next]_vars,
         NEW p \in Runners, NEW c \in Tasks, c = args[p].task, Begins(p),
         NEW e, Sound(e, c), e.failures = 0, MayJoin(e, args[p].run),
         NEW kept \in SUBSET e.active, Affordable(e, args[p].timeout, kept),
         NEW n, n = Reserving(e, p, kept)
  PROVE  /\ Sound(n, c)'
         /\ Faithful(e, c) => Faithful(n, c)'
<1>m. Moves /\ decisions[c] \in Nat /\ decisions'[c] \in Nat /\ decisions[c] <= decisions'[c]
  BY StepMoves
<1>p. /\ p \in DOMAIN args /\ args[p].timeout \in Nat \ {0} /\ Timeout[p] = args[p].timeout
      /\ args[p].run \in Runs /\ due[p] = 0 /\ published \in Nat
  <2>1. p \in DOMAIN args /\ due[p] = 0 /\ published \in Nat
    BY DEF Begins, TypeOK, DuesFit
  <2> QED
    BY <2>1, SecondsFit DEF Args
<1>a. args' = args /\ pc' = [pc EXCEPT ![p] = "running"] /\ due' = [due EXCEPT ![p] = args[p].timeout]
  BY DEF Begins
<1>b. due'[p] = args[p].timeout /\ \A q \in Runners \ {p} : due'[q] = due[q]
  BY <1>a DEF TypeOK
<1>1. PICK r \in Runs, k \in Nat : r = args[p].run /\ k = published + 1
  BY <1>p
<1>2. /\ e \in Budget /\ e.consumed \in Nat /\ e.active \subseteq Runners
      /\ e.attempts \in [Runs -> Attempt \cup {None}]
  BY DEF Sound, Budget
<1>3. /\ p \notin e.active /\ e.active \subseteq DOMAIN args /\ IsFiniteSet(kept)
      /\ Seconds(kept) \in Nat /\ Seconds(e.active \ kept) \in Nat
      /\ Reserved(e) = Seconds(kept) + Seconds(e.active \ kept)
  <2>1. p \notin e.active
    BY DEF Sound, Begins
  <2> QED
    BY <2>1, ActiveFit
<1>4. PICK x \in Nat : x = e.consumed + Seconds(e.active \ kept)
  BY <1>2, <1>3
<1> DEFINE new == [track |-> "code", failure |-> "none", cases |-> {}]
           attempts == IF Known(e, r) THEN e.attempts ELSE [e.attempts EXCEPT ![r] = new]
<1>5. new \in Attempt /\ new # None /\ new.track = "code"
  BY AttemptIsKnown DEF Attempt, Failure
<1>6. attempts \in [Runs -> Attempt \cup {None}]
  BY <1>2, <1>5
<1>7. /\ n \in Budget /\ n.consumed = x /\ n.failures = 0 /\ n.attempts = attempts
      /\ n.active = kept \cup {p} /\ n.allowance = None
  <2>1. e.attempts = [e.attempts EXCEPT ![r] = e.attempts[r]]
    BY <1>2
  <2>2. [e.attempts EXCEPT ![r] = IF Known(e, r) THEN e.attempts[r] ELSE new] = attempts
    BY <2>1
  <2> HIDE DEF new, attempts
  <2>3. n = [e EXCEPT !.consumed = x, !.active = kept \cup {p}, !.attempts = attempts,
                      !.allowance = None, !.latest = k]
    <3>1. Reconciled(e, kept) = [e EXCEPT !.consumed = x, !.active = kept]
      BY <1>4 DEF Reconciled, ConsumedAfter
    <3>2. n = [[e EXCEPT !.consumed = x, !.active = kept] EXCEPT
                  !.active = kept \cup {p},
                  !.attempts = [e.attempts EXCEPT ![r] = IF Known(e, r) THEN e.attempts[r] ELSE new],
                  !.allowance = None, !.latest = k]
      BY <1>1, <1>2, <3>1 DEF Reserving, Budget, new
    <3> QED
      BY <1>2, <2>2, <3>2 DEF Budget
  <2>4. kept \cup {p} \in SUBSET Runners /\ None \in Launch \cup {None}
    BY <1>2
  <2>5. n \in Budget
    BY <1>1, <1>2, <1>6, <2>3, <2>4 DEF Budget
  <2> QED
    BY <1>1, <1>2, <1>6, <2>3, <2>5 DEF Budget
<1>8. Reserved(n)' = Seconds(kept) + args[p].timeout
  <2>1. \A q \in kept \cup {p} : Timeout[q] \in Nat
    BY <1>3, <1>p, SecondsFit
  <2>2. Total(Timeout, kept \cup {p}) = Total(Timeout, kept) + Timeout[p]
    BY <1>3, <2>1, TotalWith
  <2> QED
    BY <1>7, <1>a, <1>p, <2>2 DEF Reserved, Seconds, Timeout
<1>9. x + Reserved(n)' <= Cap
  BY <1>3, <1>4, <1>8, <1>p, BudgetAssumption DEF Affordable, ConsumedAfter
<1>10. Total(Overrun', Launches(c)') \in Nat
  BY <1>m, OverrunGrows
<1>11. /\ \A q \in Runs \ {r} : Known(n, q) <=> Known(e, q)
       /\ Known(n, r)
       /\ KnownRuns(n) = KnownRuns(e) \cup {r}
  BY <1>2, <1>5, <1>7 DEF Known, KnownRuns
<1>12. /\ Cardinality(KnownRuns(n)) <= 1 + decisions'[c]
       /\ CodeRuns(n) = {} => Cardinality(KnownRuns(n)) <= decisions'[c]
  <2>1. CASE Known(e, r)
    <3>1. n.attempts = e.attempts
      BY <1>7, <2>1
    <3>2. KnownRuns(n) = KnownRuns(e) /\ CodeRuns(n) = CodeRuns(e)
      BY <3>1 DEF KnownRuns, CodeRuns, Known
    <3> QED
      BY <1>m, <3>2, KnownRunsFinite DEF Sound
  <2>2. CASE ~Known(e, r)
    <3>1. CodeRuns(e) = {}
      BY <1>1, <2>2 DEF MayJoin
    <3>2. Cardinality(KnownRuns(e)) <= decisions[c]
      BY <3>1 DEF Sound
    <3>3. r \notin KnownRuns(e)
      BY <2>2 DEF KnownRuns
    <3>4. Cardinality(KnownRuns(n)) = Cardinality(KnownRuns(e)) + 1
      <4>1. IsFiniteSet(KnownRuns(e))
        BY KnownRunsFinite
      <4>2. Cardinality(KnownRuns(e) \cup {r}) = Cardinality(KnownRuns(e)) + 1
        <5> HIDE DEF attempts, new
        <5> QED
          BY <3>3, <4>1, FS_AddElement
      <4> QED
        BY <1>11, <4>2
    <3>5. CodeRuns(n) # {}
      BY <1>2, <1>5, <1>7, <1>11, <2>2 DEF CodeRuns
    <3>6. Cardinality(KnownRuns(e)) \in Nat
      BY KnownRunsFinite
    <3> QED
      BY <1>m, <3>2, <3>4, <3>5, <3>6
  <2> QED
    BY <2>1, <2>2
<1>13. \A q \in n.active : pc'[q] \notin {"idle", "loaded"} /\ args'[q].task = c /\ Known(n, args'[q].run)
  <2>1. \A q \in kept : pc'[q] \notin {"idle", "loaded"} /\ args'[q] = args[q] /\ args[q].task = c
    BY <1>m, ReservedStays DEF Sound
  <2>2. \A q \in kept : args[q].run \in Runs /\ Known(e, args[q].run)
    BY <1>3, SecondsFit DEF Sound, Args
  <2>3. pc'[p] = "running"
    BY <1>a DEF TypeOK
  <2> QED
    BY <1>1, <1>7, <1>11, <1>a, <2>1, <2>2, <2>3
<1>14. Sound(n, c)'
  <2>1. n.consumed + Reserved(n)' <= Cap + Total(Overrun', Launches(c)')
    BY <1>3, <1>7, <1>8, <1>9, <1>10, <1>p, BudgetAssumption
  <2> HIDE DEF attempts, new
  <2> QED
    BY <1>7, <1>12, <1>13, <2>1 DEF Sound, KnownRuns, CodeRuns, Known
<1>15. ASSUME Faithful(e, c) PROVE Faithful(n, c)'
  <2>1. p \notin Launches(c) /\ Launches(c)' = Launches(c) \cup {p}
    BY <1>a, <1>b, <1>p DEF Launches, TypeOK
  <2>2. /\ IsFiniteSet(Launches(c)) /\ Launches(c) \subseteq DOMAIN args
        /\ Total(due, Launches(c)) \in Nat
    BY LaunchesFit
  <2>3. \A q \in Launches(c) : due'[q] = due[q] /\ due[q] \in Nat
    BY <1>b, <2>1, <2>2, SecondsFit
  <2>4. Total(due', Launches(c)) = Total(due, Launches(c))
    BY <2>2, <2>3, TotalSame
  <2>5. Total(due', Launches(c) \cup {p}) = Total(due', Launches(c)) + due'[p]
    <3>1. \A q \in Launches(c) \cup {p} : due'[q] \in Nat
      BY <1>b, <1>p, <2>3
    <3> QED
      BY <2>1, <2>2, <3>1, TotalWith
  <2>6. n.consumed + Reserved(n)' = Total(due', Launches(c)')
    <3>1. e.consumed + Reserved(e) = Total(due, Launches(c))
      BY <1>15 DEF Faithful
    <3>2. n.consumed + Reserved(n)' = e.consumed + Reserved(e) + args[p].timeout
      BY <1>2, <1>3, <1>4, <1>7, <1>8, <1>p
    <3> QED
      BY <1>b, <2>1, <2>4, <2>5, <3>1, <3>2
  <2>7. LaunchedRuns(c)' = LaunchedRuns(c) \cup {r}
    BY <1>1, <1>a, <2>1 DEF LaunchedRuns
  <2>8. \A q \in n.active : due'[q] = args'[q].timeout
    <3>1. \A q \in kept : q # p /\ q \in Runners /\ due[q] = args[q].timeout
      BY <1>2, <1>3, <1>15 DEF Faithful
    <3> QED
      BY <1>7, <1>a, <1>b, <3>1
  <2>9. KnownRuns(n) = LaunchedRuns(c)'
    BY <1>11, <1>15, <2>7 DEF Faithful
  <2> QED
    BY <2>6, <2>8, <2>9 DEF Faithful, KnownRuns, Known
<1> QED
  BY <1>14, <1>15

\* finish_budget
LEMMA SettledEntry ==
  ASSUME TypeOK, DuesFit, [Next]_vars,
         NEW p \in Runners, NEW c \in Tasks, c = args[p].task,
         NEW x \in Nat \ {0}, NEW f \in Failure, Ends(p, x),
         NEW e, Sound(e, c), p \in e.active,
         NEW n, n = Settling(e, p, x, f)
  PROVE  /\ Sound(n, c)'
         /\ Faithful(e, c) => Faithful(n, c)'
<1>m. Moves /\ decisions[c] \in Nat /\ decisions'[c] \in Nat /\ decisions[c] <= decisions'[c]
  BY StepMoves
<1>p. /\ p \in DOMAIN args /\ args[p].timeout \in Nat \ {0} /\ Timeout[p] = args[p].timeout
      /\ args[p].run \in Runs /\ args[p].case \in Cases
      /\ due[p] = args[p].timeout /\ published \in Nat
  <2>1. p \in DOMAIN args /\ due[p] = args[p].timeout /\ published \in Nat
    BY DEF Ends, TypeOK, DuesFit
  <2> QED
    BY <2>1, SecondsFit DEF Args
<1>a. args' = args /\ pc' = [pc EXCEPT ![p] = "done"] /\ due' = [due EXCEPT ![p] = x]
  BY DEF Ends
<1>b. due'[p] = x /\ \A q \in Runners \ {p} : due'[q] = due[q]
  BY <1>a DEF TypeOK
<1>1. PICK r \in Runs, case \in Cases, k \in Nat :
          r = args[p].run /\ case = args[p].case /\ k = published + 1
  BY <1>p
<1>2. /\ e \in Budget /\ e.consumed \in Nat /\ e.failures \in Nat /\ e.active \subseteq Runners
      /\ e.attempts \in [Runs -> Attempt \cup {None}]
  BY DEF Sound, Budget
<1>3. e.attempts[r] \in Attempt
  BY <1>1, <1>2 DEF Sound, Known
<1> DEFINE new == [track |-> TrackAfter(e.attempts[r].track, f), failure |-> f,
                   cases |-> e.attempts[r].cases \cup {case}]
           attempts == [e.attempts EXCEPT ![r] = new]
           failures == IF f = "infrastructure" THEN e.failures + 1 ELSE e.failures
<1>4. new \in Attempt /\ new # None /\ new.track = TrackAfter(e.attempts[r].track, f)
  <2>1. new \in Attempt
    BY <1>3 DEF Attempt, TrackAfter
  <2> QED
    BY <2>1, AttemptIsKnown
<1>5. attempts \in [Runs -> Attempt \cup {None}] /\ failures \in Nat
      /\ attempts[r] = new /\ \A s \in Runs \ {r} : attempts[s] = e.attempts[s]
  BY <1>2, <1>4
<1>6. /\ n \in Budget /\ n.consumed = e.consumed + x /\ n.failures = failures
      /\ n.attempts = attempts /\ n.active = e.active \ {p} /\ n.allowance = e.allowance
  <2>1. n = [e EXCEPT !.consumed = e.consumed + x, !.active = e.active \ {p},
                      !.attempts = attempts, !.failures = failures, !.latest = k]
    BY <1>1, <1>2 DEF Settling, Budget
  <2>2. e.consumed + x \in Nat
    BY <1>2
  <2> HIDE DEF new, attempts, failures
  <2> QED
    BY <1>2, <1>5, <2>1, <2>2 DEF Budget
<1> HIDE DEF new, attempts, failures
<1>7. /\ e.active \subseteq DOMAIN args /\ IsFiniteSet(e.active)
      /\ Seconds(e.active \ {p}) \in Nat
      /\ Reserved(e) = args[p].timeout + Seconds(e.active \ {p})
  <2>1. {p} \in SUBSET e.active
    OBVIOUS
  <2>2. e.active \subseteq DOMAIN args /\ IsFiniteSet(e.active) /\ Seconds(e.active \ {p}) \in Nat
    BY <2>1, ActiveFit
  <2>3. Total(Timeout, e.active) = Timeout[p] + Total(Timeout, e.active \ {p})
    <3>1. \A q \in e.active : Timeout[q] \in Nat
      BY <2>2, SecondsFit
    <3> QED
      BY <2>2, <3>1, TotalWithout
  <2> QED
    BY <1>p, <2>2, <2>3 DEF Reserved, Seconds
<1>8. Reserved(n)' = Seconds(e.active \ {p})
  BY <1>6, <1>a DEF Reserved, Seconds, Timeout
<1>9. n.consumed + Reserved(n)' = e.consumed + Reserved(e) - args[p].timeout + x
  BY <1>2, <1>6, <1>7, <1>8, <1>p
<1>10. p \in Launches(c) /\ Launches(c)' = Launches(c)
  BY <1>a, <1>b, <1>p DEF Launches, TypeOK
<1>11. /\ IsFiniteSet(Launches(c)) /\ Launches(c) \subseteq DOMAIN args
       /\ Total(Overrun, Launches(c)) \in Nat /\ Total(due, Launches(c)) \in Nat
       /\ \A q \in Launches(c) : Overrun[q] \in Nat /\ due[q] \in Nat /\ q \in Runners
  BY LaunchesFit, SecondsFit
<1>12. n.consumed + Reserved(n)' <= Cap + Total(Overrun', Launches(c)')
  <2>1. Overrun[p] = 0 /\ Overrun'[p] = (IF x > args[p].timeout THEN x - args[p].timeout ELSE 0)
    BY <1>a, <1>b, <1>p DEF Overrun
  <2>2. \A q \in Launches(c) \ {p} : Overrun'[q] = Overrun[q]
    BY <1>11, <1>a, <1>b DEF Overrun
  <2>3. Overrun'[p] \in Nat /\ Overrun'[p] >= x - args[p].timeout
    BY <1>p, <2>1
  <2>4. Total(Overrun', Launches(c)) = Total(Overrun, Launches(c)) - Overrun[p] + Overrun'[p]
    BY <1>10, <1>11, <2>2, <2>3, TotalChanged
  <2>5. e.consumed + Reserved(e) <= Cap + Total(Overrun, Launches(c))
    BY DEF Sound
  <2> QED
    BY <1>2, <1>7, <1>9, <1>10, <1>11, <1>p, <2>1, <2>3, <2>4, <2>5, BudgetAssumption
<1>13. /\ \A s \in Runs : Known(n, s) <=> Known(e, s)
       /\ KnownRuns(n) = KnownRuns(e)
       /\ CodeRuns(n) \subseteq CodeRuns(e)
       /\ f # "infrastructure" => CodeRuns(n) = CodeRuns(e)
  <2>1. \A s \in Runs : Known(n, s) <=> Known(e, s)
    BY <1>3, <1>4, <1>5, <1>6, AttemptIsKnown DEF Known
  <2>2. KnownRuns(n) = KnownRuns(e)
    BY <2>1 DEF KnownRuns
  <2>3. CodeRuns(n) \subseteq CodeRuns(e)
    BY <1>4, <1>5, <1>6, <2>1 DEF CodeRuns, TrackAfter
  <2>4. f # "infrastructure" => CodeRuns(n) = CodeRuns(e)
    BY <1>4, <1>5, <1>6, <2>1 DEF CodeRuns, TrackAfter
  <2> QED
    BY <2>1, <2>2, <2>3, <2>4
<1>14. Sound(n, c)'
  <2>1. n.failures = 0 => e.failures = 0 /\ f # "infrastructure"
    BY <1>2, <1>6 DEF failures
  <2>2. n.allowance # None => n.active = {} /\ n.failures = 0
    BY <1>6 DEF Sound
  <2>3. \A q \in n.active : pc'[q] \notin {"idle", "loaded"} /\ args'[q].task = c /\ Known(n, args'[q].run)
    <3>1. \A q \in e.active : args'[q] = args[q] /\ pc'[q] \notin {"idle", "loaded"}
      BY <1>m, ReservedStays
    <3>2. \A q \in e.active : args[q].task = c /\ args[q].run \in Runs /\ Known(e, args[q].run)
      BY <1>7, SecondsFit DEF Sound, Args
    <3> QED
      BY <1>6, <1>13, <3>1, <3>2
  <2>4. /\ Cardinality(KnownRuns(n)) <= 1 + decisions'[c]
        /\ n.failures = 0 /\ CodeRuns(n) = {} => Cardinality(KnownRuns(n)) <= decisions'[c]
    BY <1>m, <1>13, <2>1, KnownRunsFinite DEF Sound
  <2> QED
    BY <1>6, <1>12, <2>2, <2>3, <2>4 DEF Sound, KnownRuns, CodeRuns, Known
<1>15. ASSUME Faithful(e, c) PROVE Faithful(n, c)'
  <2>1. Total(due', Launches(c)) = Total(due, Launches(c)) - due[p] + due'[p]
    <3>1. \A q \in Launches(c) : due[q] \in Nat /\ due'[q] \in Nat
      BY <1>11, <1>b
    <3>2. \A q \in Launches(c) \ {p} : due'[q] = due[q]
      BY <1>11, <1>b
    <3> QED
      BY <1>10, <1>11, <3>1, <3>2, TotalChanged
  <2>2. n.consumed + Reserved(n)' = Total(due', Launches(c)')
    BY <1>2, <1>7, <1>9, <1>10, <1>11, <1>15, <1>b, <1>p, <2>1 DEF Faithful
  <2>3. LaunchedRuns(c)' = LaunchedRuns(c)
    BY <1>10, <1>a DEF LaunchedRuns
  <2>4. \A q \in n.active : due'[q] = args'[q].timeout
    BY <1>2, <1>6, <1>15, <1>a, <1>b DEF Faithful
  <2>5. KnownRuns(n) = LaunchedRuns(c)'
    BY <1>13, <1>15, <2>3 DEF Faithful
  <2> QED
    BY <2>2, <2>4, <2>5 DEF Faithful, KnownRuns, Known
<1> QED
  BY <1>14, <1>15

\* apply_infrastructure_remediation
LEMMA RemediedEntry ==
  ASSUME TypeOK, DuesFit, [Next]_vars, Waits,
         NEW c \in Tasks, decisions'[c] = decisions[c] + 1,
         NEW e, Sound(e, c), e.active = {}, NEW launch \in Launch,
         NEW n, n = Remedied(e, launch)
  PROVE  /\ Sound(n, c)'
         /\ Faithful(e, c) => Faithful(n, c)'
<1>1. e \in Budget /\ published \in Nat /\ decisions[c] \in Nat
  BY DEF Sound, TypeOK
<1>2. PICK k \in Nat : k = published + 1
  BY <1>1
<1>3. n = [e EXCEPT !.failures = 0, !.allowance = launch, !.latest = k]
  BY <1>2 DEF Remedied
<1>4. /\ n \in Budget /\ n.active = {} /\ n.failures = 0 /\ n.consumed = e.consumed
      /\ n.attempts = e.attempts
  <2>1. launch \in Launch \cup {None} /\ 0 \in Nat
    OBVIOUS
  <2> QED
    BY <1>1, <1>2, <1>3, <2>1 DEF Budget
<1>5. /\ KnownRuns(n) = KnownRuns(e) /\ Cardinality(KnownRuns(n)) <= decisions'[c]
  <2>1. KnownRuns(n) = KnownRuns(e)
    BY <1>4 DEF KnownRuns, Known
  <2>2. Cardinality(KnownRuns(e)) <= 1 + decisions[c]
    BY DEF Sound
  <2> QED
    BY <1>1, <2>1, <2>2, KnownRunsFinite
<1>6. Sound(e, c)' /\ (Faithful(e, c) => Faithful(e, c)')
  BY SoundStays, FaithfulStays DEF Waits
<1>7. Cardinality(KnownRuns(n)) <= 1 + decisions'[c]
  BY <1>1, <1>5, KnownRunsFinite
<1>8. Sound(n, c)'
  BY <1>4, <1>5, <1>6, <1>7 DEF Sound, KnownRuns, CodeRuns, Known, Reserved
<1>9. Faithful(e, c) => Faithful(n, c)'
  BY <1>4, <1>6 DEF Faithful, KnownRuns, Known, Reserved
<1> QED
  BY <1>8, <1>9

(***************************************************************************)
(* What becomes of the versions of the registry.                           *)
(***************************************************************************)
\* A begun start is a record, not the absence of one.
LEMMA StartIsBegun ==
  ASSUME TypeOK
  PROVE  /\ start # None => start \in Begun
         /\ held # None => held \in Held /\ held.registry \in Registry
  BY DEF TypeOK, Held

LEMMA SaveFits ==
  ASSUME TypeOK, NEW c \in Tasks, NEW n \in Budget, held # None, Save(c, n)
  PROVE  /\ registry' \in Registry /\ registry'[c] = n
         /\ \A d \in Tasks \ {c} : registry'[d] = held.registry[d]
         /\ held' = None
         /\ start = None => start' = None
         /\ start # None =>
               /\ start' \in Begun /\ start' # None
               /\ start'.phase = start.phase /\ start'.from = start.from /\ start'.backup = start.backup
               /\ ~start'.touched => ~start.touched /\ c # start.from
<1>1. held.registry \in [Tasks -> Budget]
  BY StartIsBegun DEF Registry
<1>2. registry' = [held.registry EXCEPT ![c] = n] /\ held' = None
  BY DEF Save
<1>3. registry' \in Registry /\ registry'[c] = n /\ \A d \in Tasks \ {c} : registry'[d] = held.registry[d]
  BY <1>1, <1>2 DEF Registry
<1>4. CASE start # None /\ start.from = c
  <2>1. start \in Begun /\ start' = [start EXCEPT !.touched = TRUE]
    BY <1>4, StartIsBegun DEF Save
  <2>2. start' \in Begun /\ start'.touched
        /\ start'.phase = start.phase /\ start'.from = start.from /\ start'.backup = start.backup
    BY <2>1 DEF Begun
  <2>3. start' # None
    BY <2>2, BudgetAssumption
  <2> QED
    BY <1>2, <1>3, <1>4, <2>2, <2>3
<1>5. CASE ~(start # None /\ start.from = c)
  <2>1. start' = start
    BY <1>5 DEF Save
  <2> QED
    BY <1>2, <1>3, <1>5, <2>1, StartIsBegun
<1> QED
  BY <1>4, <1>5

\* A command writes a sound entry in place of a sound one, and a faithful one in place
\* of a faithful one.
Saves(c, n) ==
    /\ held # None /\ Save(c, n) /\ n \in Budget
    /\ UNCHANGED tasks
    /\ ~Unborn(c)
    /\ Sound(n, c)'
    /\ Faithful(held.registry[c], c) => Faithful(n, c)'
    /\ \A p \in Runners : due'[p] # due[p] => args[p].task = c

LEMMA SoundIsBudget == \A n, c : Sound(n, c)' => n \in Budget
  BY DEF Sound

LEMMA FoundEntry ==
  ASSUME IInv, held # None, NEW c \in Tasks
  PROVE  /\ Sound(held.registry[c], c)
         /\ Unborn(c) => held.registry[c] = Unused
<1>1. held.registry \in Versions
  BY DEF Versions, Current
<1> QED
  BY <1>1 DEF IInv, VersionsSound, UnbornUnused

LEMMA ReserveSaves ==
  ASSUME IInv, [Next]_vars, NEW p \in Runners, Reserve(p)
  PROVE  \E c \in Tasks : \E n : Saves(c, n)
<1>1. p \in DOMAIN args /\ pc[p] = "loaded" /\ held # None
  BY DEF Reserve, IInv, TypeOK
<1>2. args[p] \in Args /\ args[p].task \in Tasks
  BY <1>1 DEF IInv, TypeOK, Args
<1>c. PICK c \in Tasks : c = args[p].task
  BY <1>2
<1>e. PICK e : e = held.registry[c]
  OBVIOUS
<1>3. c = args[p].task /\ e = held.registry[c]
  BY <1>c, <1>e
<1>4. Sound(e, c) /\ Begins(p)
  BY <1>1, <1>3, FoundEntry DEF Reserve, Begins
<1>5. PICK kept \in Keepable(e) :
         Affordable(e, args[p].timeout, kept) /\ Save(c, Reserving(e, p, kept))
  BY <1>3 DEF Reserve, Found
<1>6. kept \in SUBSET e.active
  BY DEF Keepable
<1>7. PICK n : n = Reserving(e, p, kept)
  OBVIOUS
<1>8. e.failures = 0 /\ MayJoin(e, args[p].run) /\ UNCHANGED tasks
  BY <1>3 DEF Reserve, Found, tasks
<1>9. Sound(n, c)' /\ (Faithful(e, c) => Faithful(n, c)')
  BY <1>3, <1>4, <1>5, <1>6, <1>7, <1>8, ReservedEntry DEF IInv
<1>10. \A q \in Runners : due'[q] # due[q] => args[q].task = c
  BY <1>3 DEF Reserve, IInv, TypeOK
<1>11. ~Unborn(c)
  BY <1>1, <1>3 DEF IInv, UnbornUnused
<1>12. Saves(c, n)
  BY <1>1, <1>3, <1>5, <1>7, <1>8, <1>9, <1>10, <1>11, SoundIsBudget DEF Saves
<1> QED
  BY <1>12

LEMMA FinishSaves ==
  ASSUME IInv, [Next]_vars, NEW p \in Runners, NEW x \in 1..(args[p].timeout + Grace),
         NEW f \in Failure, Finish(p, x, f)
  PROVE  \E c \in Tasks : \E n : Saves(c, n)
<1>1. p \in DOMAIN args /\ held # None
  BY DEF Finish, IInv, TypeOK
<1>2. args[p] \in Args /\ args[p].task \in Tasks /\ args[p].timeout \in Nat
  BY <1>1, SecondsFit DEF IInv, Args
<1>c. PICK c \in Tasks : c = args[p].task
  BY <1>2
<1>e. PICK e : e = held.registry[c]
  OBVIOUS
<1>3. c = args[p].task /\ e = held.registry[c]
  BY <1>c, <1>e
<1>4. x \in Nat \ {0}
  BY <1>2, BudgetAssumption
<1>5. Sound(e, c) /\ Ends(p, x) /\ p \in e.active
  BY <1>1, <1>3, FoundEntry DEF Finish, Ends, Found
<1>6. PICK n : n = Settling(e, p, x, f)
  OBVIOUS
<1>7. Save(c, n) /\ UNCHANGED tasks
  BY <1>3, <1>6 DEF Finish, Found, tasks
<1>8. Sound(n, c)' /\ (Faithful(e, c) => Faithful(n, c)')
  BY <1>3, <1>4, <1>5, <1>6, SettledEntry DEF IInv
<1>9. \A q \in Runners : due'[q] # due[q] => args[q].task = c
  BY <1>3 DEF Finish, IInv, TypeOK
<1>10. ~Unborn(c)
  BY <1>1, <1>3 DEF IInv, UnbornUnused
<1>11. Saves(c, n)
  BY <1>1, <1>3, <1>7, <1>8, <1>9, <1>10, SoundIsBudget DEF Saves
<1> QED
  BY <1>11

LEMMA PrepareSaves ==
  ASSUME IInv, [Next]_vars, NEW c \in 0..born, NEW launch \in Launch, Prepare(c, launch)
  PROVE  \E d \in Tasks : \E n : Saves(d, n)
<1>1. c \in Tasks /\ held # None
  BY BudgetAssumption DEF Prepare, IInv, TypeOK, Tasks
<1>2. PICK e : e = held.registry[c]
  OBVIOUS
<1>3. Sound(e, c) /\ e.failures > 0
  BY <1>1, <1>2, FoundEntry DEF Prepare, Found
<1>4. PICK kept \in Keepable(e) : Save(c, Reconciled(e, kept))
  BY <1>2 DEF Prepare, Found
<1>5. kept \in SUBSET e.active
  BY DEF Keepable
<1>6. PICK n : n = Reconciled(e, kept)
  OBVIOUS
<1>7. Sound(n, c) /\ (Faithful(e, c) => Faithful(n, c))
  BY <1>3, <1>5, <1>6, ReconciledEntry DEF IInv
<1>8. due' = due /\ UNCHANGED tasks
  BY DEF Prepare, tasks
<1>9. Sound(n, c)' /\ (Faithful(e, c) => Faithful(n, c)')
  BY <1>1, <1>7, <1>8, SoundStays, FaithfulStays DEF IInv
<1>10. ~Unborn(c)
  BY <1>1, <1>2, <1>3, FoundEntry, UnusedEntry
<1>11. Saves(c, n)
  BY <1>1, <1>2, <1>4, <1>6, <1>8, <1>9, <1>10, SoundIsBudget DEF Saves
<1> QED
  BY <1>1, <1>11

LEMMA ApplySaves ==
  ASSUME IInv, [Next]_vars, NEW q \in requests, Apply(q)
  PROVE  \E c \in Tasks : \E n : Saves(c, n)
<1>1. q \in Request /\ held # None
  BY DEF Apply, IInv, TypeOK
<1>c. PICK c \in Tasks, launch \in Launch : c = q.task /\ launch = q.launch
  BY <1>1 DEF Request
<1>e. PICK e : e = held.registry[c]
  OBVIOUS
<1>2. c = q.task /\ launch = q.launch /\ e = held.registry[c]
  BY <1>c, <1>e
<1>3. Sound(e, c) /\ e.failures > 0 /\ e.active = {}
  BY <1>1, <1>2, FoundEntry DEF Apply, Found, RequestCurrent
<1>4. PICK n : n = Remedied(e, launch)
  OBVIOUS
<1>5. Save(c, n) /\ due' = due /\ UNCHANGED tasks /\ Waits
      /\ decisions' = [decisions EXCEPT ![c] = @ + 1]
  BY <1>2, <1>4 DEF Apply, Found, runner, Waits
<1>6. decisions'[c] = decisions[c] + 1
  BY <1>5 DEF IInv, TypeOK
<1>7. Sound(n, c)' /\ (Faithful(e, c) => Faithful(n, c)')
  BY <1>3, <1>4, <1>5, <1>6, RemediedEntry DEF IInv
<1>8. ~Unborn(c)
  BY <1>1, <1>2, <1>3, FoundEntry, UnusedEntry
<1>9. Saves(c, n)
  BY <1>1, <1>2, <1>5, <1>7, <1>8, SoundIsBudget DEF Saves
<1> QED
  BY <1>9

\* The steps that neither write the registry nor belong to a start.
Looks ==
    /\ UNCHANGED <<registry, start, tasks, due, decisions>>
    /\ held' \in {None, held} \/ held' = [registry |-> registry, task |-> present]

LEMMA StepKinds ==
  ASSUME IInv, [Next]_vars
  PROVE  \/ \E c \in Tasks : \E n : Saves(c, n)
         \/ Looks
         \/ Start
<1>1. CASE Lock \/ Unlock \/ UNCHANGED vars
  BY <1>1 DEF Lock, Unlock, vars, Looks
<1>2. ASSUME NEW p \in Runners, Runner(p)
      PROVE  (\E c \in Tasks : \E n : Saves(c, n)) \/ Looks
  <2>1. ASSUME NEW a \in Args, LoadReceipt(p, a) PROVE Looks
    BY <2>1 DEF LoadReceipt, Looks
  <2>2. CASE WriteReceipt(p)
    BY <2>2 DEF WriteReceipt, Looks
  <2>3. CASE Die(p)
    BY <2>3 DEF Die, Looks
  <2> QED
    BY <1>2, <2>1, <2>2, <2>3, ReserveSaves, FinishSaves DEF Runner
<1> QED
  BY <1>1, <1>2, PrepareSaves, ApplySaves DEF Next

\* What a start does to the record of it.
LEMMA StartKeeps ==
  ASSUME TypeOK, Start, start # None
  PROVE  /\ start' # None =>
               /\ start'.from = start.from /\ start'.backup = start.backup
               /\ start'.touched = start.touched
               /\ start' \in Begun
         /\ reopened \subseteq reopened' /\ born' = born
<1>0. start \in Begun
  BY StartIsBegun
<1> DEFINE Keeps ==
    /\ start'.from = start.from /\ start'.backup = start.backup
    /\ start'.touched = start.touched /\ start' \in Begun
<1>1. ASSUME NEW phase \in {"journaled", "emptied", "committed", "synced", "undone", "back"},
             start' = [start EXCEPT !.phase = phase]
      PROVE  Keeps
  BY <1>0, <1>1 DEF Begun
<1>2. CASE EmptyRegistry
  BY <1>1, <1>2 DEF EmptyRegistry, Proceed, tasks
<1>3. CASE CommitTask
  BY <1>1, <1>3 DEF CommitTask, Proceed
<1>4. CASE SyncContext
  BY <1>1, <1>4 DEF SyncContext, tasks
<1>5. CASE EndStart
  BY <1>5 DEF EndStart, tasks
<1>6. CASE StartDies
  <2>1. start' = [start EXCEPT !.alive = FALSE]
    BY <1>6 DEF StartDies
  <2>2. Keeps
    BY <1>0, <2>1 DEF Begun
  <2> QED
    BY <1>6, <2>2 DEF StartDies, tasks
<1>7. CASE UndoTask
  <2>1. start' = [start EXCEPT !.phase = "undone", !.alive = TRUE]
    BY <1>7 DEF UndoTask
  <2>2. Keeps
    BY <1>0, <2>1 DEF Begun
  <2> QED
    BY <1>7, <2>2 DEF UndoTask
<1>8. CASE PutBack
  BY <1>1, <1>8 DEF PutBack, Proceed
<1>9. CASE Forget
  BY <1>9 DEF Forget
<1> QED
  BY <1>2, <1>3, <1>4, <1>5, <1>6, <1>7, <1>8, <1>9 DEF Start, BeginStart

(***************************************************************************)
(* One lemma per part of the invariant.                                    *)
(***************************************************************************)
LEMMA TypeStep ==
  ASSUME IInv, [Next]_vars
  PROVE  TypeOK'
<1> USE DEF TypeOK
<1>t. TypeOK
  BY DEF IInv
<1>d. decisions' \in [Tasks -> Nat]
  <2>1. \A c \in Tasks : decisions'[c] \in Nat
    BY <1>t, StepMoves
  <2>2. decisions' = decisions \/ \E q \in requests : decisions' = [decisions EXCEPT ![q.task] = @ + 1]
    BY DEF Next, Lock, Unlock, Runner, LoadReceipt, Reserve, WriteReceipt, Finish, Die, Prepare, Apply,
           Start, BeginStart, EmptyRegistry, CommitTask, SyncContext, EndStart, StartDies, UndoTask,
           PutBack, Forget, vars
  <2> QED
    BY <1>t, <2>1, <2>2
<1>v. registry' \in Registry /\ held' \in Held \cup {None} /\ start' \in Begun \cup {None}
      /\ born' \in Tasks /\ present' \in 0..born' /\ reopened' \subseteq Tasks
  <2>1. ASSUME NEW c \in Tasks, NEW n, Saves(c, n)
        PROVE  registry' \in Registry /\ held' \in Held \cup {None} /\ start' \in Begun \cup {None}
    BY <1>t, <2>1, SaveFits DEF Saves
  <2>2. ASSUME NEW c \in Tasks, NEW n, Saves(c, n)
        PROVE  born' \in Tasks /\ present' \in 0..born' /\ reopened' \subseteq Tasks
    BY <1>t, <2>2 DEF Saves, tasks
  <2>3. present \in Tasks
    BY <1>t, BudgetAssumption DEF Tasks
  <2>4. CASE Looks
    <3>1. [registry |-> registry, task |-> present] \in Held
      BY <1>t, <2>3 DEF Held
    <3> QED
      BY <1>t, <2>4, <3>1 DEF Looks, tasks
  <2>5. CASE BeginStart
    <3>1. born + 1 \in Tasks /\ present \in 0..(born + 1)
      BY <1>t, <2>5, BudgetAssumption DEF BeginStart, Tasks
    <3>2. [phase |-> "journaled", from |-> present, backup |-> registry,
           alive |-> TRUE, touched |-> FALSE] \in Begun
      BY <1>t, <2>3 DEF Begun
    <3> QED
      BY <1>t, <2>5, <3>1, <3>2 DEF BeginStart
  <2>6. CASE Start /\ start # None
    <3>1. start' \in Begun \cup {None} /\ born' = born
      BY <1>t, <2>6, StartKeeps
    <3>2. start \in Begun /\ start.from \in Tasks /\ start.backup \in Registry
      BY <1>t, <2>6, StartIsBegun DEF Begun
    <3>3. registry' \in Registry /\ held' = held
      BY <1>t, <2>6, <3>2, EmptyIsUnused
         DEF Start, BeginStart, EmptyRegistry, CommitTask, SyncContext, EndStart, StartDies, UndoTask,
             PutBack, Forget
    <3>4. reopened' \subseteq Tasks
      BY <1>t, <2>6, <3>2
         DEF Start, BeginStart, EmptyRegistry, CommitTask, SyncContext, EndStart, StartDies, UndoTask,
             PutBack, Forget, Forgotten, tasks
    <3>5. present' \in {present, born, start.from}
      BY <2>6
         DEF Start, BeginStart, EmptyRegistry, CommitTask, SyncContext, EndStart, StartDies, UndoTask,
             PutBack, Forget, tasks
    <3>6. start.from \in 0..born
      BY <1>t, <2>6, <3>2, BudgetAssumption DEF IInv, StartFits, Tasks
    <3>7. present' \in 0..born'
      BY <1>t, <3>1, <3>5, <3>6, BudgetAssumption DEF Tasks
    <3> QED
      BY <1>t, <3>1, <3>3, <3>4, <3>7
  <2>7. CASE Start
    BY <2>5, <2>6, <2>7
       DEF Start, EmptyRegistry, CommitTask, SyncContext, EndStart, StartDies, UndoTask, PutBack, Forget,
           Proceed
  <2> QED
    BY <2>1, <2>2, <2>4, <2>7, StepKinds
<1> DEFINE RunnersFit ==
    /\ receipts \in [Tasks -> [Runs -> SUBSET Cases]]
    /\ pc \in [Runners -> Phases]
    /\ DOMAIN args \subseteq Runners
    /\ \A p \in DOMAIN args : args[p] \in Args
    /\ \A p \in Runners : pc[p] # "idle" => p \in DOMAIN args
    /\ loaded \in [Runners -> SUBSET Cases]
    /\ due \in [Runners -> Nat]
<1>f. RunnersFit
  BY <1>t
<1>r. RunnersFit'
  <2>1. ASSUME UNCHANGED <<runner, due>> PROVE RunnersFit'
    BY <1>f, <2>1 DEF runner
  <2>2. ASSUME NEW p \in Runners, NEW a \in Args, LoadReceipt(p, a) PROVE RunnersFit'
    <3>1. a.task \in Tasks /\ a.run \in Runs
      BY DEF Args
    <3>2. receipts' \in [Tasks -> [Runs -> SUBSET Cases]] /\ due' \in [Runners -> Nat]
      BY <1>f, <2>2 DEF LoadReceipt
    <3>3. loaded' \in [Runners -> SUBSET Cases]
      <4>1. receipts[a.task][a.run] \in SUBSET Cases
        BY <1>f, <3>1
      <4>2. loaded' = [loaded EXCEPT ![p] = receipts[a.task][a.run]]
        BY <2>2 DEF LoadReceipt
      <4> QED
        BY <1>f, <4>1, <4>2
    <3>4. pc' \in [Runners -> Phases]
      BY <1>f, <2>2 DEF LoadReceipt, Phases
    <3>5. /\ DOMAIN args' \subseteq Runners
          /\ \A q \in DOMAIN args' : args'[q] \in Args
          /\ \A q \in Runners : pc'[q] # "idle" => q \in DOMAIN args'
      BY <1>f, <2>2 DEF LoadReceipt
    <3> QED
      BY <3>2, <3>3, <3>4, <3>5
  <2>3. ASSUME NEW p \in Runners, Reserve(p) PROVE RunnersFit'
    <3>1. p \in DOMAIN args /\ pc' = [pc EXCEPT ![p] = "running"]
          /\ due' = [due EXCEPT ![p] = args[p].timeout]
          /\ receipts' = receipts /\ args' = args /\ loaded' = loaded
      BY <1>f, <2>3 DEF Reserve
    <3>2. args[p].timeout \in Nat
      BY <1>t, <3>1, SecondsFit
    <3> QED
      BY <1>f, <3>1, <3>2 DEF Phases
  <2>4. ASSUME NEW p \in Runners, WriteReceipt(p) PROVE RunnersFit'
    <3>1. p \in DOMAIN args /\ pc' = [pc EXCEPT ![p] = "reported"]
          /\ receipts' = [receipts EXCEPT ![args[p].task][args[p].run] = loaded[p] \cup {args[p].case}]
          /\ args' = args /\ loaded' = loaded /\ due' = due
      BY <1>f, <2>4 DEF WriteReceipt
    <3>2. PICK c \in Tasks, r \in Runs, cases \in SUBSET Cases :
             c = args[p].task /\ r = args[p].run /\ cases = loaded[p] \cup {args[p].case}
      BY <1>f, <3>1 DEF Args
    <3>3. receipts' = [receipts EXCEPT ![c] = [receipts[c] EXCEPT ![r] = cases]]
      BY <1>f, <3>1, <3>2
    <3>4. receipts' \in [Tasks -> [Runs -> SUBSET Cases]]
      BY <1>f, <3>2, <3>3
    <3> QED
      BY <1>f, <3>1, <3>4 DEF Phases
  <2>5. ASSUME NEW p \in Runners, NEW x \in 1..(args[p].timeout + Grace), NEW f \in Failure, Finish(p, x, f)
        PROVE  RunnersFit'
    <3>1. p \in DOMAIN args /\ pc' = [pc EXCEPT ![p] = "done"] /\ due' = [due EXCEPT ![p] = x]
          /\ receipts' = receipts /\ args' = args /\ loaded' = loaded
      BY <1>f, <2>5 DEF Finish
    <3>2. args[p].timeout \in Nat
      BY <1>t, <3>1, SecondsFit
    <3>3. x \in Nat
      BY <3>2, BudgetAssumption
    <3> QED
      BY <1>f, <3>1, <3>3 DEF Phases
  <2>6. ASSUME NEW p \in Runners, Die(p) PROVE RunnersFit'
    BY <1>f, <2>6 DEF Die, Phases
  <2>7. ASSUME NEW p \in Runners, Runner(p) PROVE RunnersFit'
    BY <2>2, <2>3, <2>4, <2>5, <2>6, <2>7 DEF Runner
  <2>8. UNCHANGED <<runner, due>> \/ \E p \in Runners : Runner(p)
    BY DEF Next, Lock, Unlock, Prepare, Apply, vars, Start, BeginStart, EmptyRegistry, CommitTask,
           SyncContext, EndStart, StartDies, UndoTask, PutBack, Forget
  <2> QED
    BY <2>1, <2>7, <2>8
<1>q. requests' \in SUBSET Request /\ published' \in Nat
  <2>1. requests' = requests \/ \E c \in 0..born, launch \in Launch : Prepare(c, launch)
    BY DEF Next, Lock, Unlock, Runner, LoadReceipt, Reserve, WriteReceipt, Finish, Die, Apply,
           Start, BeginStart, EmptyRegistry, CommitTask, SyncContext, EndStart, StartDies, UndoTask,
           PutBack, Forget, vars
  <2>2. ASSUME NEW c \in 0..born, NEW launch \in Launch, Prepare(c, launch)
        PROVE  requests' \in SUBSET Request
    <3>1. c \in Tasks /\ held # None
      BY <1>t, <2>2, BudgetAssumption DEF Prepare, Tasks
    <3>2. held.registry[c] \in Budget
      BY <3>1, FoundEntry DEF Sound
    <3>3. held.registry[c].failures \in Nat /\ held.registry[c].latest \in Nat
      BY <3>2 DEF Budget
    <3>4. requests' = requests \cup
             {[task |-> c, launch |-> launch, failures |-> held.registry[c].failures,
               receipt |-> held.registry[c].latest]}
      BY <2>2 DEF Prepare, Found
    <3> QED
      BY <1>t, <3>1, <3>3, <3>4 DEF Request
  <2>3. published' = published \/ published' = published + 1
    BY DEF Next, Lock, Unlock, Runner, LoadReceipt, Reserve, WriteReceipt, Finish, Die, Prepare, Apply,
           Publish, Start, BeginStart, EmptyRegistry, CommitTask, SyncContext, EndStart, StartDies,
           UndoTask, PutBack, Forget, vars
  <2> QED
    BY <1>t, <2>1, <2>2, <2>3
<1> QED
  BY <1>d, <1>v, <1>r, <1>q

LEMMA DuesStep ==
  ASSUME IInv, [Next]_vars
  PROVE  DuesFit'
<1>t. TypeOK /\ DuesFit
  BY DEF IInv
<1>m. Moves
  BY <1>t, StepMoves
<1>1. CASE Waits
  BY <1>t, <1>1 DEF Waits, DuesFit
<1>2. ASSUME NEW p \in Runners, Loads(p) PROVE DuesFit'
  <2>1. pc'[p] = "loaded" /\ due'[p] = 0
    BY <1>t, <1>2 DEF Loads, DuesFit, TypeOK
  <2>2. \A q \in Runners \ {p} : pc'[q] = pc[q] /\ due'[q] = due[q]
                              /\ (pc[q] # "idle" => args'[q] = args[q])
    BY <1>t, <1>2 DEF Loads, TypeOK
  <2> QED
    BY <1>t, <2>1, <2>2 DEF DuesFit
<1>3. ASSUME NEW p \in Runners, Begins(p) PROVE DuesFit'
  BY <1>t, <1>3 DEF Begins, DuesFit, TypeOK
<1>4. ASSUME NEW p \in Runners, NEW x \in Nat \ {0}, Ends(p, x) PROVE DuesFit'
  BY <1>t, <1>4 DEF Ends, DuesFit, TypeOK
<1> QED
  BY <1>m, <1>1, <1>2, <1>3, <1>4 DEF Moves

LEMMA StartStep ==
  ASSUME IInv, [Next]_vars
  PROVE  StartFits'
<1>t. TypeOK /\ StartFits /\ born \in Nat /\ present \in 0..born
  BY DEF IInv, TypeOK, Tasks
<1>1. ASSUME NEW c \in Tasks, NEW n, Saves(c, n) PROVE StartFits'
  BY <1>t, <1>1, SaveFits DEF Saves, tasks, StartFits
<1>2. CASE Looks
  BY <1>t, <1>2 DEF Looks, tasks, StartFits
<1>3. CASE BeginStart
  <2>1. start'.from = present /\ start'.phase = "journaled" /\ born' = born + 1 /\ present' = present
    BY <1>3 DEF BeginStart
  <2> QED
    BY <1>t, <2>1 DEF StartFits
<1>4. CASE Start /\ start # None
  <2>1. start \in Begun
    BY <1>t, <1>4, StartIsBegun
  <2>2. CASE EmptyRegistry
    <3>1. start'.phase = "emptied" /\ start'.from = start.from /\ present' = present /\ born' = born
          /\ start.phase = "journaled"
      BY <2>1, <2>2 DEF EmptyRegistry, Proceed, tasks, Begun
    <3> QED
      BY <1>t, <1>4, <3>1 DEF StartFits
  <2>3. CASE CommitTask
    <3>1. start'.phase = "committed" /\ start'.from = start.from /\ present' = born /\ born' = born
      BY <2>1, <2>3 DEF CommitTask, Proceed, Begun
    <3> QED
      BY <1>t, <1>4, <3>1 DEF StartFits
  <2>4. CASE SyncContext
    <3>1. start'.phase = "synced" /\ start'.from = start.from /\ present' = present /\ born' = born
          /\ start.phase = "committed"
      BY <2>1, <2>4 DEF SyncContext, tasks, Begun
    <3> QED
      BY <1>t, <1>4, <3>1 DEF StartFits
  <2>5. CASE EndStart \/ Forget
    BY <2>5 DEF EndStart, Forget, StartFits
  <2>6. CASE StartDies
    <3>1. start'.phase = start.phase /\ start'.from = start.from /\ present' = present /\ born' = born
      BY <2>1, <2>6 DEF StartDies, tasks, Begun
    <3> QED
      BY <1>t, <1>4, <3>1 DEF StartFits
  <2>7. CASE UndoTask
    <3>1. start'.phase = "undone" /\ start'.from = start.from /\ present' = start.from /\ born' = born
      BY <2>1, <2>7 DEF UndoTask, Begun
    <3> QED
      BY <1>t, <1>4, <3>1 DEF StartFits
  <2>8. CASE PutBack
    <3>1. start'.phase = "back" /\ start'.from = start.from /\ present' = present /\ born' = born
          /\ start.phase = "undone"
      BY <2>1, <2>8 DEF PutBack, Proceed, Begun
    <3> QED
      BY <1>t, <1>4, <3>1 DEF StartFits
  <2> QED
    BY <1>4, <2>2, <2>3, <2>4, <2>5, <2>6, <2>7, <2>8 DEF Start, BeginStart
<1>5. CASE Start
  BY <1>3, <1>4, <1>5
     DEF Start, EmptyRegistry, CommitTask, SyncContext, EndStart, StartDies, UndoTask, PutBack, Forget,
         Proceed
<1> QED
  BY <1>1, <1>2, <1>5, StepKinds

\* Once a task was in TASK it does not come new again.
LEMMA UnbornShrinks ==
  ASSUME IInv, [Next]_vars, NEW c \in Tasks, Unborn(c)'
  PROVE  Unborn(c)
<1>t. TypeOK /\ born \in Nat /\ c \in Nat
  BY DEF IInv, TypeOK, Tasks
<1>1. ASSUME NEW d \in Tasks, NEW n, Saves(d, n) PROVE Unborn(c)
  BY <1>t, <1>1, SaveFits DEF Saves, tasks, Unborn
<1>2. CASE Looks
  BY <1>t, <1>2 DEF Looks, tasks, Unborn
<1>3. CASE BeginStart
  <2>1. born' = born + 1
    BY <1>3 DEF BeginStart
  <2> QED
    BY <1>t, <2>1 DEF Unborn
<1>4. CASE Start /\ start # None
  <2>1. born' = born /\ start \in Begun
    BY <1>t, <1>4, StartKeeps, StartIsBegun
  <2>2. CASE start' # None /\ start'.phase \in {"journaled", "emptied"}
    <3>1. start.phase \in {"journaled", "emptied"}
      BY <1>4, <2>1, <2>2
         DEF Start, BeginStart, EmptyRegistry, CommitTask, SyncContext, EndStart, StartDies, UndoTask,
             PutBack, Forget, Proceed, Begun
    <3> QED
      BY <1>4, <2>1, <3>1 DEF Unborn
  <2> QED
    BY <2>1, <2>2 DEF Unborn
<1>5. CASE Start
  BY <1>3, <1>4, <1>5
     DEF Start, EmptyRegistry, CommitTask, SyncContext, EndStart, StartDies, UndoTask, PutBack, Forget,
         Proceed
<1> QED
  BY <1>1, <1>2, <1>5, StepKinds

\* Where a version of the registry comes from.
LEMMA VersionsStep ==
  ASSUME IInv, [Next]_vars, NEW v \in Versions'
  PROVE  \/ v \in Versions
         \/ v = Empty
         \/ /\ v = registry' /\ held # None
            /\ \E c \in Tasks : \E n : Saves(c, n)
<1>t. TypeOK
  BY DEF IInv
<1>1. ASSUME NEW c \in Tasks, NEW n, Saves(c, n)
      PROVE  v \in Versions \/ (v = registry' /\ held # None)
  BY <1>t, <1>1, SaveFits DEF Saves, Versions, Current
<1>2. CASE Looks
  BY <1>2 DEF Looks, Versions, Current
<1>3. CASE Start
  <2>1. CASE BeginStart
    BY <2>1 DEF BeginStart, Versions, Current
  <2>2. CASE start # None
    <3>1. start' # None => start'.backup = start.backup
      BY <1>t, <1>3, <2>2, StartKeeps
    <3>2. held' = held /\ registry' \in {registry, Empty, start.backup}
      BY <1>3, <2>2
         DEF Start, BeginStart, EmptyRegistry, CommitTask, SyncContext, EndStart, StartDies, UndoTask,
             PutBack, Forget
    <3> QED
      BY <2>2, <3>1, <3>2 DEF Versions, Current
  <2> QED
    BY <1>3, <2>1, <2>2
       DEF Start, EmptyRegistry, CommitTask, SyncContext, EndStart, StartDies, UndoTask, PutBack, Forget,
           Proceed
<1> QED
  BY <1>1, <1>2, <1>3, StepKinds

LEMMA SoundStep ==
  ASSUME IInv, [Next]_vars
  PROVE  VersionsSound'
<1>t. TypeOK /\ DuesFit /\ VersionsSound
  BY DEF IInv
<1>1. ASSUME NEW v \in Versions', NEW c \in Tasks PROVE Sound(v[c], c)'
  <2>1. CASE v \in Versions
    BY <1>t, <2>1, SoundStays DEF VersionsSound
  <2>2. CASE v = Empty
    <3>1. v[c] = Unused
      BY <2>2, EmptyIsUnused
    <3>2. Sound(Unused, c)'
      BY <1>t, UnusedIsSound, SoundStays
    <3> QED
      BY <3>1, <3>2
  <2>3. ASSUME NEW d \in Tasks, NEW n, Saves(d, n), v = registry' PROVE Sound(v[c], c)'
    <3>1. v[d] = n /\ \A a \in Tasks \ {d} : v[a] = held.registry[a]
      BY <1>t, <2>3, SaveFits DEF Saves
    <3>2. CASE c = d
      BY <2>3, <3>1, <3>2 DEF Saves
    <3>3. CASE c # d
      <4>1. PICK e : e = held.registry[c]
        OBVIOUS
      <4>2. Sound(e, c)
        BY <2>3, <4>1, FoundEntry DEF Saves
      <4> QED
        BY <1>t, <3>1, <3>3, <4>1, <4>2, SoundStays
    <3> QED
      BY <3>2, <3>3
  <2> QED
    BY <2>1, <2>2, <2>3, VersionsStep
<1> QED
  BY <1>1 DEF VersionsSound

LEMMA UnusedStep ==
  ASSUME IInv, [Next]_vars
  PROVE  UnbornUnused'
<1>t. TypeOK /\ UnbornUnused /\ StartFits
  BY DEF IInv
<1>1. ASSUME NEW v \in Versions', NEW c \in Tasks, Unborn(c)' PROVE v[c] = Unused
  <2>0. Unborn(c)
    BY <1>1, UnbornShrinks
  <2>1. CASE v \in Versions
    BY <1>t, <2>0, <2>1 DEF UnbornUnused
  <2>2. CASE v = Empty
    BY <2>2, EmptyIsUnused
  <2>3. ASSUME NEW d \in Tasks, NEW n, Saves(d, n), v = registry' PROVE v[c] = Unused
    <3>1. c # d
      BY <2>0, <2>3 DEF Saves
    <3>2. v[c] = held.registry[c]
      BY <1>t, <2>3, <3>1, SaveFits DEF Saves
    <3> QED
      BY <2>0, <2>3, <3>2, FoundEntry DEF Saves
  <2> QED
    BY <2>1, <2>2, <2>3, VersionsStep
<1>2. ASSUME NEW c \in Tasks, Unborn(c)', NEW p \in DOMAIN args' PROVE args'[p].task # c
  <2>0. Unborn(c)
    BY <1>2, UnbornShrinks
  <2>1. CASE args' = args
    BY <1>2, <1>t, <2>0, <2>1 DEF UnbornUnused
  <2>2. ASSUME NEW q \in Runners, Loads(q) PROVE args'[p].task # c
    <3>1. args'[p].task = present \/ (p \in DOMAIN args /\ args'[p] = args[p])
      BY <1>2, <2>2 DEF Loads
    <3>2. present # c
      BY <1>t, <2>0, BudgetAssumption DEF Unborn, StartFits, TypeOK, Tasks
    <3> QED
      BY <1>t, <2>0, <3>1, <3>2 DEF UnbornUnused
  <2> QED
    BY <1>t, <2>1, <2>2, StepMoves DEF Moves, Waits, Begins, Ends
<1> QED
  BY <1>1, <1>2 DEF UnbornUnused

\* The budget in force stays faithful, whatever is written, put back or forgotten.
LEMMA CurrentStep ==
  ASSUME IInv, [Next]_vars
  PROVE  CurrentFaithful'
<1>t. TypeOK /\ DuesFit /\ StartFits /\ VersionsSound /\ present \in Tasks /\ Current \subseteq Versions
  BY BudgetAssumption DEF IInv, TypeOK, Tasks, Versions
<1> SUFFICES ASSUME InForce', NEW v \in Current', NEW c \in Tasks, c = present'
             PROVE  Faithful(v[c], c)'
  BY DEF CurrentFaithful
<1>n. ASSUME InForce, c = present, v \in Current, due' = due PROVE Faithful(v[c], c)'
  <2>1. Sound(v[c], c) /\ Faithful(v[c], c)
    BY <1>t, <1>n DEF IInv, CurrentFaithful, VersionsSound
  <2> QED
    BY <1>t, <1>n, <2>1, FaithfulStays
<1>b. ASSUME start # None, ~start.touched, start.from \notin reopened, c = start.from,
             v[c] = start.backup[c], due' = due
      PROVE  Faithful(v[c], c)'
  <2>1. PICK u \in Versions : u = start.backup
    BY <1>b DEF Versions
  <2>2. Sound(u[c], c) /\ Faithful(u[c], c)
    BY <1>b, <1>t, <2>1 DEF IInv, BackupFaithful, VersionsSound
  <2>3. Faithful(u[c], c)'
    BY <1>b, <1>t, <2>2, FaithfulStays
  <2> QED
    BY <1>b, <2>1, <2>3
<1>1. ASSUME NEW d \in Tasks, NEW n, Saves(d, n) PROVE Faithful(v[c], c)'
  <2>1. held # None /\ held' = None /\ v = registry' /\ c = present
        /\ v[d] = n /\ \A a \in Tasks \ {d} : v[a] = held.registry[a]
    BY <1>t, <1>1, SaveFits DEF Saves, Current, tasks
  <2>2. InForce
    BY <1>t, <1>1, <2>1, SaveFits DEF Saves, InForce, Torn, tasks
  <2>3. PICK u \in Current : u = held.registry
    BY <2>1 DEF Current
  <2>4. Faithful(u[c], c) /\ Sound(u[c], c)
    BY <1>t, <2>1, <2>2 DEF IInv, CurrentFaithful, VersionsSound
  <2>5. CASE c = d
    BY <1>1, <2>1, <2>3, <2>4, <2>5 DEF Saves
  <2>6. CASE c # d
    <3>1. \A p \in Runners : due'[p] # due[p] => args[p].task # c
      BY <1>1, <2>6 DEF Saves
    <3>2. Faithful(u[c], c)'
      BY <1>t, <2>4, <3>1, FaithfulStays
    <3> QED
      BY <2>1, <2>3, <2>6, <3>2
  <2> QED
    BY <2>5, <2>6
<1>2. CASE Looks
  BY <1>2, <1>n DEF Looks, Current, InForce, Torn, tasks
<1>3. CASE Start
  <2>d. due' = due
    BY <1>3, StartWaits DEF Waits
  <2>1. CASE BeginStart
    BY <1>n, <2>1, <2>d DEF BeginStart, Current, InForce, Torn
  <2>s. start # None => start \in Begun
    BY <1>t, StartIsBegun
  <2>2. CASE EmptyRegistry
    <3>1. start' # None /\ start'.phase = "emptied"
      <4>1. start' = [start EXCEPT !.phase = "emptied"] /\ start \in Begun
        BY <2>2, <2>s DEF EmptyRegistry, Proceed
      <4>2. start' \in Begun /\ start'.phase = "emptied"
        BY <4>1 DEF Begun
      <4> QED
        BY <4>2, BudgetAssumption
    <3> QED
      BY <3>1 DEF InForce, Torn
  <2>3. CASE CommitTask
    <3>1. c = born /\ Unborn(c) /\ v \in Current
      BY <2>3 DEF CommitTask, Proceed, Current, Unborn
    <3>2. v[c] = Unused /\ \A p \in DOMAIN args : args[p].task # c
      BY <1>t, <3>1 DEF IInv, UnbornUnused
    <3>3. Launches(c) = {}
      BY <3>2 DEF Launches
    <3>4. Sound(Unused, c) /\ Faithful(Unused, c)
      BY <1>t, <3>3, UnusedIsSound
    <3>5. Faithful(Unused, c)'
      BY <1>t, <2>d, <3>4, FaithfulStays
    <3> QED
      BY <3>2, <3>5
  <2>4. CASE SyncContext \/ EndStart \/ StartDies
    <3>1. v \in Current /\ c = present /\ reopened' = reopened
      BY <2>4 DEF SyncContext, EndStart, StartDies, Current, tasks
    <3>2. start' = None \/ start'.phase = start.phase \/ start.phase = "committed"
      BY <2>4, <2>s DEF SyncContext, EndStart, StartDies, Begun
    <3>3. ~Torn
      <4>1. CASE SyncContext \/ EndStart
        BY <4>1 DEF SyncContext, EndStart, Torn
      <4>2. CASE StartDies
        <5>1. start' = [start EXCEPT !.alive = FALSE] /\ start \in Begun
          BY <4>2, <2>s DEF StartDies
        <5>2. start' \in Begun /\ start'.phase = start.phase
          BY <5>1 DEF Begun
        <5>3. start' # None
          BY <5>2, BudgetAssumption
        <5> QED
          BY <5>2, <5>3 DEF InForce, Torn
      <4> QED
        BY <2>4, <4>1, <4>2
    <3> QED
      BY <1>n, <2>d, <3>1, <3>3 DEF InForce
  <2>5. CASE UndoTask
    <3>1. start' = [start EXCEPT !.phase = "undone", !.alive = TRUE] /\ start \in Begun
      BY <2>5, <2>s DEF UndoTask
    <3>2. start' \in Begun /\ start'.phase = "undone"
      BY <3>1 DEF Begun
    <3>3. start' # None
      BY <3>2, BudgetAssumption
    <3> QED
      BY <3>2, <3>3 DEF InForce, Torn
  <2>6. CASE PutBack
    <3>1. start # None /\ start.phase = "undone" /\ present' = present /\ registry' = start.backup /\ held' = held
      BY <2>6 DEF PutBack, Proceed
    <3>2. c = start.from
      BY <1>t, <3>1 DEF StartFits
    <3>3. c \notin reopened'
      BY DEF InForce
    <3>4. ~start.touched /\ ~(held # None /\ Moved(held.registry)) /\ start.from \notin reopened
      BY <2>6, <3>2, <3>3 DEF PutBack
    <3>5. v[c] = start.backup[c]
      BY <3>1, <3>2, <3>4 DEF Current, Moved
    <3> QED
      BY <1>b, <2>d, <3>1, <3>2, <3>4, <3>5
  <2>7. CASE Forget
    <3>1. start # None /\ present' = present /\ registry' = registry /\ held' = held
          /\ reopened' = reopened \cup Forgotten
      BY <2>7 DEF Forget
    <3>2. v \in Current /\ c = present /\ c \notin reopened /\ c \notin Forgotten
      BY <3>1 DEF Current, InForce
    <3>3. CASE Torn
      <4>1. c = start.from
        BY <1>t, <3>1, <3>2, <3>3 DEF StartFits, Torn
      <4>2. ~start.touched /\ ~Moved(registry) /\ ~(held # None /\ Moved(held.registry))
        BY <3>2, <3>3, <4>1 DEF Forgotten
      <4>3. v[c] = start.backup[c]
        BY <3>2, <4>1, <4>2 DEF Current, Moved
      <4> QED
        BY <1>b, <2>d, <3>1, <3>2, <4>1, <4>2, <4>3
    <3>4. CASE ~Torn
      BY <1>n, <2>d, <3>2, <3>4 DEF InForce
    <3> QED
      BY <3>3, <3>4
  <2> QED
    BY <1>3, <2>1, <2>2, <2>3, <2>4, <2>5, <2>6, <2>7 DEF Start
<1> QED
  BY <1>1, <1>2, <1>3, StepKinds

\* What a start has backed up stays faithful until a command writes over it.
LEMMA BackupStep ==
  ASSUME IInv, [Next]_vars
  PROVE  BackupFaithful'
<1>t. TypeOK /\ DuesFit /\ VersionsSound /\ present \in Tasks
  BY BudgetAssumption DEF IInv, TypeOK, Tasks
<1> SUFFICES ASSUME start' # None, ~start'.touched, start'.from \notin reopened',
                    NEW v \in Versions', NEW c \in Tasks, v = start'.backup, c = start'.from
             PROVE  Faithful(v[c], c)'
  BY DEF BackupFaithful
<1>b. ASSUME start # None, ~start.touched, start.from \notin reopened, v = start.backup, c = start.from,
             \A p \in Runners : due'[p] # due[p] => args[p].task # c
      PROVE  Faithful(v[c], c)'
  <2>1. v \in Versions
    BY <1>b DEF Versions
  <2>2. Sound(v[c], c) /\ Faithful(v[c], c)
    BY <1>b, <1>t, <2>1 DEF IInv, BackupFaithful, VersionsSound
  <2> QED
    BY <1>b, <1>t, <2>2, FaithfulStays
<1>1. ASSUME NEW d \in Tasks, NEW n, Saves(d, n) PROVE Faithful(v[c], c)'
  <2>1. start # None /\ start'.from = start.from /\ start'.backup = start.backup
        /\ ~start.touched /\ d # start.from
    BY <1>t, <1>1, SaveFits DEF Saves
  <2>2. reopened' = reopened /\ \A p \in Runners : due'[p] # due[p] => args[p].task = d
    BY <1>1 DEF Saves, tasks
  <2> QED
    BY <1>b, <2>1, <2>2
<1>2. CASE Looks
  BY <1>2, <1>b DEF Looks, tasks
<1>3. CASE BeginStart
  <2>1. start = None /\ start' = [phase |-> "journaled", from |-> present, backup |-> registry,
                                  alive |-> TRUE, touched |-> FALSE]
        /\ reopened' = reopened /\ due' = due
    BY <1>3 DEF BeginStart
  <2>2. v = registry /\ c = present
    BY <2>1
  <2>3. InForce
    BY <2>1, <2>2 DEF InForce, Torn
  <2>4. v \in Current /\ v \in Versions
    BY <2>2 DEF Current, Versions
  <2>5. Sound(v[c], c) /\ Faithful(v[c], c)
    BY <1>t, <2>2, <2>3, <2>4 DEF IInv, CurrentFaithful, VersionsSound
  <2> QED
    BY <1>t, <2>1, <2>5, FaithfulStays
<1>4. CASE Start /\ start # None
  <2>1. /\ start'.from = start.from /\ start'.backup = start.backup
        /\ start'.touched = start.touched
        /\ reopened \subseteq reopened'
    BY <1>t, <1>4, StartKeeps
  <2>2. due' = due
    BY <1>4, StartWaits DEF Waits
  <2> QED
    BY <1>4, <1>b, <2>1, <2>2
<1>5. CASE Start
  BY <1>3, <1>4, <1>5
     DEF Start, EmptyRegistry, CommitTask, SyncContext, EndStart, StartDies, UndoTask, PutBack, Forget,
         Proceed
<1> QED
  BY <1>1, <1>2, <1>5, StepKinds

LEMMA InitInv == Init => IInv
<1> SUFFICES ASSUME Init PROVE IInv
  OBVIOUS
<1>0. 0 \in Tasks /\ registry = Empty /\ Empty \in Registry /\ \A c \in Tasks : Empty[c] = Unused
  BY EmptyIsUnused, BudgetAssumption DEF Init, Tasks
<1>1. TypeOK
  BY <1>0 DEF Init, TypeOK, Phases
<1>2. DuesFit /\ StartFits
  BY DEF Init, DuesFit, StartFits
<1>3. Versions = {Empty} /\ Current = {Empty}
  BY DEF Init, Versions, Current
<1>4. \A c \in Tasks : Launches(c) = {}
  BY DEF Init, Launches
<1>5. \A c \in Tasks : Sound(Unused, c) /\ Faithful(Unused, c)
  BY <1>1, <1>4, UnusedIsSound
<1>6. VersionsSound /\ CurrentFaithful
  BY <1>0, <1>3, <1>5 DEF VersionsSound, CurrentFaithful
<1>7. UnbornUnused
  BY <1>0, <1>3 DEF Init, UnbornUnused
<1>8. BackupFaithful
  BY DEF Init, BackupFaithful
<1> QED
  BY <1>1, <1>2, <1>6, <1>7, <1>8 DEF IInv

\* What the invariant says of the budget in force, and of every budget in the file.
LEMMA InForceIsFaithful ==
  ASSUME IInv, InForce
  PROVE  Faithful(registry[present], present) /\ Sound(registry[present], present)
<1>1. present \in Tasks
  BY BudgetAssumption DEF IInv, TypeOK, Tasks
<1>2. registry \in Current /\ registry \in Versions
  BY DEF Current, Versions
<1> QED
  BY <1>1, <1>2 DEF IInv, CurrentFaithful, VersionsSound

LEMMA FileIsSound ==
  ASSUME IInv, NEW c \in Tasks
  PROVE  Sound(registry[c], c)
<1>1. registry \in Versions
  BY DEF Current, Versions
<1> QED
  BY <1>1 DEF IInv, VersionsSound

(***************************************************************************)
(* The theorems, for any sets of runners, runs, cases and timeouts.        *)
(***************************************************************************)

\* The protocol of attempts, failures and decisions (reserve_budget,
\* finish_budget, apply_infrastructure_remediation) and the starts that write
\* the registry without the lock keep the invariant.
THEOREM Invariance == Spec => []IInv
<1>1. IInv /\ [Next]_vars => IInv'
  <2> SUFFICES ASSUME IInv, [Next]_vars PROVE IInv'
    OBVIOUS
  <2> QED
    BY TypeStep, DuesStep, StartStep, SoundStep, UnusedStep, CurrentStep, BackupStep DEF IInv
<1> QED
  BY InitInv, <1>1, PTL DEF Spec

\* While a decision waits for its launch nothing runs and no failure is open, in the
\* budget of any candidate and whichever version a start puts back.
THEOREM AllowanceWaitsAlone == Spec => []AllowanceIsQuiet
<1>1. IInv => AllowanceIsQuiet
  BY FileIsSound DEF AllowanceIsQuiet, Sound
<1> QED
  BY Invariance, <1>1, PTL

\* Every run id that was launched on the candidate in force, beyond the first, is
\* paid for with a human decision.
THEOREM FurtherRunsArePaid == Spec => []RunsNeedDecisions
<1>1. IInv => RunsNeedDecisions
  BY InForceIsFaithful DEF RunsNeedDecisions, Sound, Faithful
<1> QED
  BY Invariance, <1>1, PTL

\* Every launch on the candidate in force is charged exactly once, however runners
\* overlap, die and are taken for dead, whoever reconciles (reconcile_reservations,
\* finish_budget), and wherever a start, its rollback or its restore gets between.
THEOREM LaunchesAreChargedOnce == Spec => []ChargedOnce
<1>1. IInv => ChargedOnce
  BY InForceIsFaithful DEF ChargedOnce, Faithful
<1> QED
  BY Invariance, <1>1, PTL

\* The wall time of the mode is exceeded at most by what runners needed to end
\* after their timeouts (reserve_budget).
THEOREM BudgetIsKept == Spec => []BudgetHolds
<1>1. IInv => BudgetHolds
  BY FileIsSound DEF BudgetHolds, Sound
<1> QED
  BY Invariance, <1>1, PTL

(***************************************************************************)
(* FailureLedger.                                                          *)
(***************************************************************************)
\* Induction over the naturals: of the naturals in Bad one is the least.
LEMMA LeastNatural ==
  ASSUME NEW Bad \in SUBSET Nat, Bad # {}
  PROVE  \E n \in Bad : \A k \in Bad : n <= k
<1>1. PICK n \in Bad : \A k \in Bad : ~ (<<k, n>> \in OpToRel(<, Nat))
  BY NatLessThanWellFounded, WFMin
<1>2. \A k \in Bad : ~ (k < n)
  BY <1>1 DEF OpToRel
<1> QED
  BY <1>2

(***************************************************************************)
(* The entries of a chain of rollback archives.                            *)
(***************************************************************************)
\* How the entries of a chain are put together.
Joins(g, c) ==
    g = [n \in 0..Len(c) |-> IF n = 0 THEN <<>> ELSE g[n - 1] \o c[n].entries]
Prefix(c, n) == SubSeq(c, 1, n)

LEMMA EntriesIs == \A c : ArchivedEntries(c) = (CHOOSE g : Joins(g, c))[Len(c)]
  BY DEF ArchivedEntries, Joins

LEMMA JoinsOnce ==
  ASSUME NEW c, Len(c) \in Nat, NEW g, NEW h, Joins(g, c), Joins(h, c)
  PROVE  \A n \in 0..Len(c) : g[n] = h[n]
<1> DEFINE Bad == {n \in 0..Len(c) : g[n] # h[n]}
<1> SUFFICES ASSUME Bad # {} PROVE FALSE
  OBVIOUS
<1>1. PICK n \in Bad : \A k \in Bad : n <= k
  <2>1. Bad \in SUBSET Nat
    OBVIOUS
  <2> HIDE DEF Bad
  <2> QED
    BY <2>1, LeastNatural
<1>2. n # 0
  BY DEF Joins
<1>3. n - 1 \in 0..Len(c) /\ n - 1 \notin Bad
  BY <1>1, <1>2
<1>4. g[n - 1] = h[n - 1]
  BY <1>3
<1>5. g[n] = g[n - 1] \o c[n].entries /\ h[n] = h[n - 1] \o c[n].entries
  BY <1>2 DEF Joins
<1> QED
  BY <1>4, <1>5

LEMMA EntriesRule ==
  ASSUME NEW X, NEW c \in Seq(X), c # <<>>
  PROVE  ArchivedEntries(c) = ArchivedEntries(Prefix(c, Len(c) - 1)) \o c[Len(c)].entries
<1> DEFINE By(k) == IF k = 0 THEN <<>> ELSE ArchivedEntries(Prefix(c, k - 1)) \o c[k].entries
<1> DEFINE Bad == {n \in 0..Len(c) : ArchivedEntries(Prefix(c, n)) # By(n)}
<1>1. Bad = {}
  <2> SUFFICES ASSUME Bad # {} PROVE FALSE
    OBVIOUS
  <2>1. PICK n \in Bad : \A k \in Bad : n <= k
    <3> HIDE DEF By
    <3>1. Bad \in SUBSET Nat
      OBVIOUS
    <3> HIDE DEF Bad
    <3> QED
      BY <3>1, LeastNatural
  <2> DEFINE p == Prefix(c, n)
  <2>2. Len(p) = n /\ \A k \in 1..n : p[k] = c[k]
    BY DEF Prefix
  <2> DEFINE h == [k \in 0..n |-> By(k)]
  <2>3. ASSUME NEW k \in 0..n, k # n
        PROVE  h[k] = ArchivedEntries(Prefix(c, k))
    <3> HIDE DEF By
    <3>1. k \in 0..Len(c) /\ k \notin Bad
      BY <2>1, <2>3
    <3>2. ArchivedEntries(Prefix(c, k)) = By(k)
      BY <3>1
    <3> QED
      BY <3>2
  <2>4. ASSUME NEW k \in 0..n
        PROVE  h[k] = IF k = 0 THEN <<>> ELSE h[k - 1] \o p[k].entries
    <3>1. CASE k = 0
      BY <3>1
    <3>2. CASE k # 0
      <4>1. k - 1 \in 0..n /\ k - 1 # n /\ p[k] = c[k]
        BY <2>2, <3>2
      <4>2. h[k - 1] = ArchivedEntries(Prefix(c, k - 1))
        BY <2>3, <4>1
      <4> QED
        BY <3>2, <4>1, <4>2
    <3> QED
      BY <3>1, <3>2
  <2>5. Joins(h, p)
    <3> HIDE DEF By
    <3>1. h = [k \in 0..n |-> h[k]]
      OBVIOUS
    <3> HIDE DEF h, p
    <3> QED
      BY <2>2, <2>4, <3>1 DEF Joins
  <2>6. Joins(CHOOSE g : Joins(g, p), p)
    <3> HIDE DEF h, p
    <3> QED
      BY <2>5
  <2>7. (CHOOSE g : Joins(g, p))[n] = h[n]
    <3> HIDE DEF h, p
    <3> QED
      BY <2>2, <2>5, <2>6, JoinsOnce
  <2>8. ArchivedEntries(p) = By(n)
    <3>1. h[n] = By(n)
      OBVIOUS
    <3> HIDE DEF h, p, By
    <3> QED
      BY <2>2, <2>7, <3>1, EntriesIs
  <2> QED
    BY <2>1, <2>8
<1>2. Len(c) \in 0..Len(c) /\ Len(c) # 0 /\ Prefix(c, Len(c)) = c
  BY DEF Prefix
<1>3. ArchivedEntries(Prefix(c, Len(c))) = By(Len(c))
  BY <1>1, <1>2
<1> QED
  BY <1>2, <1>3

LEMMA EntriesNone == ArchivedEntries(<<>>) = <<>>
<1> DEFINE h == [n \in 0..0 |-> <<>>]
<1>1. Joins(h, <<>>)
  <2>1. h = [n \in 0..Len(<<>>) |-> IF n = 0 THEN <<>> ELSE h[n - 1] \o (<<>>)[n].entries]
    OBVIOUS
  <2> QED
    BY <2>1 DEF Joins
<1>2. Joins(CHOOSE g : Joins(g, <<>>), <<>>)
  <2> HIDE DEF h
  <2> QED
    BY <1>1
<1>3. (CHOOSE g : Joins(g, <<>>))[0] = <<>>
  BY <1>2 DEF Joins
<1> QED
  BY <1>3, EntriesIs

\* A node more holds its entries after those of the chain.
LEMMA EntriesAppend ==
  ASSUME NEW X, NEW c \in Seq(X), NEW n \in X
  PROVE  ArchivedEntries(Append(c, n)) = ArchivedEntries(c) \o n.entries
<1> DEFINE d == Append(c, n)
<1>1. d \in Seq(X) /\ d # <<>> /\ Len(d) = Len(c) + 1 /\ d[Len(d)] = n
  OBVIOUS
<1>2. Prefix(d, Len(d) - 1) = c
  BY DEF Prefix
<1>3. ArchivedEntries(d) = ArchivedEntries(Prefix(d, Len(d) - 1)) \o d[Len(d)].entries
  <2> HIDE DEF d
  <2> QED
    BY <1>1, EntriesRule
<1> QED
  BY <1>1, <1>2, <1>3

LEMMA PrefixGrows ==
  ASSUME NEW X, NEW c \in Seq(X), NEW n \in 1..Len(c)
  PROVE  /\ Prefix(c, n) = Append(Prefix(c, n - 1), c[n])
         /\ Prefix(c, n - 1) \in Seq(X)
         /\ c[n] \in X
<1>1. c[n] \in X
  BY ElementOfSeq
<1>2. Prefix(c, n - 1) \in Seq(X)
  <2>1. \A i \in 1..(n - 1) : c[i] \in X
    BY ElementOfSeq
  <2> QED
    BY <2>1, SubSeqProperties DEF Prefix
<1>3. Prefix(c, n) = Prefix(c, n - 1) \o <<c[n]>>
  BY SubSeqRecursiveSecond DEF Prefix
<1> QED
  BY <1>1, <1>2, <1>3, AppendIsConcat

\* A sequence cut in two.
LEMMA Divided ==
  ASSUME NEW X, NEW s \in Seq(X), NEW k \in 0..Len(s)
  PROVE  /\ SubSeq(s, 1, k) \in Seq(X)
         /\ Len(SubSeq(s, 1, k)) = k
         /\ \A i \in 1..k : SubSeq(s, 1, k)[i] = s[i]
         /\ SubSeq(s, k + 1, Len(s)) \in Seq(X)
         /\ Len(SubSeq(s, k + 1, Len(s))) = Len(s) - k
         /\ \A i \in 1..(Len(s) - k) : SubSeq(s, k + 1, Len(s))[i] = s[k + i]
         /\ SubSeq(s, 1, k) \o SubSeq(s, k + 1, Len(s)) = s
<1>1. \A i \in 1..Len(s) : s[i] \in X
  BY ElementOfSeq
<1>2. /\ SubSeq(s, 1, k) \in Seq(X)
      /\ Len(SubSeq(s, 1, k)) = IF 1 <= k THEN k - 1 + 1 ELSE 0
      /\ \A i \in 1..(k - 1 + 1) : SubSeq(s, 1, k)[i] = s[1 + i - 1]
  BY <1>1, SubSeqProperties
<1>3. /\ SubSeq(s, k + 1, Len(s)) \in Seq(X)
      /\ Len(SubSeq(s, k + 1, Len(s))) =
            IF k + 1 <= Len(s) THEN Len(s) - (k + 1) + 1 ELSE 0
      /\ \A i \in 1..(Len(s) - (k + 1) + 1) : SubSeq(s, k + 1, Len(s))[i] = s[k + 1 + i - 1]
  <2>1. \A i \in (k + 1)..Len(s) : s[i] \in X
    BY <1>1
  <2> QED
    BY <2>1, SubSeqProperties
<1>4. SubSeq(s, 1, k) \o SubSeq(s, k + 1, Len(s)) = s
  <2>1. 1 \in 1..(Len(s) + 1) /\ k \in (1 - 1)..Len(s) /\ Len(s) \in k..Len(s)
    BY LenProperties
  <2>2. SubSeq(s, 1, k) \o SubSeq(s, k + 1, Len(s)) = SubSeq(s, 1, Len(s))
    BY <2>1, ConcatAdjacentSubSeq
  <2> QED
    BY <2>2, SubSeqFull
<1> DEFINE a == SubSeq(s, 1, k)
           b == SubSeq(s, k + 1, Len(s))
<1>5. Len(s) \in Nat /\ k \in Nat /\ k <= Len(s)
  BY LenProperties
<1>6. Len(a) = k /\ Len(b) = Len(s) - k
  BY <1>2, <1>3, <1>5
<1>7. ASSUME NEW i \in 1..k PROVE a[i] = s[i]
  <2>1. i \in 1..(k - 1 + 1) /\ 1 + i - 1 = i
    BY <1>5
  <2> QED
    BY <1>2, <2>1
<1>8. ASSUME NEW i \in 1..(Len(s) - k) PROVE b[i] = s[k + i]
  <2>1. i \in 1..(Len(s) - (k + 1) + 1) /\ k + 1 + i - 1 = k + i
    BY <1>5
  <2> QED
    BY <1>3, <2>1
<1> QED
  BY <1>2, <1>3, <1>4, <1>6, <1>7, <1>8

LEMMA EntriesType ==
  ASSUME NEW E, NEW c \in Seq([entries : Seq(E), depth : Nat, total : Nat])
  PROVE  \A n \in 0..Len(c) : ArchivedEntries(Prefix(c, n)) \in Seq(E)
<1> DEFINE Bad == {n \in 0..Len(c) : ArchivedEntries(Prefix(c, n)) \notin Seq(E)}
<1> SUFFICES ASSUME Bad # {} PROVE FALSE
  OBVIOUS
<1>1. PICK n \in Bad : \A k \in Bad : n <= k
  <2>1. Bad \in SUBSET Nat
    OBVIOUS
  <2> HIDE DEF Bad
  <2> QED
    BY <2>1, LeastNatural
<1>2. n # 0
  <2>1. Prefix(c, 0) = <<>> /\ <<>> \in Seq(E)
    BY SubSeqEmpty, EmptySeq DEF Prefix
  <2> QED
    BY <1>1, <2>1, EntriesNone
<1>3. n - 1 \in 0..Len(c) /\ n - 1 \notin Bad
  BY <1>1, <1>2
<1>4. ArchivedEntries(Prefix(c, n - 1)) \in Seq(E)
  BY <1>3
<1>5. /\ Prefix(c, n) = Append(Prefix(c, n - 1), c[n])
      /\ Prefix(c, n - 1) \in Seq([entries : Seq(E), depth : Nat, total : Nat])
      /\ c[n] \in [entries : Seq(E), depth : Nat, total : Nat]
  <2>1. n \in 1..Len(c)
    BY <1>2
  <2> QED
    BY <2>1, PrefixGrows
<1>6. ArchivedEntries(Prefix(c, n)) = ArchivedEntries(Prefix(c, n - 1)) \o c[n].entries
  BY <1>5, EntriesAppend
<1>7. c[n].entries \in Seq(E)
  BY <1>5
<1>8. ArchivedEntries(Prefix(c, n)) \in Seq(E)
  BY <1>4, <1>6, <1>7, ConcatProperties
<1> QED
  BY <1>1, <1>8

\* compact_rollback_state loses no entry and changes no order, leaves a valid chain,
\* and keeps the last entry hot.
LEMMA RollbacksCompact ==
  ASSUME LedgersTyped,
         NEW e \in Seq(Entry), NEW c \in Seq(RollbackNode), RollbackArchiveValid(c),
         NEW r, r = CompactRollbacks(e, c)
  PROVE  /\ r.hot \in Seq(Entry)
         /\ r.cold \in Seq(RollbackNode)
         /\ RollbackArchiveValid(r.cold)
         /\ ArchivedEntries(r.cold) \o r.hot = ArchivedEntries(c) \o e
         /\ r.hot = <<>> <=> e = <<>>
         /\ e # <<>> => LastOf(r.hot) = LastOf(e)
<1> DEFINE cut == Len(e) - limit["rollback"]
<1>1. limit["rollback"] \in Nat \ {0} /\ RollbackNode = [entries : Seq(Entry), depth : Nat, total : Nat]
  BY LedgerAssumption DEF LedgersTyped, LimitNames, RollbackNode
<1>2. CASE Len(e) <= limit["rollback"]
  BY <1>2 DEF CompactRollbacks
<1>3. CASE ~(Len(e) <= limit["rollback"])
  <2> DEFINE evicted == SubSeq(e, 1, cut)
             kept == SubSeq(e, cut + 1, Len(e))
             A == ArchivedEntries(c)
             snapshot == Len(c) >= RollbackDepth - 1
             previousTotal == IF c = <<>> THEN 0 ELSE LastOf(c).total
             head == [entries |-> IF snapshot THEN A \o evicted ELSE evicted,
                      depth |-> IF snapshot THEN 1 ELSE Len(c) + 1,
                      total |-> cut + previousTotal]
  <2>1. /\ r.hot = kept
        /\ r.cold = IF snapshot THEN <<head>> ELSE Append(c, head)
    BY <1>3 DEF CompactRollbacks
  <2>2. cut \in 1..(Len(e) - 1)
    BY <1>1, <1>3
  <2>3. /\ evicted \in Seq(Entry) /\ Len(evicted) = cut
        /\ kept \in Seq(Entry) /\ kept # <<>>
        /\ evicted \o kept = e
        /\ LastOf(kept) = LastOf(e)
    <3> HIDE DEF cut
    <3>1. cut \in 0..Len(e)
      BY <2>2
    <3>2. Len(kept) = Len(e) - cut /\ Len(kept) \in 1..(Len(e) - cut)
      BY <2>2, <3>1, Divided
    <3>3. kept[Len(kept)] = e[cut + Len(kept)]
      BY <3>1, <3>2, Divided
    <3>4. kept # <<>>
      <4> HIDE DEF kept
      <4> QED
        BY <3>2
    <3>5. cut + Len(kept) = Len(e)
      BY <2>2, <3>2
    <3> QED
      BY <3>1, <3>3, <3>4, <3>5, Divided DEF LastOf
  <2>4. A \in Seq(Entry)
    <3>1. Prefix(c, Len(c)) = c /\ Len(c) \in 0..Len(c)
      BY DEF Prefix
    <3> QED
      BY <1>1, <3>1, EntriesType
  <2>5. previousTotal \in Nat /\ previousTotal = Len(A)
    <3>1. CASE c = <<>>
      BY <3>1, EntriesNone
    <3>2. CASE c # <<>>
      <4>1. Len(c) \in DOMAIN c /\ SubSeq(c, 1, Len(c)) = c
        BY <3>2
      <4>2. c[Len(c)].total = Len(A)
        BY <4>1 DEF RollbackArchiveValid
      <4> QED
        BY <2>4, <3>2, <4>2 DEF LastOf
    <3> QED
      BY <3>1, <3>2
  <2>6. head \in RollbackNode
    <3>1. head.entries \in Seq(Entry)
      <4> HIDE DEF A, evicted
      <4> QED
        BY <2>3, <2>4
    <3>2. head.depth \in Nat
      OBVIOUS
    <3>3. head.total \in Nat
      <4> HIDE DEF cut, previousTotal
      <4> QED
        BY <2>2, <2>5
    <3>4. head = [entries |-> head.entries, depth |-> head.depth, total |-> head.total]
      OBVIOUS
    <3> HIDE DEF head
    <3> QED
      BY <1>1, <3>1, <3>2, <3>3, <3>4
  <2>7. ArchivedEntries(Append(c, head)) = A \o head.entries
    BY <2>6, EntriesAppend
  <2>8. ArchivedEntries(<<head>>) = head.entries
    <3>1. Append(<<>>, head) = <<head>> /\ <<>> \in Seq(RollbackNode)
      OBVIOUS
    <3>2. ArchivedEntries(Append(<<>>, head)) = <<>> \o head.entries
      <4> HIDE DEF head
      <4> QED
        BY <2>6, <3>1, EntriesAppend, EntriesNone
    <3>3. <<>> \o head.entries = head.entries
      <4> HIDE DEF head
      <4> QED
        BY <1>1, <2>6
    <3> QED
      BY <3>1, <3>2, <3>3
  <2>9. ArchivedEntries(r.cold) = A \o evicted
    <3>1. CASE snapshot
      BY <2>1, <2>8, <3>1
    <3>2. CASE ~snapshot
      BY <2>1, <2>7, <3>2
    <3> QED
      BY <3>1, <3>2
  <2>10. r.cold \in Seq(RollbackNode)
    <3> HIDE DEF head
    <3> QED
      BY <2>1, <2>6
  <2>11. ArchivedEntries(r.cold) \o r.hot = A \o e
    <3> HIDE DEF A, evicted, kept
    <3>1. (A \o evicted) \o kept = A \o (evicted \o kept)
      <4>1. evicted \in Seq(Entry) /\ kept \in Seq(Entry)
        BY <2>3
      <4> QED
        BY <2>4, <4>1, ConcatAssociative
    <3> QED
      BY <2>1, <2>3, <2>9, <3>1
  <2>12. RollbackArchiveValid(r.cold)
    <3> DEFINE d == r.cold
    <3>1. head.entries # <<>> /\ head.total = Len(A \o evicted)
      <4> HIDE DEF A, cut, previousTotal, evicted
      <4>1. Len(A \o evicted) = Len(A) + cut /\ Len(A) \in Nat
        BY <2>3, <2>4, ConcatProperties, LenProperties
      <4>2. evicted # <<>> /\ A \o evicted # <<>>
        BY <2>2, <2>3, <2>4, EmptySeq, ConcatEqualIffEmpty
      <4>3. head.total = cut + previousTotal /\ head.entries \in {evicted, A \o evicted}
        OBVIOUS
      <4> HIDE DEF head
      <4> QED
        BY <2>2, <2>5, <4>1, <4>2, <4>3
    <3>2. RollbackDepth \in Nat \ {0}
      BY LedgerAssumption
    <3>3. CASE snapshot
      <4>1. d = <<head>> /\ SubSeq(d, 1, 1) = d /\ DOMAIN d = {1} /\ head.depth = 1
        <5>1. d = <<head>> /\ head.depth = 1
          BY <2>1, <3>3
        <5> HIDE DEF head, d
        <5>2. d \in Seq(RollbackNode) /\ Len(d) = 1
          BY <2>6, <5>1
        <5>3. SubSeq(d, 1, Len(d)) = d /\ DOMAIN d = 1..Len(d)
          BY <5>2, SubSeqFull, LenProperties
        <5>4. 1..1 = {1}
          OBVIOUS
        <5> QED
          BY <5>1, <5>2, <5>3, <5>4
      <4>2. ArchivedEntries(d) = A \o evicted
        BY <2>9
      <4> HIDE DEF head, A, evicted
      <4> SUFFICES ASSUME NEW i \in DOMAIN d
                   PROVE  /\ d[i].depth = i
                          /\ i <= RollbackDepth
                          /\ d[i].entries # <<>>
                          /\ d[i].total = Len(ArchivedEntries(SubSeq(d, 1, i)))
        BY DEF RollbackArchiveValid
      <4>3. i = 1 /\ d[i] = head
        BY <4>1
      <4>4. SubSeq(d, 1, i) = d /\ i <= RollbackDepth /\ d[i].depth = i
        BY <3>2, <4>1, <4>3
      <4> HIDE DEF d
      <4> QED
        BY <3>1, <4>2, <4>3, <4>4
    <3>4. CASE ~snapshot
      <4>1. d = Append(c, head) /\ head.depth = Len(c) + 1 /\ Len(c) + 1 <= RollbackDepth
        BY <2>1, <3>2, <3>4
      <4>2. ArchivedEntries(d) = A \o evicted
        BY <2>9
      <4> HIDE DEF d, head, A, evicted
      <4> SUFFICES ASSUME NEW i \in DOMAIN d
                   PROVE  /\ d[i].depth = i
                          /\ i <= RollbackDepth
                          /\ d[i].entries # <<>>
                          /\ d[i].total = Len(ArchivedEntries(SubSeq(d, 1, i)))
        BY DEF d, RollbackArchiveValid
      <4>3. CASE i \in DOMAIN c
        <5>1. d[i] = c[i] /\ SubSeq(d, 1, i) = SubSeq(c, 1, i)
          BY <2>6, <4>1, <4>3
        <5> QED
          BY <4>3, <5>1 DEF RollbackArchiveValid
      <4>4. CASE i = Len(c) + 1
        <5>1. d[i] = head /\ SubSeq(d, 1, i) = d
          BY <2>6, <4>1, <4>4
        <5> QED
          BY <3>1, <4>1, <4>2, <4>4, <5>1
      <4>5. i \in DOMAIN c \/ i = Len(c) + 1
        BY <2>6, <4>1
      <4> QED
        BY <4>3, <4>4, <4>5
    <3> QED
      BY <3>3, <3>4
  <2> HIDE DEF kept, evicted, A, cut
  <2>13. e # <<>>
    BY <1>1, <1>3
  <2> QED
    BY <2>1, <2>3, <2>10, <2>11, <2>12, <2>13 DEF A
<1> QED
  BY <1>2, <1>3

(***************************************************************************)
(* The counts of a chain of failure archives.                              *)
(***************************************************************************)
LEMMA SumIs == \A f : SumOf(f) = Total(f, DOMAIN f)
  BY DEF SumOf, FoldFunction, FoldFunctionOnSet, MapThenFoldSet, Total, MapThenSumSet,
         MapThenFoldSet

LEMMA CountOne ==
  ASSUME NEW p \in Seq(Entry), Once(p), NEW i \in DOMAIN p
  PROVE  CountIn(p, p[i][1]) = p[i][2]
<1> DEFINE g == [j \in DOMAIN p |-> IF p[j][1] = p[i][1] THEN p[j][2] ELSE 0]
<1>1. IsFiniteSet(DOMAIN p) /\ \A j \in DOMAIN p : p[j] \in Entry
  BY LenProperties, ElementOfSeq, FS_Interval
<1>2. \A j \in DOMAIN p : g[j] \in Nat
  BY <1>1 DEF Entry
<1>3. Total(g, DOMAIN p) = g[i] + Total(g, DOMAIN p \ {i})
  <2> HIDE DEF g
  <2> QED
    BY <1>1, <1>2, TotalWithout
<1>4. \A j \in DOMAIN p \ {i} : g[j] = 0
  BY DEF Once
<1>5. Total(g, DOMAIN p \ {i}) = 0
  <2>1. IsFiniteSet(DOMAIN p \ {i})
    BY <1>1, FS_Subset
  <2> HIDE DEF g
  <2> QED
    BY <1>4, <2>1, TotalZero
<1>6. CountIn(p, p[i][1]) = Total(g, DOMAIN p)
  <2>1. CountIn(p, p[i][1]) = SumOf(g) /\ DOMAIN g = DOMAIN p
    BY DEF CountIn
  <2> HIDE DEF g
  <2> QED
    BY <2>1, SumIs
<1>7. g[i] = p[i][2] /\ p[i][2] \in Nat
  BY <1>1 DEF Entry
<1> HIDE DEF g
<1> QED
  BY <1>3, <1>5, <1>6, <1>7

LEMMA CountNone ==
  ASSUME NEW p \in Seq(Entry), NEW s, s \notin Keys(p)
  PROVE  CountIn(p, s) = 0
<1> DEFINE g == [j \in DOMAIN p |-> IF p[j][1] = s THEN p[j][2] ELSE 0]
<1>1. IsFiniteSet(DOMAIN p)
  BY LenProperties, FS_Interval
<1>2. \A j \in DOMAIN p : g[j] = 0
  BY DEF Keys
<1>3. CountIn(p, s) = Total(g, DOMAIN p)
  <2>1. CountIn(p, s) = SumOf(g) /\ DOMAIN g = DOMAIN p
    BY DEF CountIn
  <2> HIDE DEF g
  <2> QED
    BY <2>1, SumIs
<1> HIDE DEF g
<1> QED
  BY <1>1, <1>2, <1>3, TotalZero

LEMMA PlusTyped ==
  ASSUME NEW f, NEW g, CountsSome(f), CountsSome(g)
  PROVE  CountsSome(Plus(f, g))
  BY DEF CountsSome, Plus

LEMMA CountsNext ==
  ASSUME NEW n \in Nat, NEW c, NEW d,
         \A i \in 1..n : d[i].counts = c[i].counts,
         \A i \in 1..(n + 1) : CountsSome(d[i].counts)
  PROVE  CountsUpTo(d, n + 1) = Plus(CountsUpTo(c, n), d[n + 1].counts)
<1> DEFINE lo == UNION {DOMAIN c[i].counts : i \in 1..n}
           hi == UNION {DOMAIN d[i].counts : i \in 1..(n + 1)}
           cs(s) == [i \in 1..n |-> IF s \in DOMAIN c[i].counts THEN c[i].counts[s] ELSE 0]
           ds(s) == [i \in 1..(n + 1) |-> IF s \in DOMAIN d[i].counts THEN d[i].counts[s] ELSE 0]
           new == d[n + 1].counts
<1>1. hi = lo \cup DOMAIN new
  <2>1. 1..(n + 1) = 1..n \cup {n + 1}
    OBVIOUS
  <2>2. \A i \in 1..n : DOMAIN d[i].counts = DOMAIN c[i].counts
    OBVIOUS
  <2>3. ASSUME NEW s \in hi PROVE s \in lo \cup DOMAIN new
    <3>1. PICK i \in 1..(n + 1) : s \in DOMAIN d[i].counts
      OBVIOUS
    <3>2. CASE i = n + 1
      BY <3>1, <3>2
    <3>3. CASE i \in 1..n
      BY <2>2, <3>1, <3>3
    <3> QED
      BY <2>1, <3>2, <3>3
  <2>4. ASSUME NEW s \in lo \cup DOMAIN new PROVE s \in hi
    <3>1. CASE s \in DOMAIN new
      <4>1. n + 1 \in 1..(n + 1)
        OBVIOUS
      <4> QED
        BY <3>1, <4>1
    <3>2. CASE s \in lo
      <4>1. PICK i \in 1..n : s \in DOMAIN c[i].counts
        BY <3>2
      <4>2. i \in 1..(n + 1) /\ s \in DOMAIN d[i].counts
        BY <2>1, <2>2, <4>1
      <4> QED
        BY <4>2
    <3> QED
      BY <2>4, <3>1, <3>2
  <2> QED
    BY <2>3, <2>4
<1>2. ASSUME NEW s
      PROVE  SumOf(ds(s)) = (IF s \in lo THEN SumOf(cs(s)) ELSE 0)
                                + (IF s \in DOMAIN new THEN new[s] ELSE 0)
  <2> DEFINE D == ds(s)
             C == cs(s)
             top == IF s \in DOMAIN new THEN new[s] ELSE 0
             low == IF s \in lo THEN SumOf(C) ELSE 0
  <2>1. \A i \in 1..(n + 1) : D[i] \in Nat
    BY DEF CountsSome
  <2>2. IsFiniteSet(1..n) /\ 1..(n + 1) = 1..n \cup {n + 1} /\ n + 1 \notin 1..n
    BY FS_Interval
  <2>3. D[n + 1] = top /\ top \in Nat
    BY <2>1
  <2>4. \A i \in 1..n : D[i] = C[i]
    BY <2>2
  <2>5. s \notin lo => \A i \in 1..n : C[i] = 0
    OBVIOUS
  <2>6. DOMAIN D = 1..(n + 1) /\ DOMAIN C = 1..n
    OBVIOUS
  <2> HIDE DEF D, C, top, lo
  <2>7. Total(D, 1..n \cup {n + 1}) = Total(D, 1..n) + D[n + 1]
    BY <2>1, <2>2, TotalWith
  <2>8. Total(D, 1..n) = Total(C, 1..n)
    BY <2>2, <2>4, TotalSame
  <2>9. s \notin lo => Total(C, 1..n) = 0
    BY <2>2, <2>5, TotalZero
  <2>10. SumOf(C) = Total(C, 1..n) /\ SumOf(D) = Total(D, 1..n \cup {n + 1})
    BY <2>2, <2>6, SumIs
  <2>11. low = Total(C, 1..n)
    BY <2>9, <2>10
  <2>12. SumOf(D) = low + top
    BY <2>3, <2>7, <2>8, <2>10, <2>11
  <2> QED
    BY <2>12 DEF D, C, top, lo
<1>3. /\ CountsUpTo(d, n + 1) = [s \in hi |-> SumOf(ds(s))]
      /\ CountsUpTo(c, n) = [s \in lo |-> SumOf(cs(s))]
  BY DEF CountsUpTo
<1> DEFINE old == CountsUpTo(c, n)
<1>4. DOMAIN old = lo /\ \A s \in lo : old[s] = SumOf(cs(s))
  BY <1>3
<1>5. Plus(old, new) = [s \in lo \cup DOMAIN new |->
            (IF s \in lo THEN old[s] ELSE 0) + (IF s \in DOMAIN new THEN new[s] ELSE 0)]
  <2> HIDE DEF old, new, lo
  <2> QED
    BY <1>4 DEF Plus
<1> HIDE DEF old, new, lo, hi, cs, ds
<1>6. \A s \in hi : SumOf(ds(s)) =
            (IF s \in lo THEN old[s] ELSE 0) + (IF s \in DOMAIN new THEN new[s] ELSE 0)
  BY <1>2, <1>4
<1> QED
  BY <1>1, <1>3, <1>5, <1>6 DEF old, new

LEMMA CountsNone == \A c : CountsUpTo(c, 0) = [s \in {} |-> 0]
<1> TAKE c
<1>1. UNION {DOMAIN c[i].counts : i \in 1..0} = {}
  OBVIOUS
<1> QED
  BY <1>1 DEF CountsUpTo

LEMMA CountsTyped ==
  ASSUME NEW c, NEW m \in Nat, \A i \in 1..m : CountsSome(c[i].counts)
  PROVE  \A n \in 0..m : CountsSome(CountsUpTo(c, n))
<1> DEFINE Bad == {n \in 0..m : ~CountsSome(CountsUpTo(c, n))}
<1> SUFFICES ASSUME Bad # {} PROVE FALSE
  OBVIOUS
<1>1. PICK n \in Bad : \A k \in Bad : n <= k
  <2>1. Bad \in SUBSET Nat
    OBVIOUS
  <2> HIDE DEF Bad
  <2> QED
    BY <2>1, LeastNatural
<1>2. CASE n = 0
  BY <1>2, CountsNone DEF CountsSome
<1>3. CASE n # 0
  <2>1. n - 1 \in 0..m /\ n - 1 \notin Bad /\ n - 1 \in Nat /\ (n - 1) + 1 = n /\ n \in 1..m
    BY <1>1, <1>3
  <2>2. CountsSome(CountsUpTo(c, n - 1))
    BY <2>1
  <2>3. \A i \in 1..((n - 1) + 1) : CountsSome(c[i].counts)
    BY <2>1
  <2>4. CountsUpTo(c, (n - 1) + 1) = Plus(CountsUpTo(c, n - 1), c[(n - 1) + 1].counts)
    BY <2>1, <2>3, CountsNext
  <2>5. CountsSome(c[n].counts)
    BY <2>1
  <2> QED
    BY <2>1, <2>2, <2>4, <2>5, PlusTyped
<1> QED
  BY <1>2, <1>3

\* What the archives hold of a root cause.
Cold(c, s) ==
    IF s \in DOMAIN ArchivedCounts(c) THEN ArchivedCounts(c)[s] ELSE 0

LEMMA ChainNodes ==
  ASSUME NEW c, FailureChain(c)
  PROVE  \A i \in 1..Len(c) : CountsSome(c[i].counts)
<1> TAKE i \in 1..Len(c)
<1>1. c[i] \in ToSet(c)
  BY ElementOfSeq DEF FailureChain
<1> QED
  BY <1>1 DEF FailureChain

\* A node more.
LEMMA ChainAppend ==
  ASSUME NEW c, FailureChain(c), NEW n, CountsSome(n.counts)
  PROVE  /\ FailureChain(Append(c, n))
         /\ Len(Append(c, n)) = Len(c) + 1
         /\ \A i \in 1..Len(c) : Append(c, n)[i] = c[i]
         /\ Append(c, n)[Len(c) + 1] = n
         /\ \A k \in 0..Len(c) : CountsUpTo(Append(c, n), k) = CountsUpTo(c, k)
         /\ ArchivedCounts(Append(c, n)) = Plus(ArchivedCounts(c), n.counts)
<1> DEFINE d == Append(c, n)
           X == ToSet(c) \cup {n}
<1>1. c \in Seq(X) /\ n \in X
  BY SeqMonotonic DEF FailureChain
<1>2. d \in Seq(X) /\ Len(d) = Len(c) + 1 /\ Len(c) \in Nat
      /\ (\A i \in 1..Len(c) : d[i] = c[i]) /\ d[Len(c) + 1] = n
  <2> HIDE DEF X
  <2> QED
    BY <1>1, AppendProperties, LenProperties
<1>3. DOMAIN d = 1..(Len(c) + 1)
  <2> HIDE DEF d, X
  <2> QED
    BY <1>2, LenProperties
<1> HIDE DEF d
<1>4. ToSet(d) = X
  <2>1. ToSet(c) = {c[i] : i \in 1..Len(c)}
    BY LenProperties DEF ToSet, FailureChain
  <2>2. ToSet(d) = {d[i] : i \in 1..(Len(c) + 1)}
    BY <1>3 DEF ToSet
  <2>3. 1..(Len(c) + 1) = 1..Len(c) \cup {Len(c) + 1}
    BY <1>2
  <2> QED
    BY <1>2, <2>1, <2>2, <2>3
<1>5. FailureChain(d)
  BY <1>2, <1>4 DEF FailureChain
<1>6. ASSUME NEW k \in 0..Len(c) PROVE CountsUpTo(d, k) = CountsUpTo(c, k)
  <2>1. \A i \in 1..k : d[i] = c[i]
    BY <1>2
  <2>2. {DOMAIN d[i].counts : i \in 1..k} = {DOMAIN c[i].counts : i \in 1..k}
    BY <2>1
  <2>3. \A s : [i \in 1..k |-> IF s \in DOMAIN d[i].counts THEN d[i].counts[s] ELSE 0]
               = [i \in 1..k |-> IF s \in DOMAIN c[i].counts THEN c[i].counts[s] ELSE 0]
    BY <2>1
  <2> QED
    BY <2>2, <2>3 DEF CountsUpTo
<1>7. ArchivedCounts(d) = Plus(ArchivedCounts(c), n.counts)
  <2>1. \A i \in 1..(Len(c) + 1) : CountsSome(d[i].counts)
    BY <1>2, <1>5, ChainNodes
  <2>2. \A i \in 1..Len(c) : d[i].counts = c[i].counts
    BY <1>2
  <2>3. CountsUpTo(d, Len(c) + 1) = Plus(CountsUpTo(c, Len(c)), d[Len(c) + 1].counts)
    BY <1>2, <2>1, <2>2, CountsNext
  <2> QED
    BY <1>2, <2>3 DEF ArchivedCounts
<1> QED
  BY <1>2, <1>5, <1>6, <1>7 DEF d

LEMMA ChainSingle ==
  ASSUME NEW n, CountsSome(n.counts)
  PROVE  /\ FailureChain(<<n>>)
         /\ CountsUpTo(<<n>>, 1) = n.counts
<1>1. FailureChain(<<>>) /\ Len(<<>>) = 0
  BY EmptySeq DEF FailureChain, ToSet
<1>2. Append(<<>>, n) = <<n>>
  OBVIOUS
<1>3. ArchivedCounts(<<>>) = [s \in {} |-> 0]
  BY <1>1, CountsNone DEF ArchivedCounts
<1>4. /\ FailureChain(<<n>>)
      /\ Len(<<n>>) = 1
      /\ ArchivedCounts(<<n>>) = Plus(ArchivedCounts(<<>>), n.counts)
  <2>1. /\ FailureChain(Append(<<>>, n))
        /\ Len(Append(<<>>, n)) = Len(<<>>) + 1
        /\ ArchivedCounts(Append(<<>>, n)) = Plus(ArchivedCounts(<<>>), n.counts)
    BY <1>1, ChainAppend
  <2> QED
    BY <1>1, <1>2, <2>1
<1>5. Plus([s \in {} |-> 0], n.counts) = n.counts
  BY DEF Plus, CountsSome
<1> QED
  BY <1>3, <1>4, <1>5 DEF ArchivedCounts

\* A cut in two of a ledger divides its counts.
LEMMA CountDivided ==
  ASSUME NEW p \in Seq(Entry), Once(p), NEW k \in 0..Len(p)
  PROVE  LET a == SubSeq(p, 1, k)
             b == SubSeq(p, k + 1, Len(p))
         IN  /\ Once(a) /\ Once(b)
             /\ \A s : CountIn(p, s) =
                   IF s \in Keys(a) THEN CountIn(a, s) ELSE CountIn(b, s)
             /\ \A s \in Keys(a) : CountIn(b, s) = 0
             /\ \A s \in Keys(a) : CountIn(a, s) \in Nat \ {0}
             /\ Keys(a) \subseteq Signatures
<1> DEFINE a == SubSeq(p, 1, k)
           b == SubSeq(p, k + 1, Len(p))
<1>1. /\ a \in Seq(Entry) /\ Len(a) = k /\ \A i \in 1..k : a[i] = p[i]
      /\ b \in Seq(Entry) /\ Len(b) = Len(p) - k
      /\ \A i \in 1..(Len(p) - k) : b[i] = p[k + i]
  BY Divided
<1>2. Len(p) \in Nat /\ DOMAIN p = 1..Len(p) /\ DOMAIN a = 1..k /\ DOMAIN b = 1..(Len(p) - k)
  <2> HIDE DEF a, b
  <2> QED
    BY <1>1, LenProperties
<1> HIDE DEF a, b
<1>3. Once(a) /\ Once(b)
  <2>1. ASSUME NEW i \in DOMAIN a, NEW j \in DOMAIN a, a[i][1] = a[j][1] PROVE i = j
    <3>1. i \in DOMAIN p /\ j \in DOMAIN p /\ a[i] = p[i] /\ a[j] = p[j]
      BY <1>1, <1>2
    <3> QED
      BY <2>1, <3>1 DEF Once
  <2>2. ASSUME NEW i \in DOMAIN b, NEW j \in DOMAIN b, b[i][1] = b[j][1] PROVE i = j
    <3>1. k + i \in DOMAIN p /\ k + j \in DOMAIN p /\ b[i] = p[k + i] /\ b[j] = p[k + j]
      BY <1>1, <1>2
    <3>2. k + i = k + j
      BY <2>2, <3>1 DEF Once
    <3> QED
      BY <1>2, <3>2
  <2> QED
    BY <2>1, <2>2 DEF Once
<1>4. ASSUME NEW i \in 1..k
      PROVE  /\ CountIn(a, a[i][1]) = p[i][2] /\ CountIn(p, a[i][1]) = p[i][2]
             /\ a[i][1] \notin Keys(b) /\ p[i][2] \in Nat \ {0} /\ a[i][1] \in Signatures
  <2>1. i \in DOMAIN a /\ i \in DOMAIN p /\ a[i] = p[i]
    BY <1>1, <1>2
  <2>2. CountIn(a, a[i][1]) = a[i][2] /\ CountIn(p, p[i][1]) = p[i][2]
    BY <1>1, <1>3, <2>1, CountOne
  <2>3. p[i] \in Entry
    BY <1>2, <2>1, ElementOfSeq
  <2>4. a[i][1] \notin Keys(b)
    <3> SUFFICES ASSUME NEW j \in DOMAIN b, b[j][1] = a[i][1] PROVE FALSE
      BY DEF Keys
    <3>1. b[j] = p[k + j] /\ k + j \in DOMAIN p /\ k + j # i
      BY <1>1, <1>2
    <3> QED
      BY <2>1, <3>1 DEF Once
  <2> QED
    BY <2>1, <2>2, <2>3, <2>4 DEF Entry
<1>5. ASSUME NEW s \in Keys(a)
      PROVE  /\ CountIn(p, s) = CountIn(a, s) /\ CountIn(b, s) = 0
             /\ CountIn(a, s) \in Nat \ {0} /\ s \in Signatures
  <2>1. PICK i \in 1..k : s = a[i][1]
    BY <1>2 DEF Keys
  <2>2. s \notin Keys(b)
    BY <1>4, <2>1
  <2>3. CountIn(b, s) = 0
    BY <1>1, <2>2, CountNone
  <2> QED
    BY <1>4, <2>1, <2>3
<1>6. ASSUME NEW s, s \notin Keys(a) PROVE CountIn(p, s) = CountIn(b, s)
  <2>1. CASE s \in Keys(b)
    <3>1. PICK j \in DOMAIN b : s = b[j][1]
      BY <2>1 DEF Keys
    <3>2. b[j] = p[k + j] /\ k + j \in DOMAIN p
      BY <1>1, <1>2
    <3>3. CountIn(b, b[j][1]) = b[j][2] /\ CountIn(p, p[k + j][1]) = p[k + j][2]
      BY <1>1, <1>3, <3>1, <3>2, CountOne
    <3> QED
      BY <3>1, <3>2, <3>3
  <2>2. CASE s \notin Keys(b)
    <3>1. s \notin Keys(p)
      <4> SUFFICES ASSUME NEW i \in DOMAIN p, p[i][1] = s PROVE FALSE
        BY DEF Keys
      <4>1. CASE i \in 1..k
        <5>1. i \in DOMAIN a /\ a[i] = p[i]
          BY <1>1, <1>2, <4>1
        <5> QED
          BY <1>6, <5>1 DEF Keys
      <4>2. CASE i \notin 1..k
        <5>1. i - k \in DOMAIN b /\ k + (i - k) = i /\ i - k \in 1..(Len(p) - k)
          BY <1>2, <4>2
        <5>2. b[i - k] = p[i]
          BY <1>1, <5>1
        <5> QED
          BY <2>2, <5>1, <5>2 DEF Keys
      <4> QED
        BY <4>1, <4>2
    <3> QED
      BY <1>1, <2>2, <3>1, CountNone
  <2> QED
    BY <2>1, <2>2
<1> QED
  BY <1>3, <1>5, <1>6 DEF a, b

\* compact_failure_state leaves a valid chain, and every root cause the count it had,
\* hot and archived together.
LEMMA FailuresCompact ==
  ASSUME LedgersTyped,
         NEW p \in Seq(Entry), Once(p),
         NEW c, FailureChain(c), FailureArchiveValid(c),
         NEW r, r = CompactFailures(p, c)
  PROVE  /\ r.hot \in Seq(Entry)
         /\ Once(r.hot)
         /\ FailureChain(r.cold)
         /\ FailureArchiveValid(r.cold)
         /\ \A s : CountIn(r.hot, s) + Cold(r.cold, s) = CountIn(p, s) + Cold(c, s)
<1> DEFINE cut == Len(p) - limit["failure"]
<1>1. limit["failure"] \in Nat \ {0} /\ FailureDepth \in Nat \ {0}
  BY LedgerAssumption DEF LedgersTyped, LimitNames
<1>2. CASE Len(p) <= limit["failure"]
  BY <1>2 DEF CompactFailures
<1>3. CASE ~(Len(p) <= limit["failure"])
  <2> DEFINE a == SubSeq(p, 1, cut)
             b == SubSeq(p, cut + 1, Len(p))
             delta == [s \in Keys(a) |-> CountIn(a, s)]
             all == Plus(ArchivedCounts(c), delta)
             snapshot == Depth(c) >= FailureDepth - 1
             head == [counts |-> IF snapshot THEN all ELSE delta,
                      depth |-> IF snapshot THEN 1 ELSE Depth(c) + 1,
                      signatures |-> Cardinality(DOMAIN all),
                      events |-> SumOf(all)]
  <2>1. /\ r.hot = b
        /\ r.cold = IF snapshot THEN <<head>> ELSE Append(c, head)
    BY <1>3 DEF CompactFailures
  <2>2. cut \in 0..Len(p)
    BY <1>1, <1>3, LenProperties
  <2>3. /\ Once(b)
        /\ \A s : CountIn(p, s) = IF s \in Keys(a) THEN CountIn(a, s) ELSE CountIn(b, s)
        /\ \A s \in Keys(a) : CountIn(b, s) = 0
        /\ \A s \in Keys(a) : CountIn(a, s) \in Nat \ {0}
        /\ Keys(a) \subseteq Signatures
    <3> HIDE DEF cut
    <3> QED
      BY <2>2, CountDivided
  <2>4. b \in Seq(Entry)
    <3> HIDE DEF cut
    <3> QED
      BY <2>2, Divided
  <2>5. CountsSome(delta)
    <3> HIDE DEF a
    <3> QED
      BY <2>3 DEF CountsSome
  <2>6. Len(c) \in Nat /\ DOMAIN c = 1..Len(c)
    BY LenProperties DEF FailureChain
  <2>7. CountsSome(ArchivedCounts(c))
    <3>1. \A i \in 1..Len(c) : CountsSome(c[i].counts)
      BY ChainNodes
    <3>2. Len(c) \in 0..Len(c)
      BY <2>6
    <3> QED
      BY <2>6, <3>1, <3>2, CountsTyped DEF ArchivedCounts
  <2>8. CountsSome(all)
    <3> HIDE DEF delta
    <3> QED
      BY <2>5, <2>7, PlusTyped
  <2>9. Depth(c) = Len(c)
    <3>1. CASE c = <<>>
      BY <3>1 DEF Depth
    <3>2. CASE c # <<>>
      <4>1. Len(c) \in DOMAIN c
        <5>1. Len(c) # 0
          BY <3>2, EmptySeq DEF FailureChain
        <5> QED
          BY <2>6, <5>1
      <4> QED
        BY <3>2, <4>1 DEF Depth, LastOf, FailureArchiveValid
    <3> QED
      BY <3>1, <3>2
  <2>10. CountsSome(head.counts)
    <3> HIDE DEF all, delta
    <3> QED
      BY <2>5, <2>8
  <2>11. /\ FailureChain(r.cold)
         /\ Len(r.cold) \in Nat
         /\ DOMAIN r.cold = 1..Len(r.cold)
         /\ CountsUpTo(r.cold, Len(r.cold)) = all
         /\ r.cold[Len(r.cold)] = head
         /\ Len(r.cold) = IF snapshot THEN 1 ELSE Len(c) + 1
         /\ \A i \in DOMAIN r.cold : i # Len(r.cold) =>
               i \in DOMAIN c /\ r.cold[i] = c[i] /\ CountsUpTo(r.cold, i) = CountsUpTo(c, i)
    <3>1. CASE snapshot
      <4>1. r.cold = <<head>> /\ head.counts = all
        BY <2>1, <3>1
      <4> HIDE DEF head, all
      <4>2. FailureChain(<<head>>) /\ CountsUpTo(<<head>>, 1) = all
        BY <2>10, <4>1, ChainSingle
      <4>3. Len(<<head>>) = 1 /\ <<head>>[1] = head /\ DOMAIN <<head>> = 1..1
        OBVIOUS
      <4> QED
        BY <3>1, <4>1, <4>2, <4>3
    <3>2. CASE ~snapshot
      <4>1. r.cold = Append(c, head) /\ head.counts = delta
        BY <2>1, <3>2
      <4>2. /\ FailureChain(Append(c, head))
            /\ Len(Append(c, head)) = Len(c) + 1
            /\ \A i \in 1..Len(c) : Append(c, head)[i] = c[i]
            /\ Append(c, head)[Len(c) + 1] = head
            /\ \A k \in 0..Len(c) : CountsUpTo(Append(c, head), k) = CountsUpTo(c, k)
            /\ ArchivedCounts(Append(c, head)) = all
        <5> HIDE DEF head, delta
        <5> QED
          BY <2>10, <4>1, ChainAppend
      <4> HIDE DEF head, all
      <4>3. DOMAIN r.cold = 1..Len(r.cold)
        BY <4>1, <4>2, LenProperties DEF FailureChain
      <4> QED
        BY <2>6, <3>2, <4>1, <4>2, <4>3 DEF ArchivedCounts
    <3> QED
      BY <3>1, <3>2
  <2>12. FailureArchiveValid(r.cold)
    <3>1. /\ head.depth = Len(r.cold) /\ Len(r.cold) <= FailureDepth
          /\ head.signatures = Cardinality(DOMAIN all) /\ head.events = SumOf(all)
      <4> HIDE DEF all, delta
      <4> QED
        BY <1>1, <2>6, <2>9, <2>11
    <3>2. \A s \in DOMAIN head.counts : head.counts[s] >= 1
      <4> HIDE DEF head
      <4> QED
        BY <2>10 DEF CountsSome
    <3> HIDE DEF head, all
    <3> DEFINE d == r.cold
               Good(x, i) ==
                  /\ x[i].depth = i
                  /\ i <= FailureDepth
                  /\ \A s \in DOMAIN x[i].counts : x[i].counts[s] >= 1
                  /\ x[i].signatures = Cardinality(DOMAIN CountsUpTo(x, i))
                  /\ x[i].events = SumOf(CountsUpTo(x, i))
    <3>3. \A i \in DOMAIN c : Good(c, i)
      BY DEF FailureArchiveValid
    <3>4. \A i \in DOMAIN d : i # Len(d) => i \in DOMAIN c /\ d[i] = c[i] /\ CountsUpTo(d, i) = CountsUpTo(c, i)
      BY <2>11
    <3>5. CountsUpTo(d, Len(d)) = all /\ d[Len(d)] = head
      BY <2>11
    <3>6. head.depth = Len(d) /\ Len(d) <= FailureDepth
      BY <3>1
    <3> HIDE DEF d
    <3>7. ASSUME NEW i \in DOMAIN d PROVE Good(d, i)
      <4>1. CASE i = Len(d)
        BY <3>1, <3>2, <3>5, <3>6, <4>1
      <4>2. CASE i # Len(d)
        <5>1. i \in DOMAIN c /\ d[i] = c[i] /\ CountsUpTo(d, i) = CountsUpTo(c, i)
          BY <3>4, <4>2
        <5>2. Good(c, i)
          BY <3>3, <5>1
        <5> QED
          BY <5>1, <5>2
      <4> QED
        BY <4>1, <4>2
    <3>8. FailureArchiveValid(d)
      BY <3>7 DEF FailureArchiveValid
    <3> QED
      BY <3>8 DEF d
  <2>13. ArchivedCounts(r.cold) = all
    BY <2>11 DEF ArchivedCounts
  <2>14. ASSUME NEW s
         PROVE  CountIn(b, s) + Cold(r.cold, s) = CountIn(p, s) + Cold(c, s)
    <3> DEFINE old == ArchivedCounts(c)
    <3>1. /\ DOMAIN all = DOMAIN old \cup Keys(a)
          /\ \A k \in DOMAIN old \cup Keys(a) :
                all[k] = (IF k \in DOMAIN old THEN old[k] ELSE 0)
                          + (IF k \in Keys(a) THEN CountIn(a, k) ELSE 0)
      <4> HIDE DEF a, old
      <4> QED
        BY DEF Plus, old
    <3>2. Cold(r.cold, s) = IF s \in DOMAIN all THEN all[s] ELSE 0
      BY <2>13 DEF Cold
    <3>3. Cold(c, s) = (IF s \in DOMAIN old THEN old[s] ELSE 0) /\ Cold(c, s) \in Nat
      BY <2>7 DEF Cold, CountsSome
    <3> HIDE DEF all, a, b, old
    <3>4. CASE s \in Keys(a)
      <4>1. /\ CountIn(b, s) = 0 /\ CountIn(p, s) = CountIn(a, s)
            /\ CountIn(a, s) \in Nat
        BY <2>3, <3>4
      <4>2. Cold(r.cold, s) = Cold(c, s) + CountIn(a, s)
        BY <3>1, <3>2, <3>3, <3>4
      <4> QED
        BY <3>3, <4>1, <4>2
    <3>5. CASE s \notin Keys(a)
      <4>1. CountIn(p, s) = CountIn(b, s)
        BY <2>3, <3>5
      <4>2. Cold(r.cold, s) = Cold(c, s)
        BY <3>1, <3>2, <3>3, <3>5
      <4> QED
        BY <4>1, <4>2
    <3> QED
      BY <3>4, <3>5
  <2> HIDE DEF b
  <2> QED
    BY <2>1, <2>3, <2>4, <2>11, <2>12, <2>14
<1> QED
  BY <1>2, <1>3

\* f numbers the pairs of w as pairs of p, and leaves out at most those of s.
Renumbers(f, w, p, s) ==
    /\ f \in [DOMAIN w -> DOMAIN p]
    /\ \A i \in DOMAIN w : w[i] = p[f[i]]
    /\ \A i, j \in DOMAIN w : f[i] = f[j] => i = j
    /\ \A j \in DOMAIN p : p[j][1] # s => \E i \in DOMAIN w : f[i] = j

\* What is left when a root cause is taken out, and its count put behind it.
LEMMA CountMoved ==
  ASSUME NEW p \in Seq(Entry), Once(p), NEW s \in Signatures, NEW n \in Nat \ {0}
  PROVE  LET q == Append(Without(p, s), <<s, n>>)
         IN  /\ q \in Seq(Entry)
             /\ Once(q)
             /\ CountIn(q, s) = n
             /\ \A t : t # s => CountIn(q, t) = CountIn(p, t)
<1> DEFINE w == Without(p, s)
           q == Append(w, <<s, n>>)
<1>1. Len(p) \in Nat /\ DOMAIN p = 1..Len(p)
  BY LenProperties
\* w is p through an order-preserving renumbering.
<1>2. /\ w \in Seq(Entry)
      /\ \E f : Renumbers(f, w, p, s)
      /\ s \notin Keys(w)
  <2>1. CASE s \notin Keys(p)
    <3>1. w = p
      BY <2>1 DEF Without
    <3> DEFINE f == [i \in DOMAIN p |-> i]
    <3>2. Renumbers(f, p, p, s)
      BY DEF Renumbers
    <3> QED
      BY <2>1, <3>1, <3>2
  <2>2. CASE s \in Keys(p)
    <3> DEFINE k == CHOOSE i \in DOMAIN p : p[i][1] = s
               a == SubSeq(p, 1, k - 1)
               b == SubSeq(p, k + 1, Len(p))
    <3>1. k \in 1..Len(p) /\ p[k][1] = s
      BY <1>1, <2>2 DEF Keys
    <3>2. w = a \o b
      BY <2>2 DEF Without, RemoveAt
    <3> HIDE DEF k, w
    <3>3. /\ a \in Seq(Entry) /\ Len(a) = k - 1 /\ \A i \in 1..(k - 1) : a[i] = p[i]
          /\ b \in Seq(Entry) /\ Len(b) = Len(p) - k
          /\ \A i \in 1..(Len(p) - k) : b[i] = p[k + i]
      <4>1. k - 1 \in 0..Len(p) /\ k \in 0..Len(p)
        BY <1>1, <3>1
      <4> QED
        BY <4>1, Divided
    <3> HIDE DEF a, b
    <3>4. /\ w \in Seq(Entry) /\ Len(w) = Len(p) - 1
          /\ \A i \in 1..(Len(p) - 1) : w[i] = IF i <= k - 1 THEN a[i] ELSE b[i - (k - 1)]
      <4>1. /\ w \in Seq(Entry) /\ Len(w) = Len(a) + Len(b)
            /\ \A i \in 1..(Len(a) + Len(b)) : w[i] = IF i <= Len(a) THEN a[i] ELSE b[i - Len(a)]
        BY <3>2, <3>3, ConcatProperties
      <4>2. Len(a) + Len(b) = Len(p) - 1
        BY <1>1, <3>1, <3>3
      <4> QED
        BY <3>3, <4>1, <4>2
    <3>5. DOMAIN w = 1..(Len(p) - 1)
      BY <3>4, LenProperties
    <3> DEFINE f == [i \in DOMAIN w |-> IF i <= k - 1 THEN i ELSE i + 1]
    <3>6. f \in [DOMAIN w -> DOMAIN p] /\ \A i \in DOMAIN w : f[i] # k
      BY <1>1, <3>1, <3>5
    <3>7. ASSUME NEW i \in DOMAIN w PROVE w[i] = p[f[i]]
      <4>1. CASE i <= k - 1
        <5>1. i \in 1..(k - 1) /\ f[i] = i
          BY <3>1, <3>5, <4>1
        <5> QED
          BY <3>3, <3>4, <3>5, <4>1, <5>1
      <4>2. CASE ~(i <= k - 1)
        <5>1. i - (k - 1) \in 1..(Len(p) - k) /\ k + (i - (k - 1)) = i + 1 /\ f[i] = i + 1
          BY <1>1, <3>1, <3>5, <4>2
        <5>2. w[i] = b[i - (k - 1)]
          BY <3>4, <3>5, <4>2
        <5> QED
          BY <3>3, <5>1, <5>2
      <4> QED
        BY <4>1, <4>2
    <3>8. \A i, j \in DOMAIN w : f[i] = f[j] => i = j
      BY <1>1, <3>1, <3>5
    <3>9. ASSUME NEW j \in DOMAIN p, p[j][1] # s PROVE \E i \in DOMAIN w : f[i] = j
      <4>1. j # k
        BY <3>1, <3>9
      <4>2. CASE j < k
        <5>1. j \in DOMAIN w /\ f[j] = j
          BY <1>1, <3>1, <3>5, <4>2
        <5> QED
          BY <5>1
      <4>3. CASE j > k
        <5>1. j - 1 \in DOMAIN w /\ f[j - 1] = j
          BY <1>1, <3>1, <3>5, <4>3
        <5> QED
          BY <5>1
      <4> QED
        BY <1>1, <3>1, <4>1, <4>2, <4>3
    <3>10. s \notin Keys(w)
      <4> SUFFICES ASSUME NEW i \in DOMAIN w, w[i][1] = s PROVE FALSE
        BY DEF Keys
      <4>1. f[i] \in DOMAIN p /\ f[i] # k /\ p[f[i]][1] = s
        BY <3>6, <3>7
      <4> HIDE DEF f
      <4> QED
        BY <1>1, <3>1, <4>1 DEF Once
    <3>11. Renumbers(f, w, p, s)
      <4> HIDE DEF f
      <4> QED
        BY <3>6, <3>7, <3>8, <3>9 DEF Renumbers
    <3> HIDE DEF f
    <3> QED
      BY <3>4, <3>10, <3>11
  <2> QED
    BY <2>1, <2>2
<1> HIDE DEF w
<1>3. PICK f : Renumbers(f, w, p, s)
  BY <1>2
<1>4. <<s, n>> \in Entry
  BY DEF Entry
<1>5. /\ q \in Seq(Entry) /\ Len(q) = Len(w) + 1 /\ Len(w) \in Nat
      /\ \A i \in 1..Len(w) : q[i] = w[i]
      /\ q[Len(w) + 1] = <<s, n>> /\ DOMAIN w = 1..Len(w)
  BY <1>2, <1>4, AppendProperties, LenProperties
<1> HIDE DEF q
<1>6. DOMAIN q = 1..(Len(w) + 1)
  BY <1>5, LenProperties
<1>7. Once(q)
  <2> SUFFICES ASSUME NEW i \in DOMAIN q, NEW j \in DOMAIN q, q[i][1] = q[j][1] PROVE i = j
    BY DEF Once
  <2>1. CASE i \in DOMAIN w /\ j \in DOMAIN w
    <3>1. q[i] = p[f[i]] /\ q[j] = p[f[j]]
      BY <1>3, <1>5, <2>1 DEF Renumbers
    <3> QED
      BY <1>3, <2>1, <3>1 DEF Once, Renumbers
  <2>2. \A h \in DOMAIN w : q[h][1] # s
    BY <1>2, <1>5 DEF Keys
  <2>3. \A h \in DOMAIN q : h \in DOMAIN w \/ (h = Len(w) + 1 /\ q[h][1] = s)
    BY <1>5, <1>6
  <2> QED
    BY <2>1, <2>2, <2>3
<1>8. CountIn(q, s) = n
  <2>1. Len(w) + 1 \in DOMAIN q
    BY <1>5, <1>6
  <2>2. CountIn(q, q[Len(w) + 1][1]) = q[Len(w) + 1][2]
    BY <1>5, <1>7, <2>1, CountOne
  <2> QED
    BY <1>5, <2>2
<1>9. ASSUME NEW t, t # s PROVE CountIn(q, t) = CountIn(p, t)
  <2>1. CASE t \in Keys(p)
    <3>1. PICK j \in DOMAIN p : p[j][1] = t
      BY <2>1 DEF Keys
    <3>2. PICK i \in DOMAIN w : f[i] = j
      BY <1>3, <1>9, <3>1 DEF Renumbers
    <3>3. i \in DOMAIN q /\ q[i] = p[j]
      BY <1>3, <1>5, <1>6, <3>2 DEF Renumbers
    <3>4. CountIn(q, q[i][1]) = q[i][2] /\ CountIn(p, p[j][1]) = p[j][2]
      BY <1>5, <1>7, <3>3, CountOne
    <3> QED
      BY <3>1, <3>3, <3>4
  <2>2. CASE t \notin Keys(p)
    <3>1. t \notin Keys(q)
      <4> SUFFICES ASSUME NEW i \in DOMAIN q, q[i][1] = t PROVE FALSE
        BY DEF Keys
      <4>1. CASE i = Len(w) + 1
        BY <1>5, <1>9, <4>1
      <4>2. CASE i \in DOMAIN w
        <5>1. q[i] = p[f[i]] /\ f[i] \in DOMAIN p
          BY <1>3, <1>5, <4>2 DEF Renumbers
        <5> QED
          BY <2>2, <5>1 DEF Keys
      <4> QED
        BY <1>5, <1>6, <4>1, <4>2
    <3> QED
      BY <1>5, <2>2, <3>1, CountNone
  <2> QED
    BY <2>1, <2>2
<1> QED
  BY <1>5, <1>7, <1>8, <1>9 DEF q, w

(***************************************************************************)
(* The commands.                                                           *)
(***************************************************************************)
LEMMA CountIsNatural ==
  ASSUME NEW p \in Seq(Entry), Once(p), NEW s
  PROVE  CountIn(p, s) \in Nat
<1>1. CASE s \in Keys(p)
  <2>1. PICK i \in DOMAIN p : p[i][1] = s
    BY <1>1 DEF Keys
  <2>2. p[i] \in Entry
    BY <2>1, LenProperties, ElementOfSeq
  <2> QED
    BY <2>1, <2>2, CountOne DEF Entry
<1>2. CASE s \notin Keys(p)
  BY <1>2, CountNone
<1> QED
  BY <1>1, <1>2

LEMMA ColdIsNatural ==
  ASSUME NEW c, FailureChain(c), NEW s
  PROVE  Cold(c, s) \in Nat
<1>1. Len(c) \in Nat
  BY LenProperties DEF FailureChain
<1>2. CountsSome(ArchivedCounts(c))
  <2>1. \A i \in 1..Len(c) : CountsSome(c[i].counts)
    BY ChainNodes
  <2>2. Len(c) \in 0..Len(c)
    BY <1>1
  <2> QED
    BY <1>1, <2>1, <2>2, CountsTyped DEF ArchivedCounts
<1> QED
  BY <1>2 DEF Cold, CountsSome

LEMMA AppendAfter ==
  ASSUME NEW E, NEW s \in Seq(E), NEW t \in Seq(E), NEW x \in E
  PROVE  s \o Append(t, x) = Append(s \o t, x)
<1>1. <<x>> \in Seq(E) /\ s \o t \in Seq(E)
  BY ConcatProperties
<1>2. Append(t, x) = t \o <<x>> /\ Append(s \o t, x) = (s \o t) \o <<x>>
  BY <1>1, AppendIsConcat
<1> QED
  BY <1>1, <1>2, ConcatAssociative

LEMMA EntriesTyped ==
  ASSUME NEW c \in Seq(RollbackNode)
  PROVE  ArchivedEntries(c) \in Seq(Entry)
<1>1. /\ Len(c) \in 0..Len(c) /\ SubSeq(c, 1, Len(c)) = c
      /\ RollbackNode = [entries : Seq(Entry), depth : Nat, total : Nat]
  BY LenProperties, SubSeqFull DEF RollbackNode
<1>2. \A n \in 0..Len(c) : ArchivedEntries(Prefix(c, n)) \in Seq(Entry)
  BY <1>1, EntriesType
<1> QED
  BY <1>1, <1>2 DEF Prefix

\* Both compactions together: what they are given is what they leave.
LEMMA CompactStep ==
  ASSUME LedgersInv,
         NEW p \in Seq(Entry), Once(p),
         NEW e \in Seq(Entry),
         Compact(p, e), limit' = limit,
         ever' \in Seq(Entry),
         ArchivedEntries(coldRollbacks) \o e = ever'
  PROVE  /\ LedgersInv'
         /\ \A s : CountIn(hot', s) + Cold(cold', s) = CountIn(p, s) + Cold(cold, s)
         /\ rollbacks' = <<>> <=> e = <<>>
         /\ e # <<>> => LastOf(rollbacks') = LastOf(e)
<1>1. /\ LedgersTyped /\ FailureArchiveValid(cold) /\ RollbackArchiveValid(coldRollbacks)
      /\ FailureChain(cold) /\ coldRollbacks \in Seq(RollbackNode)
      /\ limit \in [LimitNames -> Limits]
  BY DEF LedgersInv, ArchivesValid, LedgersTyped
<1>2. /\ hot' = CompactFailures(p, cold).hot
      /\ cold' = CompactFailures(p, cold).cold
      /\ rollbacks' = CompactRollbacks(e, coldRollbacks).hot
      /\ coldRollbacks' = CompactRollbacks(e, coldRollbacks).cold
  BY DEF Compact
<1>3. /\ hot' \in Seq(Entry)
      /\ Once(hot')
      /\ FailureChain(cold')
      /\ FailureArchiveValid(cold')
      /\ \A s : CountIn(hot', s) + Cold(cold', s) = CountIn(p, s) + Cold(cold, s)
  BY <1>1, <1>2, FailuresCompact
<1>4. /\ rollbacks' \in Seq(Entry)
      /\ coldRollbacks' \in Seq(RollbackNode)
      /\ RollbackArchiveValid(coldRollbacks')
      /\ ArchivedEntries(coldRollbacks') \o rollbacks' = ArchivedEntries(coldRollbacks) \o e
      /\ rollbacks' = <<>> <=> e = <<>>
      /\ e # <<>> => LastOf(rollbacks') = LastOf(e)
  BY <1>1, <1>2, RollbacksCompact
<1>5. LedgersTyped'
  BY <1>1, <1>3, <1>4 DEF LedgersTyped
<1>6. ArchivesValid' /\ HistoryKept'
  BY <1>3, <1>4 DEF ArchivesValid, HistoryKept
<1> QED
  BY <1>3, <1>4, <1>5, <1>6 DEF LedgersInv

\* A return is one more strike of its root cause, of it alone, and the last entry.
LEMMA ReturnStep ==
  ASSUME LedgersInv, NEW s \in Signatures, ReturnNode(s)
  PROVE  /\ LedgersInv'
         /\ \A t : CountIn(hot', t) + Cold(cold', t) =
                      CountIn(hot, t) + Cold(cold, t) + IF t = s THEN 1 ELSE 0
         /\ rollbacks' # <<>>
         /\ LastOf(rollbacks') = <<s, CountIn(hot, s) + Cold(cold, s) + 1>>
<1> DEFINE n == CountIn(hot, s) + 1
           p == Append(Without(hot, s), <<s, n>>)
           entry == <<s, Cold(cold, s) + n>>
           e == Append(rollbacks, entry)
<1>1. /\ hot \in Seq(Entry) /\ Once(hot) /\ FailureChain(cold)
      /\ rollbacks \in Seq(Entry) /\ ever \in Seq(Entry)
      /\ coldRollbacks \in Seq(RollbackNode)
      /\ ArchivedEntries(coldRollbacks) \o rollbacks = ever
  BY DEF LedgersInv, LedgersTyped, HistoryKept
<1>2. Compact(p, e) /\ ever' = Append(ever, entry) /\ limit' = limit
  BY DEF ReturnNode, Cold
<1>3. CountIn(hot, s) \in Nat /\ Cold(cold, s) \in Nat /\ n \in Nat \ {0}
  BY <1>1, CountIsNatural, ColdIsNatural
<1>4. entry \in Entry
  BY <1>3 DEF Entry
<1>5. /\ p \in Seq(Entry) /\ Once(p) /\ CountIn(p, s) = n
      /\ \A t : t # s => CountIn(p, t) = CountIn(hot, t)
  <2> HIDE DEF n
  <2> QED
    BY <1>1, <1>3, CountMoved
<1>6. /\ e \in Seq(Entry) /\ Len(e) = Len(rollbacks) + 1 /\ e[Len(rollbacks) + 1] = entry
      /\ ever' \in Seq(Entry)
  <2> HIDE DEF entry
  <2> QED
    BY <1>1, <1>2, <1>4, AppendProperties
<1>7. ArchivedEntries(coldRollbacks) \o e = ever'
  <2>1. ArchivedEntries(coldRollbacks) \in Seq(Entry)
    BY <1>1, EntriesTyped
  <2> HIDE DEF entry
  <2> QED
    BY <1>1, <1>2, <1>4, <2>1, AppendAfter
<1>8. e # <<>> /\ LastOf(e) = entry
  <2> HIDE DEF entry, e
  <2>1. Len(rollbacks) \in Nat
    BY <1>1, LenProperties
  <2>2. e # <<>>
    BY <1>6, <2>1, EmptySeq
  <2> QED
    BY <1>6, <2>2 DEF LastOf
<1> HIDE DEF p, e
<1>9. /\ LedgersInv'
      /\ \A t : CountIn(hot', t) + Cold(cold', t) = CountIn(p, t) + Cold(cold, t)
      /\ rollbacks' # <<>> /\ LastOf(rollbacks') = LastOf(e)
  BY <1>1, <1>2, <1>5, <1>6, <1>7, <1>8, CompactStep
<1>10. ASSUME NEW t
       PROVE  CountIn(p, t) + Cold(cold, t) =
                 CountIn(hot, t) + Cold(cold, t) + IF t = s THEN 1 ELSE 0
  <2>1. CountIn(hot, t) \in Nat /\ Cold(cold, t) \in Nat
    BY <1>1, CountIsNatural, ColdIsNatural
  <2>2. CountIn(p, t) = CountIn(hot, t) + IF t = s THEN 1 ELSE 0
    BY <1>5, <2>1
  <2> QED
    BY <2>1, <2>2
<1>11. entry = <<s, CountIn(hot, s) + Cold(cold, s) + 1>>
  BY <1>3
<1> HIDE DEF entry
<1> QED
  BY <1>8, <1>9, <1>10, <1>11

\* What StrikeLedger sees of the ledgers.
StrikeCounts == [s \in Signatures |->
    CountIn(hot, s) + (IF s \in DOMAIN ArchivedCounts(cold) THEN ArchivedCounts(cold)[s] ELSE 0)]
StrikeLast == IF rollbacks = <<>> THEN NoEntry ELSE LastOf(rollbacks)

LEMMA NothingCounted ==
  /\ \A s : CountIn(<<>>, s) = 0
  /\ \A s : Cold(<<>>, s) = 0
  /\ FailureChain(<<>>)
  /\ Once(<<>>)
<1>1. <<>> \in Seq(Entry) /\ Len(<<>>) = 0
  BY EmptySeq
<1>2. Keys(<<>>) = {}
  BY DEF Keys
<1>3. \A s : CountIn(<<>>, s) = 0
  BY <1>1, <1>2, CountNone
<1>4. ArchivedCounts(<<>>) = [s \in {} |-> 0]
  BY <1>1, CountsNone DEF ArchivedCounts
<1>5. FailureChain(<<>>)
  BY EmptySeq DEF FailureChain, ToSet
<1>6. Once(<<>>)
  BY DEF Once
<1> QED
  BY <1>3, <1>4, <1>5, <1>6 DEF Cold

LEMMA EmptyLedger ==
  ASSUME hot = <<>>, cold = <<>>, rollbacks = <<>>, coldRollbacks = <<>>, ever = <<>>,
         limit \in [LimitNames -> Limits]
  PROVE  LedgersInv
<1>1. LedgersTyped
  BY NothingCounted, EmptySeq DEF LedgersTyped
<1>2. ArchivesValid
  BY DEF ArchivesValid, FailureArchiveValid, RollbackArchiveValid
<1>3. HistoryKept
  BY EntriesNone DEF HistoryKept
<1> QED
  BY <1>1, <1>2, <1>3 DEF LedgersInv

LEMMA ForgetStep ==
  ASSUME LedgersInv, FreshTask
  PROVE  LedgersInv'
<1>1. LedgersTyped'
  BY NothingCounted, EmptySeq DEF LedgersTyped, FreshTask, LedgersInv
<1>2. ArchivesValid'
  BY DEF ArchivesValid, FailureArchiveValid, RollbackArchiveValid, FreshTask
<1>3. HistoryKept'
  BY EntriesNone DEF HistoryKept, FreshTask
<1> QED
  BY <1>1, <1>2, <1>3 DEF LedgersInv

LEMMA CompactStateStep ==
  ASSUME LedgersInv, CompactState
  PROVE  /\ LedgersInv'
         /\ \A t : CountIn(hot', t) + Cold(cold', t) = CountIn(hot, t) + Cold(cold, t)
         /\ StrikeLast' = StrikeLast
<1>1. /\ hot \in Seq(Entry) /\ Once(hot) /\ rollbacks \in Seq(Entry)
      /\ ever \in Seq(Entry) /\ ArchivedEntries(coldRollbacks) \o rollbacks = ever
  BY DEF LedgersInv, LedgersTyped, HistoryKept
<1>2. Compact(hot, rollbacks) /\ ever' = ever /\ limit' = limit
  BY DEF CompactState
<1>3. /\ LedgersInv'
      /\ \A t : CountIn(hot', t) + Cold(cold', t) = CountIn(hot, t) + Cold(cold, t)
      /\ rollbacks' = <<>> <=> rollbacks = <<>>
      /\ rollbacks # <<>> => LastOf(rollbacks') = LastOf(rollbacks)
  BY <1>1, <1>2, CompactStep
<1> QED
  BY <1>3 DEF StrikeLast

LEMMA LimitStep ==
  ASSUME LedgersInv, NEW name \in LimitNames, NEW value \in Limits, EditLimit(name, value)
  PROVE  LedgersInv' /\ UNCHANGED <<hot, cold, rollbacks, coldRollbacks, ever>>
BY DEF LedgersInv, EditLimit, LedgersTyped, ArchivesValid, HistoryKept,
       FailureArchiveValid, RollbackArchiveValid

\* Archives that add up and a complete history are all a command relies on, and what
\* every return, compaction, start and edit of a limit leaves (IInv is inductive).
THEOREM LedgersStand == LedgersSpec => []LedgersInv
<1>1. LedgersInit => LedgersInv
  BY EmptyLedger DEF LedgersInit
<1>2. LedgersInv /\ [LedgersNext]_ledgerVars => LedgersInv'
  <2> SUFFICES ASSUME LedgersInv, [LedgersNext]_ledgerVars PROVE LedgersInv'
    OBVIOUS
  <2>1. ASSUME NEW s \in Signatures, ReturnNode(s) PROVE LedgersInv'
    BY <2>1, ReturnStep
  <2>2. CASE CompactState
    BY <2>2, CompactStateStep
  <2>3. CASE FreshTask
    BY <2>3, ForgetStep
  <2>4. ASSUME NEW name \in LimitNames, NEW value \in Limits, EditLimit(name, value)
        PROVE  LedgersInv'
    BY <2>4, LimitStep
  <2>5. CASE UNCHANGED ledgerVars
    BY <2>5 DEF ledgerVars, LedgersInv, LedgersTyped, ArchivesValid, HistoryKept,
                FailureArchiveValid, RollbackArchiveValid
  <2> QED
    BY <2>1, <2>2, <2>3, <2>4, <2>5 DEF LedgersNext
<1> QED
  BY <1>1, <1>2, PTL DEF LedgersSpec

\* No sequence of returns, compactions and edited limits makes an archive chain that
\* its own validators refuse.
THEOREM ArchivesStayValid == LedgersSpec => []ArchivesValid
<1>1. LedgersInv => ArchivesValid
  BY DEF LedgersInv
<1> QED
  BY LedgersStand, <1>1, PTL

\* The archived and the hot rollback entries are every return of the task, in order.
THEOREM HistoryIsKept == LedgersSpec => []HistoryKept
<1>1. LedgersInv => HistoryKept
  BY DEF LedgersInv
<1> QED
  BY LedgersStand, <1>1, PTL

\* A step of the ledgers is a strike, a fresh start, or nothing to StrikeLedger.
LEMMA StrikesStep ==
  ASSUME LedgersInv, [LedgersNext]_ledgerVars
  PROVE  [Strikes!Next]_<<StrikeCounts, StrikeLast>>
<1> USE DEF StrikeCounts
<1>1. ASSUME NEW s \in Signatures, ReturnNode(s)
      PROVE  Strikes!Strike(s)
  <2>1. /\ \A t : CountIn(hot', t) + Cold(cold', t) =
                     CountIn(hot, t) + Cold(cold, t) + IF t = s THEN 1 ELSE 0
        /\ StrikeLast' = <<s, CountIn(hot, s) + Cold(cold, s) + 1>>
    BY <1>1, ReturnStep DEF StrikeLast
  <2>2. \A t : CountIn(hot, t) \in Nat /\ Cold(cold, t) \in Nat
    BY CountIsNatural, ColdIsNatural DEF LedgersInv, LedgersTyped
  <2>3. StrikeCounts = [t \in Signatures |-> CountIn(hot, t) + Cold(cold, t)]
    BY DEF Cold
  <2>4. StrikeCounts' = [t \in Signatures |-> CountIn(hot', t) + Cold(cold', t)]
    BY DEF Cold
  <2> HIDE DEF StrikeCounts
  <2>5. StrikeCounts' = [StrikeCounts EXCEPT ![s] = @ + 1]
    BY <2>1, <2>2, <2>3, <2>4
  <2>6. StrikeLast' = <<s, StrikeCounts[s] + 1>>
    BY <2>1, <2>3
  <2> QED
    BY <2>5, <2>6 DEF Strikes!Strike, StrikeCounts, StrikeLast
<1>2. ASSUME CompactState PROVE UNCHANGED <<StrikeCounts, StrikeLast>>
  BY <1>2, CompactStateStep DEF Cold
<1>3. ASSUME FreshTask PROVE Strikes!Forget
  BY <1>3, NothingCounted DEF FreshTask, Strikes!Forget, Cold, StrikeLast
<1>4. ASSUME NEW name \in LimitNames, NEW value \in Limits, EditLimit(name, value)
      PROVE  UNCHANGED <<StrikeCounts, StrikeLast>>
  BY <1>4, LimitStep DEF StrikeLast
<1>5. ASSUME UNCHANGED ledgerVars PROVE UNCHANGED <<StrikeCounts, StrikeLast>>
  BY <1>5 DEF ledgerVars, StrikeLast
<1> QED
  BY <1>1, <1>2, <1>3, <1>4, <1>5 DEF LedgersNext, Strikes!Next

\* FailureLedger implements StrikeLedger: however counts are evicted, chained and
\* collapsed, a recurrence is counted as one more, and the last entry stays at hand.
THEOREM StrikesAreCounted == LedgersSpec => StrikeSpec
<1>1. LedgersInit => Strikes!Init
  BY NothingCounted DEF LedgersInit, Strikes!Init, Cold
<1>2. LedgersInv /\ [LedgersNext]_ledgerVars => [Strikes!Next]_<<StrikeCounts, StrikeLast>>
  BY StrikesStep
<1> QED
  BY LedgersStand, <1>1, <1>2, PTL DEF LedgersSpec, StrikeSpec, Strikes!Spec, StrikeCounts, StrikeLast

(***************************************************************************)
(* The inductive invariant: the states are linked in the order they were   *)
(* archived, and a state of the present task is coherent.                  *)
(***************************************************************************)
\* A head names an earlier archive, and the epoch is the one after that archive's.
After(d, n) ==
    /\ d.head \in 0..n
    /\ d.epoch = IF d.head = 0 THEN 1 ELSE archives[d.head].epoch + 1

ArchivesLinked ==
    /\ \A i \in 1..Len(archives) : After(archives[i], i - 1)
    /\ Recorded => After(delivery, Len(archives))

\* What Valid asks of a state apart from the chain and the age of the preflight.
Coherent(d) ==
    /\ [env |-> d.env, requested |-> d.requested] = task.target
    /\ ~d.requested <=> d.status = "not_requested"
    /\ Attested(d)
    /\ d.status \in {"awaiting_provider_preflight", "awaiting_production_approval"} =>
          d.env = "production"
    /\ "approval" \in d.has => d.approvedIn = task.n
    /\ d.status = "promoted" => d.passed
    /\ d.status = "rollback_required" => ~d.passed
    /\ "promotion" \in d.has => d.passed

PresentCoherent == Recorded /\ owner = task.n => Coherent(delivery)

DeliveryInv == DeliveryTyped /\ ArchivesLinked /\ PresentCoherent

(***************************************************************************)
(* The heads of the archives.                                              *)
(***************************************************************************)
\* What Heads solves, on the archives up to n.
From(g, i) == IF i = 0 THEN <<>> ELSE <<i>> \o g[archives[i].head]
Solves(g, n) == g = [i \in 0..n |-> From(g, i)]

LEMMA HeadsIs == Heads = CHOOSE g : Solves(g, Len(archives))
  BY DEF Heads, Solves, From

\* The recursion is well founded, for a head is always an earlier archive.
LEMMA HeadsSolve ==
  ASSUME archives \in Seq(States), \A i \in 1..Len(archives) : After(archives[i], i - 1)
  PROVE  Solves(Heads, Len(archives))
<1> DEFINE Bad == {n \in 0..Len(archives) : ~ \E g : Solves(g, n)}
<1>1. Bad = {}
  <2> SUFFICES ASSUME Bad # {} PROVE FALSE
    OBVIOUS
  <2>1. PICK n \in Bad : \A k \in Bad : n <= k
    <3>1. Bad \in SUBSET Nat
      OBVIOUS
    <3> HIDE DEF Bad
    <3> QED
      BY <3>1, LeastNatural
  <2>2. n # 0
    <3> DEFINE g == [i \in 0..0 |-> <<>>]
    <3>1. Solves(g, 0)
      <4>1. g = [i \in 0..0 |-> From(g, i)]
        BY DEF From
      <4> HIDE DEF g
      <4> QED
        BY <4>1 DEF Solves
    <3> HIDE DEF g
    <3> QED
      BY <3>1
  <2>3. n \in 1..Len(archives) /\ n - 1 \in 0..Len(archives) /\ n - 1 \notin Bad
    BY <2>1, <2>2
  <2>4. PICK g : Solves(g, n - 1)
    BY <2>3
  <2> DEFINE By(i) == IF i = n THEN <<n>> \o g[archives[n].head] ELSE g[i]
             h == [i \in 0..n |-> By(i)]
  <2>5. ASSUME NEW i \in 0..n
        PROVE  By(i) = From(h, i)
    <3>1. i # 0 => archives[i].head \in 0..(i - 1)
      BY <2>3 DEF After
    <3>2. i # 0 => h[archives[i].head] = g[archives[i].head]
      BY <3>1
    <3>3. i # n => g[i] = From(g, i)
      <4>1. i # n => i \in 0..(n - 1)
        BY <2>3, LenProperties
      <4> QED
        BY <2>4, <4>1 DEF Solves
    <3>4. From(h, i) = From(g, i)
      <4>1. i = 0 => From(h, i) = <<>> /\ From(g, i) = <<>>
        BY DEF From
      <4>2. i # 0 => /\ From(h, i) = <<i>> \o h[archives[i].head]
                     /\ From(g, i) = <<i>> \o g[archives[i].head]
        <5> HIDE DEF h
        <5> QED
          BY Zenon DEF From
      <4>3. CASE i = 0
        BY <4>1, <4>3, Zenon
      <4>4. CASE i # 0
        <5>1. h[archives[i].head] = g[archives[i].head]
          BY <3>2, <4>4
        <5> HIDE DEF h
        <5> QED
          BY <4>2, <4>4, <5>1, Zenon
      <4> QED
        BY <4>3, <4>4
    <3>5. i = n => By(i) = From(g, i)
      BY <2>2, Zenon DEF From
    <3> HIDE DEF h
    <3> QED
      BY <3>3, <3>4, <3>5
  <2>6. Solves(h, n)
    <3>1. h = [i \in 0..n |-> h[i]]
      OBVIOUS
    <3>2. \A i \in 0..n : h[i] = By(i)
      <4> HIDE DEF By
      <4> QED
        OBVIOUS
    <3>3. \A i \in 0..n : h[i] = From(h, i)
      <4> HIDE DEF By, h
      <4> QED
        BY <2>5, <3>2
    <3> HIDE DEF h
    <3> QED
      BY <3>1, <3>3 DEF Solves
  <2> HIDE DEF h
  <2> QED
    BY <2>1, <2>6
<1>2. \E g : Solves(g, Len(archives))
  BY <1>1
<1> QED
  BY <1>2, HeadsIs

LEMMA HeadsRule ==
  ASSUME archives \in Seq(States), \A i \in 1..Len(archives) : After(archives[i], i - 1)
  PROVE  /\ Heads[0] = <<>>
         /\ \A i \in 1..Len(archives) : Heads[i] = <<i>> \o Heads[archives[i].head]
<1>1. Solves(Heads, Len(archives)) /\ Len(archives) \in Nat
  BY HeadsSolve
<1>2. ASSUME NEW g, Solves(g, Len(archives)), NEW i \in 0..Len(archives)
      PROVE  g[i] = From(g, i)
  BY <1>2 DEF Solves
<1>3. \A i \in 0..Len(archives) : Heads[i] = From(Heads, i)
  BY <1>1, <1>2
<1>4. \A g : From(g, 0) = <<>>
  BY DEF From
<1>5. \A g, i : i # 0 => From(g, i) = <<i>> \o g[archives[i].head]
  BY Zenon DEF From
<1>6. 0 \in 0..Len(archives) /\ \A i \in 1..Len(archives) : i \in 0..Len(archives) /\ i # 0
  BY <1>1
<1> HIDE DEF Heads
<1> QED
  BY <1>3, <1>4, <1>5, <1>6, Zenon

\* The heads from archive i on are as many as its epoch, and the epochs count down.
Descends(i) ==
    LET h == Heads[i]
        first == IF i = 0 THEN 0 ELSE archives[i].epoch
    IN  /\ h \in Seq(1..Len(archives))
        /\ Len(h) = first /\ Len(h) <= i
        /\ \A j \in 1..Len(h) : archives[h[j]].epoch = first + 1 - j

LEMMA HeadsDescend ==
  ASSUME archives \in Seq(States), \A i \in 1..Len(archives) : After(archives[i], i - 1)
  PROVE  \A i \in 0..Len(archives) : Descends(i)
<1> DEFINE Bad == {i \in 0..Len(archives) : ~ Descends(i)}
<1> SUFFICES ASSUME Bad # {} PROVE FALSE
  OBVIOUS
<1>1. PICK i \in Bad : \A k \in Bad : i <= k
  <2>1. Bad \in SUBSET Nat
    OBVIOUS
  <2> HIDE DEF Bad
  <2> QED
    BY <2>1, LeastNatural
<1>2. /\ Heads[0] = <<>>
      /\ \A k \in 1..Len(archives) : Heads[k] = <<k>> \o Heads[archives[k].head]
  BY HeadsRule
<1>3. i # 0
  <2>1. Descends(0)
    BY <1>2 DEF Descends
  <2> QED
    BY <2>1
<1> DEFINE p == archives[i].head
<1>4. i \in 1..Len(archives) /\ Len(archives) \in Nat
  BY <1>3
<1>5. /\ p \in 0..(i - 1)
      /\ archives[i].epoch = IF p = 0 THEN 1 ELSE archives[p].epoch + 1
  BY <1>4 DEF After
<1>6. Descends(p)
  BY <1>1, <1>4, <1>5
<1>7. archives[i] \in States /\ (p # 0 => archives[p] \in States)
  BY <1>4, <1>5, ElementOfSeq
<1>8. archives[i].epoch \in Nat /\ (p # 0 => archives[p].epoch \in Nat)
  BY <1>7 DEF States
<1> DEFINE t == Heads[p]
<1>9. /\ t \in Seq(1..Len(archives)) /\ Len(t) \in Nat
      /\ Len(t) + 1 = archives[i].epoch /\ Len(t) + 1 <= i
      /\ \A j \in 1..Len(t) : archives[t[j]].epoch = Len(t) + 1 - j
  <2>1. t \in Seq(1..Len(archives))
    BY <1>6 DEF Descends
  <2>2. Len(t) \in Nat
    BY <2>1, LenProperties
  <2>3. Len(t) = (IF p = 0 THEN 0 ELSE archives[p].epoch) /\ Len(t) <= p
    BY <1>6 DEF Descends
  <2>4. \A j \in 1..Len(t) : archives[t[j]].epoch = Len(t) + 1 - j
    BY <1>6, <2>3 DEF Descends
  <2>5. Len(t) + 1 = archives[i].epoch /\ Len(t) + 1 <= i
    <3> HIDE DEF t
    <3>1. CASE p = 0
      BY <1>4, <1>5, <2>2, <2>3, <3>1
    <3>2. CASE p # 0
      BY <1>4, <1>5, <2>2, <2>3, <3>2
    <3> QED
      BY <3>1, <3>2
  <2> QED
    BY <2>1, <2>2, <2>4, <2>5
<1>10. Heads[i] = <<i>> \o t
  BY <1>2, <1>4
<1>11. /\ <<i>> \o t \in Seq(1..Len(archives))
       /\ Len(<<i>> \o t) = Len(t) + 1
       /\ (<<i>> \o t)[1] = i
       /\ \A j \in 2..(Len(t) + 1) : (<<i>> \o t)[j] = t[j - 1]
  <2> HIDE DEF t
  <2> QED
    BY <1>4, <1>9, ConcatProperties
<1>12. ASSUME NEW j \in 1..(Len(t) + 1)
       PROVE  archives[(<<i>> \o t)[j]].epoch = archives[i].epoch + 1 - j
  <2> HIDE DEF t
  <2>1. CASE j = 1
    BY <1>8, <1>11, <2>1
  <2>2. CASE j # 1
    <3>1. j \in 2..(Len(t) + 1) /\ j - 1 \in 1..Len(t)
      BY <1>9, <2>2
    <3>2. (<<i>> \o t)[j] = t[j - 1]
      BY <1>11, <3>1
    <3>3. archives[t[j - 1]].epoch = Len(t) + 1 - (j - 1)
      BY <1>9, <3>1
    <3> QED
      BY <1>8, <1>9, <3>2, <3>3
  <2> QED
    BY <2>1, <2>2
<1>13. Descends(i)
  <2> HIDE DEF t
  <2> QED
    BY <1>3, <1>9, <1>10, <1>11, <1>12 DEF Descends
<1> QED
  BY <1>13

\* A state that is linked verifies as long as its epoch is within the validator's limit.
LEMMA LinkedVerifies ==
  ASSUME DeliveryTyped, ArchivesLinked, Recorded
  PROVE  /\ delivery.epoch <= Len(archives) + 1
         /\ delivery.epoch <= Limit + 1 => ChainVerifies(delivery)
<1> DEFINE h == Heads[delivery.head]
<1>1. /\ archives \in Seq(States) /\ Len(archives) \in Nat /\ delivery \in States
      /\ \A i \in 1..Len(archives) : After(archives[i], i - 1)
      /\ After(delivery, Len(archives))
  BY LenProperties DEF DeliveryTyped, ArchivesLinked
<1>2. delivery.head \in 0..Len(archives) /\ delivery.epoch \in Nat /\ Limit \in Nat
  BY <1>1, DeliveryAssumption DEF After, States
<1>3. Descends(delivery.head)
  BY <1>1, <1>2, HeadsDescend
<1>4. Len(h) \in Nat
  BY <1>3, LenProperties DEF Descends
<1>5. delivery.head # 0 => archives[delivery.head].epoch \in Nat
  <2>1. ASSUME delivery.head # 0 PROVE archives[delivery.head] \in States
    BY <1>1, <1>2, <2>1, ElementOfSeq
  <2> QED
    BY <2>1 DEF States
<1> DEFINE first == IF delivery.head = 0 THEN 0 ELSE archives[delivery.head].epoch
<1>6. /\ Len(h) = first /\ Len(h) <= delivery.head
      /\ \A j \in 1..Len(h) : archives[h[j]].epoch = first + 1 - j
  BY <1>3 DEF Descends
<1>7. first \in Nat /\ delivery.epoch = first + 1
  BY <1>1, <1>5 DEF After
<1> HIDE DEF h, first
<1> QED
  <2>1. delivery.epoch <= Len(archives) + 1
    BY <1>1, <1>2, <1>4, <1>6, <1>7
  <2>2. ASSUME delivery.epoch <= Limit + 1 PROVE ChainVerifies(delivery)
    <3>1. Len(h) <= Limit /\ delivery.epoch = Len(h) + 1
      BY <1>2, <1>4, <1>6, <1>7, <2>2
    <3>2. \A j \in 1..Len(h) : archives[h[j]].epoch = delivery.epoch - j
      BY <1>6, <1>7
    <3> QED
      BY <3>1, <3>2 DEF ChainVerifies, h
  <2> QED
    BY <2>1, <2>2

(***************************************************************************)
(* The steps.                                                              *)
(***************************************************************************)
LEMMA BlankState == Blank \in States
  BY DeliveryAssumption DEF Blank, States, Statuses, Receipts

LEMMA TargetFields ==
  ASSUME NEW t \in Targets
  PROVE  t.env \in {"local", "test", "production"} /\ t.requested \in BOOLEAN
<1>1. CASE t = [env |-> "local", requested |-> FALSE]
  BY <1>1
<1>2. CASE t = [env |-> "test", requested |-> TRUE]
  BY <1>2
<1>3. CASE t = [env |-> "production", requested |-> TRUE]
  BY <1>3
<1> QED
  BY <1>1, <1>2, <1>3 DEF Targets

\* What a state becomes part of the archives, at its name.
LEMMA ArchivedLinked ==
  ASSUME DeliveryTyped, ArchivesLinked, Recorded, Len(archives) < MaxResets,
         NEW a, a = Archived(delivery), NEW k, k = Named(delivery)
  PROVE  /\ a \in Seq(States) /\ Len(a) \in Nat /\ Len(a) <= MaxResets
         /\ k \in 1..Len(a) /\ a[k] = delivery
         /\ \A i \in 1..Len(a) :
               /\ a[i].head \in 0..(i - 1)
               /\ a[i].epoch = IF a[i].head = 0 THEN 1 ELSE a[a[i].head].epoch + 1
<1>1. /\ archives \in Seq(States) /\ Len(archives) \in Nat /\ delivery \in States
      /\ MaxResets \in Nat
      /\ \A i \in 1..Len(archives) : After(archives[i], i - 1)
      /\ After(delivery, Len(archives))
  BY LenProperties, DeliveryAssumption DEF DeliveryTyped, ArchivesLinked
<1>2. CASE \E i \in 1..Len(archives) : archives[i] = delivery
  <2>1. a = archives
    BY <1>2 DEF Archived
  <2>2. k \in 1..Len(a) /\ a[k] = delivery
    BY <1>2, <2>1 DEF Named, Archived
  <2>3. \A i \in 1..Len(a) :
               /\ a[i].head \in 0..(i - 1)
               /\ a[i].epoch = IF a[i].head = 0 THEN 1 ELSE a[a[i].head].epoch + 1
    BY <1>1, <2>1 DEF After
  <2> QED
    BY <1>1, <2>1, <2>2, <2>3
<1>3. CASE ~ \E i \in 1..Len(archives) : archives[i] = delivery
  <2>1. a = Append(archives, delivery)
    BY <1>3 DEF Archived
  <2>2. /\ a \in Seq(States) /\ Len(a) = Len(archives) + 1
        /\ a[Len(a)] = delivery
        /\ \A i \in 1..Len(archives) : a[i] = archives[i]
    BY <1>1, <2>1, AppendProperties
  <2>3. \E i \in 1..Len(a) : a[i] = delivery
    BY <1>1, <2>2
  <2>4. k \in 1..Len(a) /\ a[k] = delivery
    BY <2>1, <2>3, <1>3 DEF Named, Archived
  <2>5. ASSUME NEW i \in 1..Len(a)
        PROVE  /\ a[i].head \in 0..(i - 1)
               /\ a[i].epoch = IF a[i].head = 0 THEN 1 ELSE a[a[i].head].epoch + 1
    <3>1. CASE i \in 1..Len(archives)
      <4>1. /\ a[i].head \in 0..(i - 1)
            /\ a[i].epoch = IF a[i].head = 0 THEN 1 ELSE archives[a[i].head].epoch + 1
        BY <1>1, <2>2, <3>1 DEF After
      <4>2. a[i].head # 0 => a[i].head \in 1..Len(archives)
        BY <1>1, <3>1, <4>1
      <4> QED
        BY <2>2, <4>1, <4>2
    <3>2. CASE i = Len(a)
      <4>1. /\ a[i].head \in 0..Len(archives)
            /\ a[i].epoch = IF a[i].head = 0 THEN 1 ELSE archives[a[i].head].epoch + 1
        BY <1>1, <2>2, <3>2 DEF After
      <4> QED
        BY <1>1, <2>2, <3>2, <4>1
    <3> QED
      BY <1>1, <2>2, <3>1, <3>2
  <2> QED
    BY <1>1, <2>2, <2>4, <2>5
<1> QED
  BY <1>2, <1>3

\* A new state begins with nothing, in its place in the chain.
LEMMA ResetStep ==
  ASSUME DeliveryTyped, ArchivesLinked, Len(archives) < MaxResets, Reset
  PROVE  /\ archives' \in Seq(States) /\ Len(archives') <= MaxResets
         /\ delivery' \in States
         /\ ArchivesLinked'
         /\ delivery'.env = task.target.env /\ delivery'.requested = task.target.requested
         /\ delivery'.status = IF task.target.requested THEN "awaiting_artifact" ELSE "not_requested"
         /\ delivery'.has = {} /\ ~delivery'.passed
<1> DEFINE new == [Blank EXCEPT !.env = task.target.env, !.requested = task.target.requested,
                     !.status = IF task.target.requested THEN "awaiting_artifact"
                                ELSE "not_requested"]
<1>1. /\ archives \in Seq(States) /\ Len(archives) \in Nat /\ MaxResets \in Nat
      /\ Len(archives) <= MaxResets
      /\ \A i \in 1..Len(archives) : After(archives[i], i - 1)
      /\ Recorded => delivery \in States /\ After(delivery, Len(archives))
  BY LenProperties, DeliveryAssumption DEF DeliveryTyped, ArchivesLinked
<1>2. task.target \in Targets
  BY DEF DeliveryTyped
<1>3. /\ new \in States /\ new.epoch = 1 /\ new.head = 0
      /\ new.env = task.target.env /\ new.requested = task.target.requested
      /\ new.status = IF task.target.requested THEN "awaiting_artifact" ELSE "not_requested"
      /\ new.has = {} /\ ~new.passed
  <2>1. /\ task.target.env \in {"local", "test", "production"}
        /\ task.target.requested \in BOOLEAN
    BY <1>2, TargetFields
  <2>2. {"awaiting_artifact", "not_requested"} \subseteq Statuses
    BY DEF Statuses
  <2>3. Blank.epoch = 1 /\ Blank.head = 0 /\ Blank.has = {} /\ ~Blank.passed
    BY DEF Blank
  <2>4. new \in States
    BY <2>1, <2>2, BlankState DEF States
  <2>5. /\ new.epoch = Blank.epoch /\ new.head = Blank.head
        /\ new.has = Blank.has /\ new.passed = Blank.passed
        /\ new.env = task.target.env /\ new.requested = task.target.requested
        /\ new.status = IF task.target.requested THEN "awaiting_artifact" ELSE "not_requested"
    BY BlankState DEF States
  <2> HIDE DEF new
  <2> QED
    BY <2>3, <2>4, <2>5
<1>4. CASE ~Recorded
  <2>1. delivery' = new /\ archives' = archives
    BY <1>4 DEF Reset
  <2>2. ArchivesLinked'
    <3> HIDE DEF new
    <3> QED
      BY <1>1, <1>3, <2>1 DEF ArchivesLinked, After
  <2> HIDE DEF new
  <2> QED
    BY <1>1, <1>3, <2>1, <2>2
<1>5. CASE Recorded /\ NothingToLose(delivery)
  <2>1. delivery' = [new EXCEPT !.epoch = delivery.epoch, !.head = delivery.head]
        /\ archives' = archives
    BY <1>5 DEF Reset
  <2>2. delivery.epoch \in Nat \ {0} /\ delivery.head \in Nat
    BY <1>1, <1>5 DEF States
  <2>3. /\ delivery' \in States
        /\ delivery'.epoch = delivery.epoch /\ delivery'.head = delivery.head
        /\ delivery'.env = new.env /\ delivery'.requested = new.requested
        /\ delivery'.status = new.status /\ delivery'.has = new.has
        /\ delivery'.passed = new.passed
    <3> HIDE DEF new
    <3> QED
      BY <1>3, <2>1, <2>2 DEF States
  <2>4. ArchivesLinked'
    BY <1>1, <1>5, <2>1, <2>3 DEF ArchivesLinked, After
  <2> HIDE DEF new
  <2> QED
    BY <1>1, <1>3, <2>1, <2>3, <2>4
<1>6. CASE Recorded /\ ~NothingToLose(delivery)
  <2> DEFINE a == Archived(delivery)
             k == Named(delivery)
  <2>1. archives' = a /\ delivery' = [new EXCEPT !.epoch = delivery.epoch + 1, !.head = k]
    BY <1>6 DEF Reset
  <2>2. /\ a \in Seq(States) /\ Len(a) \in Nat /\ Len(a) <= MaxResets
        /\ k \in 1..Len(a) /\ a[k] = delivery
        /\ \A i \in 1..Len(a) :
              /\ a[i].head \in 0..(i - 1)
              /\ a[i].epoch = IF a[i].head = 0 THEN 1 ELSE a[a[i].head].epoch + 1
    <3> HIDE DEF a, k
    <3> SUFFICES a = Archived(delivery) /\ k = Named(delivery)
      BY <1>6, ArchivedLinked
    <3> QED
      BY DEF a, k
  <2> HIDE DEF new, a, k
  <2>3. delivery.epoch \in Nat \ {0} /\ k \in Nat
    BY <1>1, <1>6, <2>2 DEF States
  <2>4. /\ delivery' \in States
        /\ delivery'.epoch = delivery.epoch + 1 /\ delivery'.head = k
        /\ delivery'.env = new.env /\ delivery'.requested = new.requested
        /\ delivery'.status = new.status /\ delivery'.has = new.has
        /\ delivery'.passed = new.passed
    <3>1. delivery.epoch + 1 \in Nat \ {0}
      BY <2>3
    <3> QED
      BY <1>3, <2>1, <2>3, <3>1 DEF States
  <2>5. ArchivesLinked'
    BY <2>1, <2>2, <2>3, <2>4 DEF ArchivesLinked, After
  <2> QED
    BY <1>3, <2>1, <2>2, <2>4, <2>5
<1> QED
  BY <1>4, <1>5, <1>6

\* init died before the state was written: the archive is linked, the state as it was.
LEMMA DeathStep ==
  ASSUME DeliveryTyped, ArchivesLinked, Recorded, Len(archives) < MaxResets,
         archives' = Archived(delivery), delivery' = delivery
  PROVE  archives' \in Seq(States) /\ Len(archives') <= MaxResets /\ ArchivesLinked'
<1> DEFINE a == Archived(delivery)
           k == Named(delivery)
<1>1. /\ a \in Seq(States) /\ Len(a) \in Nat /\ Len(a) <= MaxResets
      /\ k \in 1..Len(a) /\ a[k] = delivery
      /\ \A i \in 1..Len(a) :
            /\ a[i].head \in 0..(i - 1)
            /\ a[i].epoch = IF a[i].head = 0 THEN 1 ELSE a[a[i].head].epoch + 1
  <2> HIDE DEF a, k
  <2> SUFFICES a = Archived(delivery) /\ k = Named(delivery)
    BY ArchivedLinked
  <2> QED
    BY DEF a, k
<1>2. archives' = a
  OBVIOUS
<1> HIDE DEF a, k
<1>3. delivery.head \in 0..(k - 1)
      /\ delivery.epoch = IF delivery.head = 0 THEN 1 ELSE a[delivery.head].epoch + 1
  BY <1>1
<1> QED
  BY <1>1, <1>2, <1>3 DEF ArchivesLinked, After

LEMMA TypeStays ==
  ASSUME DeliveryTyped, [DeliveryNext]_deliveryVars, ArchivesLinked
  PROVE  DeliveryTyped' /\ ArchivesLinked'
<1> USE DeliveryAssumption
<1>0. /\ task \in [n : 0..MaxStarts, target : Targets, accepted : BOOLEAN]
      /\ starting \in BOOLEAN /\ fresh \in BOOLEAN
      /\ events \in 0..MaxEvents /\ owner \in 0..task.n
      /\ archives \in Seq(States) /\ Len(archives) <= MaxResets
      /\ Recorded => delivery \in States
      /\ {MaxStarts, MaxResets, MaxEvents} \subseteq Nat /\ task.n \in 0..MaxStarts
  BY DEF DeliveryTyped
\* A command keeps the place of the state in the chain.
<1>1. ASSUME NEW from, NEW added \in SUBSET Receipts, NEW to \in Statuses, NEW f \in BOOLEAN,
             Step(from, added, to), fresh' = f
      PROVE  DeliveryTyped' /\ ArchivesLinked'
  <2>1. /\ Recorded /\ delivery' = [delivery EXCEPT !.has = @ \cup added, !.status = to]
        /\ UNCHANGED <<task, starting, archives, events, owner>>
    BY <1>1 DEF Step
  <2>2. /\ delivery' \in States
        /\ delivery'.head = delivery.head /\ delivery'.epoch = delivery.epoch
    BY <1>0, <2>1 DEF States
  <2>3. DeliveryTyped'
    BY <1>0, <1>1, <2>1, <2>2 DEF DeliveryTyped
  <2> QED
    BY <2>1, <2>2, <2>3 DEF ArchivesLinked, After
<1>2. ASSUME InitDelivery PROVE DeliveryTyped' /\ ArchivesLinked'
  <2>1. /\ archives' \in Seq(States) /\ Len(archives') <= MaxResets
        /\ delivery' \in States /\ ArchivesLinked'
    BY <1>2, ResetStep DEF InitDelivery
  <2>2. starting' = FALSE /\ owner' = task.n /\ UNCHANGED <<task, fresh, events>>
    BY <1>2 DEF InitDelivery
  <2>3. /\ starting' \in BOOLEAN /\ fresh' \in BOOLEAN
        /\ events' \in 0..MaxEvents /\ owner' \in 0..task'.n
        /\ task' \in [n : 0..MaxStarts, target : Targets, accepted : BOOLEAN]
    <3>1. owner' \in 0..task'.n
      BY <1>0, <2>2
    <3>2. events' \in 0..MaxEvents
      BY <1>0, <2>2
    <3>3. starting' \in BOOLEAN /\ fresh' \in BOOLEAN /\ task' = task
      BY <1>0, <2>2
    <3> QED
      BY <1>0, <3>1, <3>2, <3>3
  <2>4. DeliveryTyped'
    BY <2>1, <2>3 DEF DeliveryTyped
  <2> QED
    BY <2>1, <2>4
<1>3. ASSUME InitDies PROVE DeliveryTyped' /\ ArchivesLinked'
  <2>1. archives' \in Seq(States) /\ Len(archives') <= MaxResets /\ ArchivesLinked'
    BY <1>3, DeathStep DEF InitDies
  <2>2. /\ events < MaxEvents /\ events' = events + 1 /\ starting' = FALSE
        /\ UNCHANGED <<task, delivery, fresh, owner>>
    BY <1>3 DEF InitDies
  <2>3. /\ starting' \in BOOLEAN /\ fresh' \in BOOLEAN
        /\ events' \in 0..MaxEvents /\ owner' \in 0..task'.n
        /\ task' \in [n : 0..MaxStarts, target : Targets, accepted : BOOLEAN]
        /\ Recorded' => delivery' \in States
    <3>1. owner' \in 0..task'.n
      BY <1>0, <2>2
    <3>2. events' \in 0..MaxEvents
      BY <1>0, <2>2
    <3>3. starting' \in BOOLEAN /\ fresh' \in BOOLEAN /\ task' = task
      BY <1>0, <2>2
    <3>4. Recorded' => delivery' \in States
      BY <1>0, <2>2 DEF Recorded
    <3> QED
      BY <1>0, <3>1, <3>2, <3>3, <3>4
  <2>4. DeliveryTyped'
    BY <2>1, <2>3 DEF DeliveryTyped
  <2> QED
    BY <2>1, <2>4
<1>4. CASE RecordArtifact
  BY <1>0, <1>1, <1>4 DEF RecordArtifact, Receipts, Statuses
<1>5. CASE AcceptTest
  BY <1>0, <1>1, <1>5 DEF AcceptTest, Receipts, Statuses
<1>6. CASE RecordPreflight
  BY <1>0, <1>1, <1>6 DEF RecordPreflight, Receipts, Statuses
<1>7. CASE Rollback
  BY <1>0, <1>1, <1>7 DEF Rollback, Receipts, Statuses
<1>8. CASE Approve
  <2>1. /\ Recorded /\ delivery' = [delivery EXCEPT !.has = @ \cup {"approval"},
                                       !.status = "ready_to_promote", !.approvedIn = task.n]
        /\ UNCHANGED <<task, starting, archives, fresh, events, owner>>
    BY <1>8 DEF Approve
  <2>2. /\ delivery' \in States
        /\ delivery'.head = delivery.head /\ delivery'.epoch = delivery.epoch
    BY <1>0, <2>1 DEF States, Receipts, Statuses
  <2>3. DeliveryTyped'
    BY <1>0, <2>1, <2>2 DEF DeliveryTyped
  <2> QED
    BY <2>1, <2>2, <2>3 DEF ArchivesLinked, After
<1>9. ASSUME NEW passed \in BOOLEAN, Promote(passed) PROVE DeliveryTyped' /\ ArchivesLinked'
  <2> DEFINE has == delivery.has \cup (IF passed THEN {"attempt", "promotion"} ELSE {"attempt"})
  <2>1. /\ Recorded
        /\ delivery' = [delivery EXCEPT !.has = has, !.passed = passed,
                           !.status = IF passed THEN "promoted" ELSE "rollback_required"]
        /\ UNCHANGED <<task, starting, archives, fresh, events, owner>>
    BY <1>9 DEF Promote
  <2>2. has \in SUBSET Receipts
    BY <1>0, <2>1 DEF States, Receipts
  <2> HIDE DEF has
  <2>3. /\ delivery' \in States
        /\ delivery'.head = delivery.head /\ delivery'.epoch = delivery.epoch
    BY <1>0, <1>9, <2>1, <2>2 DEF States, Statuses
  <2>4. DeliveryTyped'
    BY <1>0, <2>1, <2>3 DEF DeliveryTyped
  <2> QED
    BY <2>1, <2>3, <2>4 DEF ArchivesLinked, After
<1>10. ASSUME NEW t \in Targets, BeginTask(t) PROVE DeliveryTyped' /\ ArchivesLinked'
  <2>1. /\ task' = [n |-> task.n + 1, target |-> t, accepted |-> FALSE] /\ task.n < MaxStarts
        /\ starting' = TRUE
        /\ UNCHANGED <<delivery, archives, fresh, events, owner>>
    BY <1>10 DEF BeginTask
  <2>2. task' \in [n : 0..MaxStarts, target : Targets, accepted : BOOLEAN] /\ owner \in 0..task'.n
    BY <1>0, <2>1
  <2> QED
    BY <1>0, <2>1, <2>2 DEF DeliveryTyped, ArchivesLinked, After, Recorded
<1>11. CASE AcceptNode7
  <2>1. /\ task' = [task EXCEPT !.accepted = TRUE]
        /\ UNCHANGED <<starting, delivery, archives, fresh, events, owner>>
    BY <1>11 DEF AcceptNode7
  <2>2. /\ task' \in [n : 0..MaxStarts, target : Targets, accepted : BOOLEAN]
        /\ task'.n = task.n
    BY <1>0, <2>1
  <2> QED
    BY <1>0, <2>1, <2>2 DEF DeliveryTyped, ArchivesLinked, After, Recorded
<1>12. CASE Event
  <2>1. /\ events' \in 0..MaxEvents /\ UNCHANGED <<archives, owner>>
    BY <1>0, <1>12 DEF Event
  <2>2. CASE Recorded /\ delivery' = Garbage /\ UNCHANGED <<task, starting, fresh>>
    BY <1>0, <2>1, <2>2 DEF DeliveryTyped, ArchivesLinked, After, Recorded
  <2>3. CASE /\ UNCHANGED delivery
             /\ starting' \in BOOLEAN /\ fresh' \in BOOLEAN
             /\ task' = task \/ task' = [task EXCEPT !.accepted = FALSE]
    <3>1. /\ task' \in [n : 0..MaxStarts, target : Targets, accepted : BOOLEAN]
          /\ task'.n = task.n
      BY <1>0, <2>3
    <3> QED
      BY <1>0, <2>1, <2>3, <3>1 DEF DeliveryTyped, ArchivesLinked, After, Recorded
  <2> QED
    BY <1>0, <1>12, <2>2, <2>3 DEF Event, Happens
<1>13. CASE UNCHANGED deliveryVars
  BY <1>13 DEF deliveryVars, DeliveryTyped, ArchivesLinked, After, Recorded
<1> QED
  BY <1>2, <1>3, <1>4, <1>5, <1>6, <1>7, <1>8, <1>9, <1>10, <1>11, <1>12, <1>13
  DEF DeliveryNext

\* The fields of a target tell it.
LEMMA TargetIs ==
  ASSUME NEW t \in Targets
  PROVE  /\ t = [env |-> t.env, requested |-> t.requested]
         /\ ~t.requested <=> t.env = "local"
<1>1. CASE t = [env |-> "local", requested |-> FALSE]
  BY <1>1
<1>2. CASE t = [env |-> "test", requested |-> TRUE]
  BY <1>2
<1>3. CASE t = [env |-> "production", requested |-> TRUE]
  BY <1>3
<1> QED
  BY <1>1, <1>2, <1>3 DEF Targets

\* The receipts a status wants, with those of a state of production.
LEMMA AttestedIs ==
  ASSUME NEW d \in States
  PROVE  Attested(d) <=>
         LET gates == IF d.env = "production" THEN Production ELSE {}
         IN  /\ d.status \in {"not_requested", "awaiting_artifact"} => d.has = {}
             /\ d.status = "awaiting_test" => d.has = {"artifact"}
             /\ d.status = "awaiting_provider_preflight" => d.has = {"artifact", "test"}
             /\ d.status = "awaiting_production_approval" =>
                   d.has = {"artifact", "test", "preflight"}
             /\ d.status = "ready_to_promote" => d.has = {"artifact", "test"} \cup gates
             /\ d.status = "promoted" =>
                   d.has = {"artifact", "test", "attempt", "promotion"} \cup gates
             /\ d.status = "rollback_required" =>
                   d.has = {"artifact", "test", "attempt"} \cup gates
             /\ d.status = "rolled_back" =>
                   d.has = {"artifact", "test", "attempt", "rollback"} \cup gates
                           \cup (IF d.passed THEN {"promotion"} ELSE {})
<1>1. d.status \in Statuses
  BY DEF States
<1> QED
  BY <1>1 DEF Attested, Wanted, Statuses

LEMMA CoherentStays ==
  ASSUME DeliveryInv, [DeliveryNext]_deliveryVars
  PROVE  PresentCoherent'
<1>0. DeliveryTyped /\ ArchivesLinked /\ PresentCoherent
  BY DEF DeliveryInv
<1>1. /\ task.target \in Targets /\ task.n \in Nat /\ owner \in 0..task.n
      /\ Recorded => delivery \in States
  BY <1>0, DeliveryAssumption DEF DeliveryTyped
<1>2. DeliveryTyped' /\ ArchivesLinked'
  BY <1>0, TypeStays
<1>3. Recorded' => delivery' \in States
  BY <1>2 DEF DeliveryTyped
<1> SUFFICES ASSUME Recorded', owner' = task'.n
             PROVE  Coherent(delivery)'
  BY DEF PresentCoherent
<1> DEFINE Kept == /\ Recorded /\ owner = task.n
                   /\ task'.target = task.target /\ task'.n = task.n
\* What is not a command leaves a coherent state coherent.
<1>4. ASSUME Kept, delivery' = delivery PROVE Coherent(delivery)'
  BY <1>0, <1>4 DEF PresentCoherent, Coherent
<1>5. CASE InitDelivery
  <2>1. /\ delivery' \in States
        /\ delivery'.env = task.target.env /\ delivery'.requested = task.target.requested
        /\ delivery'.status = IF task.target.requested THEN "awaiting_artifact" ELSE "not_requested"
        /\ delivery'.has = {} /\ ~delivery'.passed
    BY <1>0, <1>5, ResetStep DEF InitDelivery
  <2>2. task' = task
    BY <1>5 DEF InitDelivery
  <2>3. Attested(delivery')
    BY <2>1, AttestedIs
  <2>4. [env |-> delivery'.env, requested |-> delivery'.requested] = task'.target
    BY <1>1, <2>1, <2>2, TargetIs
  <2>5. task.target.requested \in BOOLEAN
    BY <1>1, TargetFields
  <2> QED
    BY <2>1, <2>2, <2>3, <2>4, <2>5 DEF Coherent
\* A command of the state adds receipts as its status moves on.
<1>6. ASSUME NEW from, NEW added, NEW to, Step(from, added, to)
      PROVE  /\ Kept /\ task' = task /\ delivery.status = from /\ Coherent(delivery)
             /\ delivery' \in States /\ delivery \in States
             /\ delivery'.status = to /\ delivery'.has = delivery.has \cup added
             /\ delivery'.env = delivery.env /\ delivery'.requested = delivery.requested
             /\ delivery'.passed = delivery.passed
             /\ delivery'.approvedIn = delivery.approvedIn
  <2>1. /\ Recorded /\ delivery.status = from
        /\ delivery' = [delivery EXCEPT !.has = @ \cup added, !.status = to]
        /\ task' = task /\ owner' = owner
    BY <1>6 DEF Step
  <2>2. Kept /\ Coherent(delivery)
    BY <1>0, <2>1 DEF PresentCoherent
  <2> QED
    BY <1>1, <1>3, <2>1, <2>2 DEF States
<1>7. CASE RecordArtifact
  <2> DEFINE from == "awaiting_artifact" to == "awaiting_test"
  <2>1. Step(from, {"artifact"}, to)
    BY <1>7 DEF RecordArtifact
  <2>2. Attested(delivery')
    BY <1>6, <2>1, AttestedIs DEF Coherent
  <2> QED
    BY <1>6, <2>1, <2>2, AttestedIs DEF Coherent
<1>8. CASE AcceptTest
  <2> DEFINE to == IF delivery.env = "production" THEN "awaiting_provider_preflight"
                   ELSE "ready_to_promote"
  <2>1. Step("awaiting_test", {"test"}, to)
    BY <1>8 DEF AcceptTest
  <2>2. Attested(delivery')
    BY <1>6, <2>1, AttestedIs DEF Coherent
  <2> QED
    BY <1>6, <2>1, <2>2, AttestedIs DEF Coherent
<1>9. CASE RecordPreflight
  <2>1. Step("awaiting_provider_preflight", {"preflight"}, "awaiting_production_approval")
    BY <1>9 DEF RecordPreflight
  <2>2. Attested(delivery')
    BY <1>6, <2>1, AttestedIs DEF Coherent
  <2> QED
    BY <1>6, <2>1, <2>2, AttestedIs DEF Coherent
<1>10. CASE Rollback
  <2>1. Step(delivery.status, {"rollback"}, "rolled_back")
        /\ delivery.status \in {"promoted", "rollback_required"}
    BY <1>10 DEF Rollback
  <2>2. Attested(delivery')
    BY <1>6, <2>1, AttestedIs DEF Coherent
  <2> QED
    BY <1>6, <2>1, <2>2, AttestedIs DEF Coherent
<1>11. CASE Approve
  <2>1. /\ Recorded /\ delivery.status = "awaiting_production_approval"
        /\ delivery' = [delivery EXCEPT !.has = @ \cup {"approval"},
                           !.status = "ready_to_promote", !.approvedIn = task.n]
        /\ task' = task /\ owner' = owner
    BY <1>11 DEF Approve
  <2>2. delivery \in States /\ delivery' \in States /\ Coherent(delivery)
    BY <1>0, <1>1, <1>3, <2>1 DEF PresentCoherent
  <2>3. /\ delivery'.status = "ready_to_promote"
        /\ delivery'.has = delivery.has \cup {"approval"} /\ delivery'.approvedIn = task.n
        /\ delivery'.env = delivery.env /\ delivery'.requested = delivery.requested
        /\ delivery'.passed = delivery.passed
    BY <2>1, <2>2 DEF States
  <2>4. Attested(delivery')
    <3>1. delivery.env = "production" /\ delivery.has = {"artifact", "test", "preflight"}
      BY <2>1, <2>2, AttestedIs DEF Coherent
    <3>2. delivery'.has = {"artifact", "test"} \cup Production
      BY <2>3, <3>1 DEF Production
    <3> QED
      BY <2>2, <2>3, <3>1, <3>2, AttestedIs
  <2> QED
    BY <2>1, <2>2, <2>3, <2>4, AttestedIs DEF Coherent
<1>12. ASSUME NEW passed \in BOOLEAN, Promote(passed) PROVE Coherent(delivery)'
  <2> DEFINE new == IF passed THEN {"attempt", "promotion"} ELSE {"attempt"}
             to == IF passed THEN "promoted" ELSE "rollback_required"
  <2>1. /\ Recorded /\ delivery.status = "ready_to_promote"
        /\ delivery' = [delivery EXCEPT !.has = @ \cup new, !.passed = passed, !.status = to]
        /\ task' = task /\ owner' = owner
    BY <1>12 DEF Promote
  <2>2. delivery \in States /\ delivery' \in States /\ Coherent(delivery)
    BY <1>0, <1>1, <1>3, <2>1 DEF PresentCoherent
  <2>3. /\ delivery'.status = to /\ delivery'.has = delivery.has \cup new
        /\ delivery'.passed = passed /\ delivery'.approvedIn = delivery.approvedIn
        /\ delivery'.env = delivery.env /\ delivery'.requested = delivery.requested
    BY <2>1, <2>2 DEF States
  <2>4. Attested(delivery')
    <3> DEFINE gates == IF delivery.env = "production" THEN Production ELSE {}
    <3>1. delivery.has = {"artifact", "test"} \cup gates
      BY <2>1, <2>2, AttestedIs DEF Coherent
    <3>2. delivery'.has = IF passed THEN {"artifact", "test", "attempt", "promotion"} \cup gates
                          ELSE {"artifact", "test", "attempt"} \cup gates
      <4> HIDE DEF gates
      <4> QED
        BY <2>3, <3>1
    <3> QED
      BY <1>12, <2>2, <2>3, <3>2, AttestedIs
  <2> QED
    BY <2>1, <2>2, <2>3, <2>4, AttestedIs DEF Coherent, Production
<1>13. CASE \E t \in Targets : BeginTask(t)
  BY <1>1, <1>13 DEF BeginTask
<1>14. CASE InitDies \/ UNCHANGED deliveryVars
  <2>1. Kept /\ delivery' = delivery
    BY <1>14 DEF InitDies, deliveryVars, Recorded
  <2> QED
    BY <1>4, <2>1
<1>15. CASE AcceptNode7
  <2>1. Kept /\ delivery' = delivery
    BY <1>1, <1>15 DEF AcceptNode7, Recorded
  <2> QED
    BY <1>4, <2>1
<1>16. CASE Event
  <2>1. owner' = owner
    BY <1>16 DEF Event
  <2>2. delivery' # Garbage
    BY DEF Recorded
  <2>3. delivery' = delivery /\ (task' = task \/ task' = [task EXCEPT !.accepted = FALSE])
    BY <1>16, <2>2 DEF Event, Happens
  <2>4. Kept
    BY <1>0, <2>1, <2>3 DEF Recorded, DeliveryTyped
  <2> QED
    BY <1>4, <2>3, <2>4
<1> QED
  BY <1>5, <1>7, <1>8, <1>9, <1>10, <1>11, <1>12, <1>13, <1>14, <1>15, <1>16 DEF DeliveryNext

LEMMA DeliveryBegins == DeliveryInit => DeliveryInv
<1> SUFFICES ASSUME DeliveryInit PROVE DeliveryInv
  OBVIOUS
<1>1. \E t \in Targets : t.env = "local"
  BY DEF Targets
<1>2. (CHOOSE t \in Targets : t.env = "local") \in Targets
  BY <1>1
<1>3. ~Recorded
  BY DEF DeliveryInit, Recorded
<1>4. archives \in Seq(States) /\ Len(archives) = 0
  BY DEF DeliveryInit
<1>5. DeliveryTyped
  <2>1. MaxEvents \in Nat /\ MaxResets \in Nat
    BY DeliveryAssumption
  <2>3. starting \in BOOLEAN /\ fresh \in BOOLEAN
    BY DEF DeliveryInit
  <2>4. events \in 0..MaxEvents /\ Len(archives) <= MaxResets
    BY <1>4, <2>1 DEF DeliveryInit
  <2>2. /\ task \in [n : 0..MaxStarts, target : Targets, accepted : BOOLEAN]
        /\ owner \in 0..task.n
    BY <1>2, DeliveryAssumption DEF DeliveryInit
  <2> QED
    BY <1>3, <1>4, <2>2, <2>3, <2>4 DEF DeliveryTyped
<1> QED
  BY <1>3, <1>4, <1>5 DEF DeliveryInv, ArchivesLinked, PresentCoherent

THEOREM DeliveryInvariance == DeliverySpec => []DeliveryInv
<1>1. DeliveryInit => DeliveryInv
  BY DeliveryBegins
<1>2. DeliveryInv /\ [DeliveryNext]_deliveryVars => DeliveryInv'
  BY TypeStays, CoherentStays DEF DeliveryInv
<1> QED
  BY <1>1, <1>2, PTL DEF DeliverySpec

\* A state that no more resets lie behind than the validator follows.
WithinLimit == delivery.epoch <= Limit + 1

LEMMA Validated == DeliveryInv /\ (Recorded => WithinLimit) => StatesValidate
<1> SUFFICES ASSUME DeliveryInv, Recorded => WithinLimit,
                    Recorded, owner = task.n,
                    Waiting /\ "preflight" \in delivery.has => fresh
             PROVE  Valid(delivery)
  BY DEF StatesValidate
<1>1. /\ DeliveryTyped /\ ArchivesLinked /\ Coherent(delivery) /\ delivery \in States
      /\ task.target \in Targets
  BY DEF DeliveryInv, PresentCoherent, DeliveryTyped
<1>2. ChainVerifies(delivery)
  BY <1>1, LinkedVerifies DEF WithinLimit
<1>3. task.target.env = delivery.env
  BY <1>1 DEF Coherent
<1>4. ASSUME "preflight" \in delivery.has
      PROVE  PreflightHolds(delivery.status \in
                               {"awaiting_production_approval", "ready_to_promote"})
  <2>1. delivery.env = "production"
    BY <1>1, <1>4, AttestedIs DEF Coherent, States, Statuses
  <2> QED
    BY <1>3, <1>4, <2>1 DEF PreflightHolds, Waiting
<1> QED
  BY <1>1, <1>2, <1>4 DEF Valid, Coherent

\* However often init starts over, whatever is spoilt, dies or is returned: a state fewer
\* resets deep than the validator follows is one it accepts.
THEOREM StatesStayValid == DeliverySpec => []((Recorded => WithinLimit) => StatesValidate)
<1>1. DeliveryInv => ((Recorded => WithinLimit) => StatesValidate)
  BY Validated
<1> QED
  BY <1>1, DeliveryInvariance, PTL

\* In particular, every state validates while no more than DELIVERY_CHAIN_LIMIT states
\* have been archived.
THEOREM FewResetsValidate ==
  ASSUME MaxResets <= Limit
  PROVE  DeliverySpec => []StatesValidate
<1>1. DeliveryInv => StatesValidate
  <2> SUFFICES ASSUME DeliveryInv, Recorded PROVE WithinLimit
    BY Validated
  <2>1. DeliveryTyped /\ ArchivesLinked /\ delivery \in States /\ Len(archives) <= MaxResets
    BY DEF DeliveryInv, DeliveryTyped
  <2>2. delivery.epoch <= Len(archives) + 1
    BY <2>1, LinkedVerifies
  <2>3. Len(archives) \in Nat /\ delivery.epoch \in Nat /\ {MaxResets, Limit} \subseteq Nat
    BY <2>1, DeliveryAssumption, LenProperties DEF States, DeliveryTyped
  <2> QED
    BY <2>1, <2>2, <2>3 DEF WithinLimit
<1> QED
  BY <1>1, DeliveryInvariance, PTL
=============================================================================
