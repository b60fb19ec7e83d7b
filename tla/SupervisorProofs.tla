-------------------------- MODULE SupervisorProofs --------------------------
(***************************************************************************)
(* Proofs about Supervisor for any set of jobs and watchers and any number *)
(* of failures: type correctness, failures that cost no other watcher, and *)
(* copies of a watcher that its siblings' failures have earned.            *)
(*                                                                         *)
(* Failures are counted by a sum over a set of watchers, a fold of the     *)
(* community modules.  The first part proves what it returns, by minimal   *)
(* counterexample over the subsets of a finite set.                        *)
(***************************************************************************)
EXTENDS Supervisor, FiniteSetTheorems, TLAPS

\* The sum of f over S, and the function on subsets it is defined by.
Sum(f, S) == MapThenSumSet(LAMBDA k : f[k], S)

AnyOf(s) == CHOOSE x \in s : TRUE
Others(s) == s \ {AnyOf(s)}

Sums(g, f, S) ==
  g = [s \in SUBSET S |-> IF s = {} THEN 0 ELSE f[AnyOf(s)] + g[Others(s)]]

\* A family of subsets of a finite set that is not empty has a member none
\* of whose strict subsets belongs to it.
LEMMA MinimalSubset ==
  ASSUME NEW S, IsFiniteSet(S), NEW B \in SUBSET (SUBSET S), B # {}
  PROVE  \E T \in B : \A U \in SUBSET T : U # T => U \notin B
<1>1. IsWellFoundedOn(StrictSubsetOrdering(S), SUBSET S)
  BY FS_StrictSubsetOrderingWellFounded, FS_FiniteSubsetsOfFinite
<1>2. PICK T \in B : \A U \in B : <<U, T>> \notin StrictSubsetOrdering(S)
  BY <1>1, WFMin
<1> QED
  BY <1>2 DEF StrictSubsetOrdering

\* AnyOf names an element.
LEMMA AnyOfIn == ASSUME NEW s, s # {} PROVE AnyOf(s) \in s /\ Others(s) \subseteq s /\ Others(s) # s
BY DEF AnyOf, Others

\* The function's value for one subset.
LEMMA SumsAt ==
  ASSUME NEW S, NEW f, NEW g, Sums(g, f, S), NEW s \in SUBSET S
  PROVE  g[s] = IF s = {} THEN 0 ELSE f[AnyOf(s)] + g[Others(s)]
BY DEF Sums

\* Two functions that sum f agree where both are defined.
LEMMA SumsAgree ==
  ASSUME NEW S, IsFiniteSet(S), NEW f, NEW T, NEW U, S \subseteq T, S \subseteq U,
         NEW g, NEW h, Sums(g, f, T), Sums(h, f, U)
  PROVE  \A s \in SUBSET S : g[s] = h[s]
<1> DEFINE B == {s \in SUBSET S : g[s] # h[s]}
<1> SUFFICES ASSUME B # {} PROVE FALSE
  OBVIOUS
<1>1. PICK s \in B : \A u \in SUBSET s : u # s => u \notin B
  <2>1. B \in SUBSET (SUBSET S) /\ B # {}
    OBVIOUS
  <2> HIDE DEF B
  <2> QED
    BY <2>1, MinimalSubset
<1>2. s \in SUBSET T /\ s \in SUBSET U
  OBVIOUS
<1>3. CASE s = {}
  BY <1>1, <1>2, <1>3 DEF Sums
<1>4. CASE s # {}
  <2>1. Others(s) \in SUBSET s /\ Others(s) # s /\ Others(s) \in SUBSET S
    BY <1>1, <1>4, AnyOfIn
  <2>2. g[Others(s)] = h[Others(s)]
    BY <1>1, <2>1
  <2>3. /\ g[s] = f[AnyOf(s)] + g[Others(s)]
        /\ h[s] = f[AnyOf(s)] + h[Others(s)]
    BY <1>2, <1>4, SumsAt
  <2>4. g[s] = h[s]
    BY <2>2, <2>3
  <2> QED
    BY <1>1, <2>4
<1> QED
  BY <1>3, <1>4

\* Every finite set has such a function.
LEMMA SumsExist == ASSUME NEW S, IsFiniteSet(S), NEW f PROVE \E g : Sums(g, f, S)
<1> DEFINE B == {T \in SUBSET S : ~ \E g : Sums(g, f, T)}
<1> SUFFICES ASSUME B # {} PROVE FALSE
  OBVIOUS
<1>1. PICK T \in B : \A U \in SUBSET T : U # T => U \notin B
  <2>1. B \in SUBSET (SUBSET S) /\ B # {}
    OBVIOUS
  <2> HIDE DEF B
  <2> QED
    BY <2>1, MinimalSubset
<1> DEFINE G(U) == CHOOSE g : Sums(g, f, U)
           h == [s \in SUBSET T |-> IF s = {} THEN 0
                                    ELSE f[AnyOf(s)] + G(Others(s))[Others(s)]]
<1>2. ASSUME NEW U \in SUBSET T, U # T PROVE Sums(G(U), f, U)
  <2>1. \E g : Sums(g, f, U)
    BY <1>1, <1>2
  <2> QED
    BY <2>1
<1> HIDE DEF G
<1>3. ASSUME NEW U \in SUBSET T, U # T PROVE h[U] = G(U)[U]
  <2>1. Sums(G(U), f, U)
    BY <1>2, <1>3
  <2>2. CASE U = {}
    BY <2>1, <2>2 DEF Sums
  <2>3. CASE U # {}
    <3>1. Others(U) \in SUBSET U /\ Others(U) \in SUBSET T /\ Others(U) # T
      BY <1>3, <2>3, AnyOfIn
    <3>2. Sums(G(Others(U)), f, Others(U))
      BY <1>2, <3>1
    <3>3. IsFiniteSet(Others(U))
      BY <3>1, FS_Subset
    <3>4. G(U)[Others(U)] = G(Others(U))[Others(U)]
      BY <2>1, <3>1, <3>2, <3>3, SumsAgree
    <3>5. G(U)[U] = f[AnyOf(U)] + G(U)[Others(U)]
      BY <2>1, <2>3 DEF Sums
    <3> QED
      BY <2>3, <3>4, <3>5
  <2> QED
    BY <2>2, <2>3
<1>4. Sums(h, f, T)
  <2>1. ASSUME NEW s \in SUBSET T, s # {} PROVE h[Others(s)] = G(Others(s))[Others(s)]
    <3>1. Others(s) \in SUBSET T /\ Others(s) # T
      BY <2>1, AnyOfIn
    <3> HIDE DEF h
    <3> QED
      BY <1>3, <3>1
  <2> QED
    BY <2>1 DEF Sums
<1> QED
  BY <1>1, <1>4

\* What the fold returns for the empty set and for any other.
LEMMA SumUnfold ==
  ASSUME NEW S, IsFiniteSet(S), NEW f
  PROVE  Sum(f, S) = IF S = {} THEN 0 ELSE f[AnyOf(S)] + Sum(f, Others(S))
<1> DEFINE G(U) == CHOOSE g : Sums(g, f, U)
<1>1. \A U : Sum(f, U) = G(U)[U]
  BY DEF Sum, MapThenSumSet, MapThenFoldSet, Sums, AnyOf, Others
<1>2. ASSUME NEW U, IsFiniteSet(U) PROVE Sums(G(U), f, U)
  BY <1>2, SumsExist
<1> HIDE DEF G
<1>3. CASE S = {}
  BY <1>1, <1>2, <1>3 DEF Sums
<1>4. CASE S # {}
  <2>1. Others(S) \in SUBSET S /\ IsFiniteSet(Others(S))
    BY <1>4, AnyOfIn, FS_Subset
  <2>2. G(S)[Others(S)] = G(Others(S))[Others(S)]
    BY <1>2, <2>1, SumsAgree
  <2>3. G(S)[S] = f[AnyOf(S)] + G(S)[Others(S)]
    BY <1>2, <1>4 DEF Sums
  <2> QED
    BY <1>1, <1>4, <2>2, <2>3
<1> QED
  BY <1>3, <1>4

\* A sum of natural numbers is one.
LEMMA SumNat ==
  ASSUME NEW S, IsFiniteSet(S), NEW f, \A k \in S : f[k] \in Nat
  PROVE  Sum(f, S) \in Nat
<1> DEFINE B == {T \in SUBSET S : Sum(f, T) \notin Nat}
<1> SUFFICES ASSUME B # {} PROVE FALSE
  OBVIOUS
<1>1. PICK T \in B : \A U \in SUBSET T : U # T => U \notin B
  <2>1. B \in SUBSET (SUBSET S) /\ B # {}
    OBVIOUS
  <2> HIDE DEF B
  <2> QED
    BY <2>1, MinimalSubset
<1>2. IsFiniteSet(T)
  BY FS_Subset
<1>3. T # {} => AnyOf(T) \in T /\ Others(T) \in SUBSET T /\ Others(T) # T
  BY AnyOfIn
<1>4. T # {} => Sum(f, Others(T)) \in Nat
  BY <1>1, <1>3
<1>5. T # {} => f[AnyOf(T)] \in Nat
  BY <1>3
<1> QED
  BY <1>1, <1>2, <1>4, <1>5, SumUnfold

\* One more at k is one more in the sum over a set with k.
LEMMA SumBump ==
  ASSUME NEW S, IsFiniteSet(S), NEW f, NEW g, NEW k, \A x \in S : f[x] \in Nat,
         \A x \in S : g[x] = IF x = k THEN f[x] + 1 ELSE f[x]
  PROVE  Sum(g, S) = IF k \in S THEN Sum(f, S) + 1 ELSE Sum(f, S)
<1> DEFINE Bumped(T) == Sum(g, T) = IF k \in T THEN Sum(f, T) + 1 ELSE Sum(f, T)
           B == {T \in SUBSET S : ~ Bumped(T)}
<1> SUFFICES ASSUME B # {} PROVE FALSE
  OBVIOUS
<1>1. PICK T \in B : \A U \in SUBSET T : U # T => U \notin B
  <2>1. B \in SUBSET (SUBSET S) /\ B # {}
    OBVIOUS
  <2> HIDE DEF B
  <2> QED
    BY <2>1, MinimalSubset
<1>2. IsFiniteSet(T)
  BY FS_Subset
<1>3. CASE T = {}
  BY <1>1, <1>2, <1>3, SumUnfold
<1>4. CASE T # {}
  <2>1. AnyOf(T) \in T /\ Others(T) \in SUBSET T /\ Others(T) # T /\ Others(T) \in SUBSET S
    BY <1>4, AnyOfIn
  <2>2. Bumped(Others(T))
    BY <1>1, <2>1
  <2>3. /\ Sum(g, T) = g[AnyOf(T)] + Sum(g, Others(T))
        /\ Sum(f, T) = f[AnyOf(T)] + Sum(f, Others(T))
    BY <1>2, <1>4, SumUnfold
  <2>4. Sum(f, Others(T)) \in Nat /\ f[AnyOf(T)] \in Nat
    <3>1. IsFiniteSet(Others(T)) /\ \A x \in Others(T) : f[x] \in Nat
      BY <2>1, FS_Subset
    <3> QED
      BY <2>1, <3>1, SumNat
  <2>5. k \in T <=> k = AnyOf(T) \/ k \in Others(T)
    BY <2>1 DEF Others
  <2>6. k = AnyOf(T) => k \notin Others(T)
    BY DEF Others
  <2>7. Bumped(T)
    BY <2>1, <2>2, <2>3, <2>4, <2>5, <2>6
  <2> QED
    BY <1>1, <2>7
<1> QED
  BY <1>3, <1>4
-----------------------------------------------------------------------------
\* How many tasks earlier runs may have left of a watcher.  A job that gathers
\* leaves one for each failure of a sibling; the others leave one when they
\* are stopped, and run it no more.
LeakInv ==
  \A j \in Jobs : \A k \in Kids[j] :
    /\ j \in Gathering => leaked[k] <= FailsOf(Kids[j] \ {k})
    /\ j \notin Gathering /\ phase[j] # "stopped" => leaked[k] = 0
    /\ j \notin Gathering /\ phase[j] = "stopped" => leaked[k] <= 1 /\ k \notin attached

IInv == TypeOK /\ FailureIsolated /\ LeakInv

\* Failures are counted by the sum of which the first part speaks.
LEMMA FailsOfIsSum == ASSUME NEW S PROVE FailsOf(S) = Sum(fails, S)
BY DEF FailsOf, Sum, MapThenSumSet, MapThenFoldSet

\* The same after a step.
LEMMA FailsOfIsSumNext == ASSUME NEW S PROVE FailsOf(S)' = Sum(fails', S)
BY DEF FailsOf, Sum, MapThenSumSet, MapThenFoldSet

\* The siblings of a watcher are finitely many, and no watcher is of two jobs.
LEMMA KidsOf ==
  ASSUME NEW j \in Jobs, NEW k \in Kids[j]
  PROVE  /\ k \in AllKids /\ Kids[j] \subseteq AllKids
         /\ IsFiniteSet(Kids[j] \ {k}) /\ Kids[j] \ {k} \subseteq AllKids
         /\ \A i \in Jobs \ {j} : k \notin Kids[i]
<1>1. Kids[j] \in SUBSET AllKids /\ IsFiniteSet(AllKids)
  BY SupervisorAssumption DEF SupervisorAssumption, AllKids
<1>2. IsFiniteSet(Kids[j] \ {k})
  BY <1>1, FS_Subset, FS_Difference
<1> QED
  BY <1>1, <1>2, SupervisorAssumption DEF SupervisorAssumption

\* Failures are counted by numbers.
LEMMA FailsNat ==
  ASSUME TypeOK, NEW j \in Jobs, NEW k \in Kids[j]
  PROVE  FailsOf(Kids[j] \ {k}) \in Nat
BY KidsOf, FailsOfIsSum, SumNat DEF TypeOK

\* A failure counts for its siblings.
LEMMA FailureCounts ==
  ASSUME TypeOK, NEW f \in AllKids, fails' = [fails EXCEPT ![f] = @ + 1],
         NEW j \in Jobs, NEW k \in Kids[j]
  PROVE  (Sum(fails', Kids[j] \ {k})) =
           IF f \in Kids[j] \ {k} THEN Sum(fails, Kids[j] \ {k}) + 1
           ELSE Sum(fails, Kids[j] \ {k})
<1>1. IsFiniteSet(Kids[j] \ {k}) /\ Kids[j] \ {k} \subseteq AllKids
  BY KidsOf
<1>2. /\ \A x \in Kids[j] \ {k} : fails[x] \in Nat
      /\ \A x \in Kids[j] \ {k} : fails'[x] = IF x = f THEN fails[x] + 1 ELSE fails[x]
  BY <1>1 DEF TypeOK
<1> DEFINE S == Kids[j] \ {k}
           n == fails'
<1> HIDE DEF S, n
<1>3. /\ IsFiniteSet(S) /\ \A x \in S : fails[x] \in Nat
      /\ \A x \in S : n[x] = IF x = f THEN fails[x] + 1 ELSE fails[x]
  BY <1>1, <1>2 DEF S, n
<1>4. Sum(n, S) = IF f \in S THEN Sum(fails, S) + 1 ELSE Sum(fails, S)
  BY <1>3, SumBump
<1> QED
  BY <1>4 DEF S, n

\* Nothing has run and nothing has failed.
THEOREM InitIInv == Init => IInv
<1> SUFFICES ASSUME Init PROVE IInv
  OBVIOUS
<1> USE SupervisorAssumption DEF SupervisorAssumption, Init
<1>1. TypeOK
  BY DEF TypeOK
<1>2. FailureIsolated
  BY DEF FailureIsolated
<1>3. LeakInv
  BY <1>1, FailsNat, KidsOf DEF LeakInv
<1> QED
  BY <1>1, <1>2, <1>3 DEF IInv

\* What Leak returns.
LEMMA LeakIs ==
  ASSUME TypeOK, NEW S
  PROVE  /\ Leak(S) \in [AllKids -> Nat]
         /\ \A k \in AllKids : k \in S => Leak(S)[k] = leaked[k] + 1
         /\ \A k \in AllKids : k \notin S => Leak(S)[k] = leaked[k]
<1>1. \A k \in AllKids : leaked[k] \in Nat
  BY DEF TypeOK
<1>2. \A k \in AllKids : leaked[k] + (IF k \in S THEN 1 ELSE 0) \in Nat
  BY <1>1
<1> QED
  BY <1>1, <1>2 DEF Leak

\* Type correctness, one action after another.
LEMMA TypeStep == ASSUME TypeOK, [Next]_vars PROVE TypeOK'
<1> USE SupervisorAssumption DEF SupervisorAssumption, TypeOK, tasks, history
<1>k. \A j \in Jobs : Kids[j] \subseteq AllKids
  BY DEF AllKids
<1>1. ASSUME NEW j \in Jobs, Start(j) PROVE TypeOK'
  BY <1>1, <1>k DEF Start
<1>2. ASSUME NEW j \in Jobs, ExitClean(j) PROVE TypeOK'
  BY <1>2 DEF ExitClean
<1>3. ASSUME NEW j \in Jobs, FailEarly(j) PROVE TypeOK'
  BY <1>3 DEF FailEarly
<1>4. ASSUME NEW j \in Jobs, Fill(j) PROVE TypeOK'
  BY <1>4 DEF Fill
<1>5. ASSUME NEW j \in Jobs, Wake(j) PROVE TypeOK'
  <2>1. delay[j] \in 0..MaxDelay
    OBVIOUS
  <2>2. (IF delay[j] < MaxDelay THEN delay[j] + 1 ELSE delay[j]) \in 0..MaxDelay
    BY <2>1
  <2>3. /\ phase' = [phase EXCEPT ![j] = "start"]
        /\ delay' = [delay EXCEPT ![j] = IF delay[j] < MaxDelay THEN delay[j] + 1 ELSE delay[j]]
        /\ UNCHANGED <<stop, empty, tasks, history>>
    BY <1>5 DEF Wake
  <2> QED
    BY <2>2, <2>3
<1>6. ASSUME NEW j \in Jobs, Unwind(j) PROVE TypeOK'
  <2>1. /\ stop' = stop /\ delay' = delay /\ empty' = empty /\ history' = history
        /\ phase' = [phase EXCEPT ![j] = "stopped"] /\ attached' = attached \ Kids[j]
        /\ leaked' = leaked \/ leaked' = Leak(Kids[j] \cap attached)
    BY <1>6 DEF Unwind
  <2>2. leaked' \in [AllKids -> Nat]
    BY <2>1, LeakIs
  <2> QED
    BY <2>1, <2>2
<1>7. ASSUME NEW j \in Jobs, NEW k \in AllKids, GatheredFails(j, k) PROVE TypeOK'
  <2>1. leaked' \in [AllKids -> Nat]
    BY <1>7, LeakIs DEF GatheredFails
  <2>2. /\ fails' = [fails EXCEPT ![k] = @ + 1] /\ attached' = attached \ Kids[j]
        /\ phase' = [phase EXCEPT ![j] = "backoff"]
        /\ UNCHANGED <<stop, delay, empty, begun, early>>
    BY <1>7 DEF GatheredFails
  <2> QED
    BY <2>1, <2>2
<1>8. ASSUME NEW j \in Jobs, NEW k \in AllKids, TailFails(j, k) PROVE TypeOK'
  BY <1>8 DEF TailFails
<1>9. ASSUME NEW k \in AllKids, LeakedFails(k) PROVE TypeOK'
  BY <1>9 DEF LeakedFails
<1>10. CASE Signal \/ ShutDown \/ LoopCloses
  BY <1>10 DEF Signal, ShutDown, LoopCloses
<1>11. CASE UNCHANGED vars
  BY <1>11 DEF vars
<1> QED
  BY <1>1, <1>2, <1>3, <1>4, <1>5, <1>6, <1>7, <1>8, <1>9, <1>10, <1>11 DEF Next, Begin

\* A watcher that has not failed is not lost: the task of one whose sibling
\* fails goes on as a leaked one.
LEMMA IsolatedStep == ASSUME TypeOK, FailureIsolated, [Next]_vars PROVE FailureIsolated'
<1> SUFFICES ASSUME stop' = "no", NEW j \in begun', NEW k \in Kids[j], fails'[k] = 0
             PROVE  Copies(k)' >= 1
  BY DEF FailureIsolated
<1>0. j \in Jobs
  BY TypeStep DEF TypeOK
<1>a. k \in AllKids /\ \A i \in Jobs : i # j => k \notin Kids[i]
  BY <1>0, KidsOf
<1>b. leaked[k] \in Nat /\ fails[k] \in Nat /\ leaked'[k] \in Nat
  BY <1>a, TypeStep DEF TypeOK
<1>c. leaked'[k] >= leaked[k] /\ (k \in attached => k \in attached' \/ leaked'[k] >= 1)
      /\ fails[k] = 0 /\ stop = "no" /\ (j \in begun \/ k \in attached')
  <2>1. ASSUME NEW i \in Jobs, Begin(i) PROVE <1>c!:
    BY <2>1, <1>0, <1>a, <1>b DEF Begin, Start, ExitClean, FailEarly, tasks, history
  <2>2. ASSUME NEW i \in Jobs, Fill(i) \/ Wake(i) \/ Unwind(i) PROVE <1>c!:
    BY <2>2, <1>b DEF Fill, Wake, Unwind, tasks, history
  <2>3. ASSUME NEW i \in Jobs, NEW f \in AllKids, GatheredFails(i, f) PROVE <1>c!:
    <3>1. k # f /\ fails[k] = 0
      BY <2>3, <1>a, <1>b DEF GatheredFails, TypeOK
    <3>2. /\ attached' = attached \ Kids[i] /\ leaked' = Leak((Kids[i] \cap attached) \ {f})
          /\ begun' = begun /\ stop' = stop
      BY <2>3 DEF GatheredFails
    <3>3. CASE k \in (Kids[i] \cap attached) \ {f}
      <4>1. leaked'[k] = leaked[k] + 1
        BY <1>a, <3>2, <3>3, LeakIs
      <4> QED
        BY <1>b, <3>1, <3>2, <4>1
    <3>4. CASE k \notin (Kids[i] \cap attached) \ {f}
      <4>1. leaked'[k] = leaked[k]
        BY <1>a, <3>2, <3>4, LeakIs
      <4> QED
        BY <1>b, <3>1, <3>2, <3>4, <4>1
    <3> QED
      BY <3>3, <3>4
  <2>4. ASSUME NEW i \in Jobs, NEW f \in AllKids, TailFails(i, f) PROVE <1>c!:
    <3>1. k # f /\ fails[k] = 0
      BY <2>4, <1>a, <1>b DEF TailFails, TypeOK
    <3> QED
      BY <2>4, <1>b, <3>1 DEF TailFails
  <2>5. ASSUME NEW f \in AllKids, LeakedFails(f) PROVE <1>c!:
    <3>1. k # f /\ fails[k] = 0
      BY <2>5, <1>a, <1>b DEF LeakedFails, TypeOK
    <3>2. leaked'[k] = leaked[k]
      BY <2>5, <1>a, <3>1 DEF LeakedFails, TypeOK
    <3> QED
      BY <2>5, <1>b, <3>1, <3>2 DEF LeakedFails
  <2>6. CASE Signal \/ ShutDown \/ LoopCloses
    BY <2>6 DEF Signal, ShutDown, LoopCloses
  <2>7. CASE UNCHANGED vars
    BY <2>7, <1>b DEF vars, tasks, history
  <2> QED
    BY <2>1, <2>2, <2>3, <2>4, <2>5, <2>6, <2>7 DEF Next
<1>d. j \in begun => leaked[k] >= 1 \/ k \in attached
  BY <1>b, <1>c DEF FailureIsolated, Copies
<1>e. leaked'[k] >= 1 \/ k \in attached'
  BY <1>b, <1>c, <1>d
<1> QED
  BY <1>b, <1>e DEF Copies

\* Every task an earlier run left is paid for by a sibling's failure.
LEMMA LeakStep == ASSUME TypeOK, LeakInv, [Next]_vars PROVE LeakInv'
<1> DEFINE Paid(j, k) ==
      /\ j \in Gathering => leaked[k] <= Sum(fails, Kids[j] \ {k})
      /\ (j \notin Gathering /\ phase[j] # "stopped") => leaked[k] = 0
      /\ (j \notin Gathering /\ phase[j] = "stopped") => leaked[k] <= 1 /\ k \notin attached
<1> SUFFICES ASSUME NEW j \in Jobs, NEW k \in Kids[j] PROVE Paid(j, k)'
  BY FailsOfIsSumNext DEF LeakInv
<1>a. k \in AllKids /\ \A i \in Jobs : i # j => k \notin Kids[i]
  BY KidsOf
<1>b. leaked[k] \in Nat /\ leaked'[k] \in Nat /\ Sum(fails, Kids[j] \ {k}) \in Nat
  BY <1>a, TypeStep, FailsNat, FailsOfIsSum DEF TypeOK
<1>c. Paid(j, k)
  BY FailsOfIsSum DEF LeakInv
<1>d. phase \in [Jobs -> {"start", "running", "backoff", "stopped"}]
  BY DEF TypeOK
<1>1. ASSUME NEW i \in Jobs, Start(i) PROVE Paid(j, k)'
  <2>1. /\ leaked' = leaked /\ fails' = fails /\ attached' = attached \cup Kids[i]
        /\ phase[i] = "start" /\ phase' = [phase EXCEPT ![i] = "running"]
    BY <1>1 DEF Start
  <2> QED
    BY <2>1, <1>a, <1>c, <1>d
<1>2. ASSUME NEW i \in Jobs, ExitClean(i) \/ FailEarly(i) \/ Fill(i) \/ Wake(i)
      PROVE  Paid(j, k)'
  <2>1. /\ leaked' = leaked /\ fails' = fails /\ attached' = attached
        /\ phase'[j] = phase[j] \/ (phase[j] # "stopped" /\ phase'[j] # "stopped")
    BY <1>2, <1>d DEF ExitClean, FailEarly, Fill, Wake, tasks, history
  <2> QED
    BY <2>1, <1>c
<1>3. ASSUME NEW i \in Jobs, Unwind(i) PROVE Paid(j, k)'
  <2>1. /\ phase[i] # "stopped" /\ phase' = [phase EXCEPT ![i] = "stopped"]
        /\ attached' = attached \ Kids[i] /\ fails' = fails
        /\ leaked' = IF i \in Gathering THEN leaked ELSE Leak(Kids[i] \cap attached)
    BY <1>3 DEF Unwind, history
  <2>2. CASE i = j
    <3>1. CASE j \in Gathering
      BY <2>1, <2>2, <3>1, <1>c
    <3>2. CASE j \notin Gathering
      <4>1. leaked[k] = 0 /\ leaked' = Leak(Kids[j] \cap attached)
        BY <2>1, <2>2, <3>2, <1>c
      <4>2. leaked'[k] <= 1
        BY <4>1, <1>a, <1>b, LeakIs
      <4>3. k \notin attached' /\ phase'[j] = "stopped"
        BY <2>1, <2>2, <1>d
      <4> QED
        BY <3>2, <4>2, <4>3
    <3> QED
      BY <3>1, <3>2
  <2>3. CASE i # j
    <3>1. leaked'[k] = leaked[k]
      <4>1. k \notin Kids[i] \cap attached
        BY <1>a, <2>3
      <4> QED
        BY <4>1, <1>a, <2>1, LeakIs
    <3>2. phase'[j] = phase[j] /\ (k \in attached' <=> k \in attached)
      BY <1>a, <1>d, <2>1, <2>3
    <3> QED
      BY <2>1, <3>1, <3>2, <1>c
  <2> QED
    BY <2>2, <2>3
<1>4. ASSUME NEW i \in Jobs, NEW f \in AllKids, GatheredFails(i, f) PROVE Paid(j, k)'
  <2>1. /\ fails' = [fails EXCEPT ![f] = @ + 1] /\ attached' = attached \ Kids[i]
        /\ i \in Gathering /\ f \in Kids[i] /\ phase' = [phase EXCEPT ![i] = "backoff"]
        /\ leaked' = Leak((Kids[i] \cap attached) \ {f})
    BY <1>4 DEF GatheredFails
  <2>2. Sum(fails', Kids[j] \ {k}) =
          IF f \in Kids[j] \ {k} THEN Sum(fails, Kids[j] \ {k}) + 1
          ELSE Sum(fails, Kids[j] \ {k})
    <3>1. fails' = [fails EXCEPT ![f] = @ + 1]
      BY <2>1
    <3> QED
      BY ONLY <3>1, TypeOK, f \in AllKids, j \in Jobs, k \in Kids[j], FailureCounts
  <2>3. CASE i = j /\ f # k
    <3>1. leaked'[k] <= leaked[k] + 1
      BY <1>a, <1>b, <2>1, LeakIs
    <3>2. Sum(fails', Kids[j] \ {k}) = Sum(fails, Kids[j] \ {k}) + 1
      BY <2>1, <2>2, <2>3
    <3>3. leaked[k] <= Sum(fails, Kids[j] \ {k})
      BY <1>c, <2>1, <2>3
    <3> QED
      BY <1>b, <2>1, <2>3, <3>1, <3>2, <3>3
  <2>4. CASE i # j \/ f = k
    <3>1. leaked'[k] = leaked[k]
      <4>1. k \notin (Kids[i] \cap attached) \ {f}
        BY <1>a, <2>4
      <4> QED
        BY <4>1, <1>a, <2>1, LeakIs
    <3>2. Sum(fails', Kids[j] \ {k}) >= Sum(fails, Kids[j] \ {k})
      BY <1>b, <2>2
    <3>3. CASE i = j
      <4>1. j \in Gathering /\ leaked[k] <= Sum(fails, Kids[j] \ {k})
        BY <1>c, <2>1, <3>3
      <4>2. Sum(fails', Kids[j] \ {k}) \in Nat
        BY <1>b, <2>2
      <4>3. leaked'[k] <= Sum(fails', Kids[j] \ {k})
        BY <1>b, <3>1, <3>2, <4>1, <4>2
      <4> QED
        BY <4>1, <4>3
    <3>4. CASE i # j
      <4>1. phase'[j] = phase[j] /\ (k \in attached' <=> k \in attached)
        BY <1>a, <1>d, <2>1, <3>4
      <4>2. j \in Gathering => leaked'[k] <= Sum(fails', Kids[j] \ {k})
        <5>1. Sum(fails', Kids[j] \ {k}) = Sum(fails, Kids[j] \ {k})
          BY <1>a, <2>1, <2>2, <3>4, KidsOf
        <5> QED
          BY <5>1, <3>1, <1>c
      <4> QED
        BY <4>1, <4>2, <3>1, <1>c
    <3> QED
      BY <3>3, <3>4
  <2> QED
    BY <2>3, <2>4
<1>5. ASSUME NEW i \in Jobs, NEW f \in AllKids, TailFails(i, f) PROVE Paid(j, k)'
  <2>1. /\ fails' = [fails EXCEPT ![f] = @ + 1] /\ attached' = attached \ {f}
        /\ leaked' = leaked /\ phase' = phase
    BY <1>5 DEF TailFails
  <2>2. Sum(fails', Kids[j] \ {k}) = Sum(fails, Kids[j] \ {k}) + 1
        \/ Sum(fails', Kids[j] \ {k}) = Sum(fails, Kids[j] \ {k})
    BY <2>1, FailureCounts
  <2>3. j \in Gathering => leaked[k] <= Sum(fails', Kids[j] \ {k})
    BY <1>b, <1>c, <2>2
  <2> QED
    BY <2>1, <2>3, <1>c
<1>6. ASSUME NEW f \in AllKids, LeakedFails(f) PROVE Paid(j, k)'
  <2>1. /\ fails' = [fails EXCEPT ![f] = @ + 1] /\ attached' = attached /\ phase' = phase
        /\ leaked[f] > 0 /\ leaked' = [leaked EXCEPT ![f] = @ - 1]
    BY <1>6 DEF LeakedFails
  <2>2. Sum(fails', Kids[j] \ {k}) = Sum(fails, Kids[j] \ {k}) + 1
        \/ Sum(fails', Kids[j] \ {k}) = Sum(fails, Kids[j] \ {k})
    BY <2>1, FailureCounts
  <2>3. leaked'[k] <= leaked[k] /\ (leaked[k] = 0 => leaked'[k] = 0)
    BY <1>a, <1>b, <2>1 DEF TypeOK
  <2>4. j \in Gathering => leaked'[k] <= Sum(fails', Kids[j] \ {k})
    BY <1>b, <1>c, <2>2, <2>3
  <2>5. leaked[k] <= 1 => leaked'[k] <= 1
    BY <1>b, <2>3
  <2> QED
    BY <2>1, <2>3, <2>4, <2>5, <1>c
<1>7. CASE Signal \/ ShutDown
  BY <1>7, <1>c DEF Signal, ShutDown, tasks, history
<1>8. CASE LoopCloses
  <2>1. /\ leaked'[k] = 0 /\ attached' = attached /\ fails' = fails /\ phase' = phase
    BY <1>8, <1>a DEF LoopCloses, history
  <2> QED
    BY <2>1, <1>b, <1>c
<1>9. CASE UNCHANGED vars
  BY <1>9, <1>c DEF vars, tasks, history
<1> HIDE DEF Paid
<1> QED
  BY <1>1, <1>2, <1>3, <1>4, <1>5, <1>6, <1>7, <1>8, <1>9 DEF Next, Begin

\* The inductive invariant is kept by every step.
LEMMA StepIInv == IInv /\ [Next]_vars => IInv'
BY TypeStep, IsolatedStep, LeakStep DEF IInv

\* The invariant holds in every behaviour.
THEOREM Invariance == Spec => []IInv
BY InitIInv, StepIInv, PTL DEF Spec

\* Every variable keeps its type.
THEOREM TypeCorrect == Spec => []TypeOK
BY Invariance, PTL DEF IInv

\* A watcher that has not failed runs until the stop, whatever its siblings
\* and its job went through.
THEOREM SiblingsSurvive == Spec => []FailureIsolated
BY Invariance, PTL DEF IInv

\* What was left of a watcher, and the one that runs.
LEMMA EarnedIfLeakInv == IInv => CopiesEarned
<1> SUFFICES ASSUME IInv, NEW j \in Jobs, NEW k \in Kids[j]
             PROVE  Copies(k) <= 1 + FailsOf(Kids[j] \ {k})
  BY DEF CopiesEarned
<1>1. FailsOf(Kids[j] \ {k}) \in Nat /\ k \in AllKids /\ leaked[k] \in Nat
  BY FailsNat, KidsOf DEF IInv, TypeOK
<1>2. CASE j \in Gathering
  <2>1. leaked[k] <= FailsOf(Kids[j] \ {k})
    BY <1>2 DEF IInv, LeakInv
  <2> QED
    BY <1>1, <2>1 DEF Copies
<1>3. CASE j \notin Gathering
  <2>1. leaked[k] = 0 \/ (leaked[k] <= 1 /\ k \notin attached)
    BY <1>3 DEF IInv, LeakInv
  <2> QED
    BY <1>1, <2>1 DEF Copies
<1> QED
  BY <1>2, <1>3

\* Each task of a watcher beyond the first is paid for by one failure of a
\* sibling.
THEOREM CopiesAreEarned == Spec => []CopiesEarned
BY Invariance, EarnedIfLeakInv, PTL
=============================================================================
