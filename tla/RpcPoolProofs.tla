--------------------------- MODULE RpcPoolProofs ----------------------------
(***************************************************************************)
(* Proofs about RpcPool for any number of endpoints and any finite set of  *)
(* tasks: the load counters are exact and an endpoint leaves the rotation  *)
(* only after two failed posts.                                            *)
(***************************************************************************)
EXTENDS RpcPool, FiniteSetTheorems, TLAPS

\* One failed post adds at most two to the streak.
StreakEarned ==
  \A e \in Eps : /\ failed[e] = 0 => streak[e] = 0
                 /\ failed[e] = 1 => streak[e] <= 2

IInv == TypeOK /\ InFlightExact /\ StreakEarned /\ UnhealthyEarned

\* The tasks other than t that wait for an answer of e.
Others(t, e) == {u \in Tasks \ {t} : pc[u] # "idle" /\ ep[u] = e}
-----------------------------------------------------------------------------
\* Init: nothing is posted and nothing has failed.
LEMMA InitIInv == Init => IInv
<1> SUFFICES ASSUME Init PROVE IInv
  OBVIOUS
<1> USE PoolAssumption DEF PoolAssumption, Eps, Attempts, Strikes
<1>1. TypeOK
  BY DEF Init, TypeOK
<1>2. InFlightExact
  <2>1. \A e \in Eps : Posting(e) = {}
    BY DEF Init, Posting
  <2> QED
    BY <2>1, FS_EmptySet DEF Init, InFlightExact
<1>3. StreakEarned /\ UnhealthyEarned
  BY DEF Init, StreakEarned, UnhealthyEarned
<1> QED
  BY <1>1, <1>2, <1>3 DEF IInv

\* A post keeps the rotation and the tasks in their types.
LEMMA PostType ==
  ASSUME TypeOK, NEW t \in Tasks, NEW h \in SUBSET Eps, NEW f \in [Eps -> Nat],
         Post(t, h, f)
  PROVE  /\ healthy' \subseteq Eps /\ cursor' \in Eps
         /\ inFlight' \in [Eps -> Nat] /\ ep' \in [Tasks -> Eps]
<1>1. PICK e \in Eps :
        /\ healthy' = h \cup {e}
        /\ cursor' = IF h = {} THEN cursor ELSE IF e = N THEN 1 ELSE e + 1
        /\ inFlight' = [f EXCEPT ![e] = @ + 1]
        /\ ep' = [ep EXCEPT ![t] = e]
  BY DEF Post
<1>2. cursor' \in Eps
  BY <1>1, PoolAssumption DEF PoolAssumption, TypeOK, Eps
<1>3. inFlight' \in [Eps -> Nat] /\ ep' \in [Tasks -> Eps]
  BY <1>1 DEF TypeOK
<1> QED
  BY <1>1, <1>2, <1>3

\* Without the post t waits for, the counters still count the others.
LEMMA WithoutMine ==
  ASSUME TypeOK, InFlightExact, NEW t \in Tasks
  PROVE  /\ pc[t] = "idle" =>
              \A e \in Eps : inFlight[e] = Cardinality(Others(t, e))
         /\ pc[t] # "idle" =>
              /\ \A e \in Eps : Unloaded(t)[e] = Cardinality(Others(t, e))
              /\ Unloaded(t) \in [Eps -> Nat]
<1>1. CASE pc[t] = "idle"
  <2>1. \A e \in Eps : Posting(e) = Others(t, e)
    BY <1>1 DEF Posting, Others
  <2> QED
    BY <1>1, <2>1 DEF InFlightExact
<1>2. CASE pc[t] # "idle"
  <2>1. ep[t] \in Eps
    BY DEF TypeOK
  <2>2. \A e \in Eps : Others(t, e) = Posting(e) \ {t}
    BY <1>2 DEF Posting, Others
  <2>3. \A e \in Eps : t \in Posting(e) <=> e = ep[t]
    BY <1>2 DEF Posting
  <2>4. \A e \in Eps : IsFiniteSet(Posting(e)) /\ IsFiniteSet(Others(t, e))
    BY FS_Subset, PoolAssumption DEF PoolAssumption, Posting, Others
  <2>5. \A e \in Eps : Cardinality(Others(t, e)) =
                         IF e = ep[t] THEN Cardinality(Posting(e)) - 1
                         ELSE Cardinality(Posting(e))
    BY <2>2, <2>3, <2>4, FS_RemoveElement
  <2>6. \A e \in Eps : Cardinality(Others(t, e)) \in Nat
    BY <2>4, FS_CardinalityType
  <2>7. \A e \in Eps : Unloaded(t)[e] = Cardinality(Others(t, e))
    BY <2>1, <2>5 DEF Unloaded, InFlightExact, TypeOK
  <2>8. Unloaded(t) = [e \in Eps |-> Unloaded(t)[e]]
    BY DEF Unloaded, TypeOK
  <2>9. Unloaded(t) \in [Eps -> Nat]
    BY <2>6, <2>7, <2>8
  <2> QED
    BY <1>2, <2>7, <2>9
<1> QED
  BY <1>1, <1>2

\* A post by t on counters that count the others makes them exact.
LEMMA PostCounts ==
  ASSUME TypeOK, NEW t \in Tasks, NEW h, NEW f \in [Eps -> Nat],
         \A e \in Eps : f[e] = Cardinality(Others(t, e)),
         Post(t, h, f), pc'[t] # "idle",
         \A u \in Tasks \ {t} : pc'[u] = pc[u]
  PROVE  InFlightExact'
<1>1. PICK e \in Eps : /\ inFlight' = [f EXCEPT ![e] = @ + 1]
                       /\ ep' = [ep EXCEPT ![t] = e]
  BY DEF Post
<1>2. ep'[t] = e /\ \A u \in Tasks \ {t} : ep'[u] = ep[u]
  BY <1>1 DEF TypeOK
<1>3. \A d \in Eps : Posting(d)' = IF d = e THEN Others(t, d) \cup {t} ELSE Others(t, d)
  BY <1>2 DEF Posting, Others
<1>4. \A d \in Eps : IsFiniteSet(Others(t, d)) /\ t \notin Others(t, d)
  BY FS_Subset, PoolAssumption DEF PoolAssumption, Others
<1>5. \A d \in Eps : Cardinality(Posting(d)') =
                       IF d = e THEN Cardinality(Others(t, d)) + 1
                       ELSE Cardinality(Others(t, d))
  BY <1>3, <1>4, FS_AddElement
<1>6. \A d \in Eps : inFlight'[d] = IF d = e THEN f[d] + 1 ELSE f[d]
  BY <1>1
<1> QED
  BY <1>5, <1>6 DEF InFlightExact

\* When t goes idle the counters of the others are exact.
LEMMA IdleCounts ==
  ASSUME TypeOK, InFlightExact, NEW t \in Tasks, pc[t] # "idle",
         inFlight' = Unloaded(t), ep' = ep,
         pc' = [pc EXCEPT ![t] = "idle"]
  PROVE  InFlightExact'
<1>1. \A e \in Eps : Posting(e)' = Others(t, e)
  BY DEF Posting, Others, TypeOK
<1> QED
  BY <1>1, WithoutMine DEF InFlightExact

\* A failed post is counted once or twice, and endangers its endpoint only
\* when another had failed before.
LEMMA StrikeEarns ==
  ASSUME TypeOK, StreakEarned, UnhealthyEarned, NEW t \in Tasks,
         NEW n \in {1, 2}, Strike(t, n), HealthyAfter(t, n) \subseteq healthy'
  PROVE  /\ streak' \in [Eps -> 0..Strikes] /\ failed' \in [Eps -> 0..2]
         /\ StreakEarned' /\ UnhealthyEarned'
         /\ HealthyAfter(t, n) \in SUBSET Eps
<1> USE DEF Strikes
<1>1. ep[t] \in Eps
  BY DEF TypeOK
<1>2. \A e \in Eps : /\ streak[e] \in 0..3 /\ failed[e] \in 0..2
                     /\ streak'[e] = IF e = ep[t] THEN UpTo(3, streak[e] + n) ELSE streak[e]
                     /\ failed'[e] = IF e = ep[t] THEN UpTo(2, failed[e] + 1) ELSE failed[e]
  BY <1>1 DEF Strike, TypeOK
<1>3. streak' \in [Eps -> 0..Strikes] /\ failed' \in [Eps -> 0..2]
  BY <1>1 DEF Strike, UpTo, TypeOK
<1>4. StreakEarned'
  BY <1>2 DEF StreakEarned, UpTo
<1>5. UnhealthyEarned'
  <2> SUFFICES ASSUME NEW e \in Eps, e \notin healthy' PROVE failed'[e] = 2
    BY DEF UnhealthyEarned
  <2>1. CASE e \notin healthy
    BY <2>1, <1>2 DEF UnhealthyEarned, UpTo
  <2>2. CASE e \in healthy
    <3>1. e = ep[t] /\ streak[e] + n >= 3
      BY <2>2 DEF HealthyAfter
    <3>2. failed[e] \in {1, 2}
      BY <3>1, <1>2 DEF StreakEarned
    <3> QED
      BY <3>1, <3>2, <1>2 DEF UpTo
  <2> QED
    BY <2>1, <2>2
<1>6. HealthyAfter(t, n) \in SUBSET Eps
  BY DEF HealthyAfter, TypeOK
<1> QED
  BY <1>3, <1>4, <1>5, <1>6
-----------------------------------------------------------------------------
\* call() and batch() start with a post of their task.
LEMMA StartStep ==
  ASSUME IInv, NEW t \in Tasks, Call(t) \/ Batch(t)
  PROVE  IInv'
<1>1. /\ pc[t] = "idle" /\ Post(t, healthy, inFlight)
      /\ UNCHANGED <<streak, failed>>
  BY DEF Call, Batch
<1>2. TypeOK
  BY DEF IInv
<1>3. /\ pc' \in [Tasks -> {"idle", "call", "batch"}] /\ pc'[t] # "idle"
      /\ \A u \in Tasks \ {t} : pc'[u] = pc[u]
      /\ tries' \in [Tasks -> 0..Attempts]
  BY <1>2, PoolAssumption DEF PoolAssumption, Call, Batch, TypeOK, Attempts
<1>4. healthy \in SUBSET Eps /\ inFlight \in [Eps -> Nat]
  BY <1>2 DEF TypeOK
<1>5. TypeOK'
  BY <1>1, <1>2, <1>3, <1>4, PostType DEF TypeOK
<1>6. InFlightExact'
  <2>1. \A e \in Eps : inFlight[e] = Cardinality(Others(t, e))
    BY <1>1, <1>2, WithoutMine DEF IInv
  <2> QED
    BY <1>1, <1>2, <1>3, <1>4, <2>1, PostCounts
<1>7. healthy \subseteq healthy'
  BY <1>1 DEF Post
<1>8. StreakEarned' /\ UnhealthyEarned'
  BY <1>1, <1>7 DEF IInv, StreakEarned, UnhealthyEarned
<1> QED
  BY <1>5, <1>6, <1>8 DEF IInv

\* A good answer clears the endpoint's record.
LEMMA AnsweredStep ==
  ASSUME IInv, NEW t \in Tasks, Answered(t)
  PROVE  IInv'
<1>1. TypeOK /\ ep[t] \in Eps
  BY DEF IInv, TypeOK
<1>2. Unloaded(t) \in [Eps -> Nat]
  BY <1>1, WithoutMine DEF IInv, Answered
<1>3. TypeOK'
  BY <1>1, <1>2 DEF Answered, TypeOK, Strikes
<1>4. InFlightExact'
  BY <1>1, IdleCounts DEF IInv, Answered
<1>5. StreakEarned' /\ UnhealthyEarned'
  BY <1>1 DEF IInv, Answered, StreakEarned, UnhealthyEarned, TypeOK
<1> QED
  BY <1>3, <1>4, <1>5 DEF IInv

\* A failed post with attempts left: record, pick and post in one step.
LEMMA RetryStep ==
  ASSUME IInv, NEW t \in Tasks, NEW n \in {1, 2}, Retry(t, n)
  PROVE  IInv'
<1>1. TypeOK /\ pc[t] = "call" /\ tries[t] < Attempts
  BY DEF IInv, Retry
<1>2. /\ Unloaded(t) \in [Eps -> Nat]
      /\ \A e \in Eps : Unloaded(t)[e] = Cardinality(Others(t, e))
  BY <1>1, WithoutMine DEF IInv
<1>3. /\ Strike(t, n) /\ Post(t, HealthyAfter(t, n), Unloaded(t)) /\ pc' = pc
      /\ tries' = [tries EXCEPT ![t] = @ + 1]
  BY DEF Retry
<1>4. HealthyAfter(t, n) \subseteq healthy'
  BY <1>3 DEF Post
<1>5. /\ streak' \in [Eps -> 0..Strikes] /\ failed' \in [Eps -> 0..2]
      /\ StreakEarned' /\ UnhealthyEarned'
      /\ HealthyAfter(t, n) \in SUBSET Eps
  BY <1>1, <1>3, <1>4, StrikeEarns DEF IInv
<1>6. TypeOK'
  <2>1. tries' \in [Tasks -> 0..Attempts]
    BY <1>1, <1>3, PoolAssumption DEF PoolAssumption, TypeOK, Attempts
  <2>2. /\ healthy' \subseteq Eps /\ cursor' \in Eps
        /\ inFlight' \in [Eps -> Nat] /\ ep' \in [Tasks -> Eps]
    BY <1>1, <1>2, <1>3, <1>5, PostType
  <2> QED
    BY <1>1, <1>3, <1>5, <2>1, <2>2 DEF TypeOK
<1>7. InFlightExact'
  BY <1>1, <1>2, <1>3, PostCounts
<1> QED
  BY <1>5, <1>6, <1>7 DEF IInv

\* The last failed post: record and raise.
LEMMA GiveUpStep ==
  ASSUME IInv, NEW t \in Tasks, NEW n \in {1, 2}, GiveUp(t, n)
  PROVE  IInv'
<1>1. TypeOK /\ pc[t] = "call"
  BY DEF IInv, GiveUp
<1>2. Unloaded(t) \in [Eps -> Nat]
  BY <1>1, WithoutMine DEF IInv
<1>3. /\ streak' \in [Eps -> 0..Strikes] /\ failed' \in [Eps -> 0..2]
      /\ StreakEarned' /\ UnhealthyEarned' /\ healthy' \in SUBSET Eps
  BY <1>1, StrikeEarns DEF IInv, GiveUp
<1>4. TypeOK'
  BY <1>1, <1>2, <1>3 DEF GiveUp, TypeOK
<1>5. InFlightExact'
  BY <1>1, IdleCounts DEF IInv, GiveUp
<1> QED
  BY <1>3, <1>4, <1>5 DEF IInv

\* A batch ends or a call is cancelled: only the load counter moves.
LEMMA UnrecordedStep ==
  ASSUME IInv, NEW t \in Tasks, Unrecorded(t)
  PROVE  IInv'
<1>1. TypeOK
  BY DEF IInv
<1>2. Unloaded(t) \in [Eps -> Nat]
  BY <1>1, WithoutMine DEF IInv, Unrecorded
<1>3. TypeOK'
  BY <1>1, <1>2 DEF Unrecorded, record, TypeOK
<1>4. InFlightExact'
  BY <1>1, IdleCounts DEF IInv, Unrecorded
<1>5. StreakEarned' /\ UnhealthyEarned'
  BY DEF IInv, Unrecorded, record, StreakEarned, UnhealthyEarned
<1> QED
  BY <1>3, <1>4, <1>5 DEF IInv

\* Every step keeps the inductive invariant.
LEMMA Step == IInv /\ [Next]_vars => IInv'
<1> SUFFICES ASSUME IInv, [Next]_vars PROVE IInv'
  OBVIOUS
<1>1. CASE UNCHANGED vars
  BY <1>1 DEF vars, record, IInv, TypeOK, InFlightExact, Posting, StreakEarned,
     UnhealthyEarned
<1> QED
  BY <1>1, StartStep, AnsweredStep, RetryStep, GiveUpStep, UnrecordedStep
     DEF Next, Fails

\* Counters, flags and streaks agree in every reachable state.
THEOREM Invariance == Spec => []IInv
BY InitIInv, Step, PTL DEF Spec

\* The types are right for every number of endpoints and tasks.
THEOREM TypeCorrect == Spec => []TypeOK
<1>1. IInv => TypeOK
  BY DEF IInv
<1> QED
  BY <1>1, Invariance, PTL

\* in_flight of an endpoint is the number of tasks that wait for it.
THEOREM LoadsAreExact == Spec => []InFlightExact
<1>1. IInv => InFlightExact
  BY DEF IInv
<1> QED
  BY <1>1, Invariance, PTL

\* No endpoint is marked unhealthy for a single failed post.
THEOREM UnhealthyIsEarned == Spec => []UnhealthyEarned
<1>1. IInv => UnhealthyEarned
  BY DEF IInv
<1> QED
  BY <1>1, Invariance, PTL
=============================================================================
