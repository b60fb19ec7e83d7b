--------------------------- MODULE EventBusProofs ---------------------------
(***************************************************************************)
(* Proofs about EventBus for every number of workers, entries and faults   *)
(* and every batch size and stream capacity: type correctness, at most one *)
(* delivery of each entry, exclusive batches, acks that follow the work,   *)
(* orphans that stay orphans, and the refinement of LossyQueue.            *)
(***************************************************************************)
EXTENDS EventBus, FiniteSetTheorems, TLAPS

\* A worker past its start has a group; its batch is empty except while it
\* walks it, and its current entry is in the state the control point says.
BatchInv ==
  \A w \in Workers :
    /\ pc[w] \notin {"start", "down"} => group = "present"
    /\ pos[w] >= 1
    /\ pc[w] \in {"start", "read", "down"} => end[w] < pos[w]
    /\ pc[w] \in {"next", "handle", "ack"} => pos[w] <= end[w]
    /\ pc[w] = "handle" => pos[w] \notin finished
    /\ pc[w] = "ack" => pos[w] \in finished

\* An entry the group has not delivered, or one a worker has fetched and
\* not reached, has never been in a loop body.
FreshInv ==
  /\ \A i \in Ids : i > cursor => begun[i] = 0 /\ i \notin finished
  /\ \A w \in Workers : \A i \in Held(w) :
       (i > pos[w] \/ pc[w] = "next") => begun[i] = 0 /\ i \notin finished

IInv == TypeOK /\ BatchInv /\ ExclusiveBatches /\ FreshInv /\ AtMostOnce

-----------------------------------------------------------------------------
\* The next batch: not empty, beyond what was delivered, inside the stream.
LEMMA BatchBounds ==
  ASSUME TypeOK, First <= len
  PROVE  /\ First \in Nat /\ Last \in Nat
         /\ cursor < First /\ First <= Last /\ Last <= len
         /\ trimmed < First
         /\ First..Last \subseteq Ids
BY BusAssumption DEF BusAssumption, TypeOK, First, Last, Ids

\* Init: nothing is published, held or begun, so every part holds.
THEOREM InitIInv == Init => IInv
BY BusAssumption DEF BusAssumption, Init, IInv, TypeOK, BatchInv, ExclusiveBatches, FreshInv,
   AtMostOnce, Held, Ids

\* A read keeps the stream and the group in their types.
LEMMA ReadEffectType ==
  ASSUME TypeOK, ReadEffect
  PROVE  /\ len' \in 0..MaxMsgs /\ trimmed' \in 0..len'
         /\ group' = group /\ cursor' \in 1..len'
         /\ pel' \subseteq 1..cursor'
<1>1. /\ First \in Nat /\ Last \in Nat /\ cursor < First /\ First <= Last
      /\ Last <= len
  BY BatchBounds DEF ReadEffect
<1>2. pel' \subseteq 1..cursor'
  <2>1. 1..cursor \subseteq 1..Last /\ First..Last \subseteq 1..Last
    BY <1>1 DEF TypeOK
  <2> QED
    BY <2>1 DEF TypeOK, ReadEffect
<1> QED
  BY <1>1, <1>2 DEF TypeOK, ReadEffect

\* Leaving an entry behind keeps the types, whether it was acked or skipped.
LEMMA AckCurrentType ==
  ASSUME TypeOK, NEW w \in Workers, AckCurrent(w)
  PROVE  /\ pel' \subseteq 1..cursor'
         /\ pos' \in [Workers -> Nat]
         /\ pc' \in [Workers -> {"start", "read", "next", "handle", "ack", "down"}]
         /\ UNCHANGED <<len, trimmed, group, cursor, end, faults>>
<1>1. pel' \subseteq 1..cursor'
  BY DEF TypeOK, AckCurrent
<1>2. pos' \in [Workers -> Nat]
  BY DEF TypeOK, AckCurrent
<1>3. pc' \in [Workers -> {"start", "read", "next", "handle", "ack", "down"}]
  BY DEF TypeOK, AckCurrent
<1> QED
  BY <1>1, <1>2, <1>3 DEF AckCurrent

\* Type correctness is inductive together with the shape of the batches.
LEMMA TypeStep ==
  ASSUME IInv, [Next]_vars
  PROVE  TypeOK'
<1> USE BusAssumption DEF BusAssumption, Ids, redis, batches, history
<1>a. TypeOK /\ BatchInv /\ ExclusiveBatches
  BY DEF IInv
<1>b. ASSUME NEW w \in Workers, pc[w] \in {"next", "handle", "ack"}
      PROVE  pos[w] \in Ids
  BY <1>a, <1>b DEF TypeOK, BatchInv, ExclusiveBatches, Held
<1>c. ASSUME ReadEffect, group = "present"
      PROVE  /\ len' \in 0..MaxMsgs /\ trimmed' \in 0..len'
             /\ group' \in {"absent", "present"}
             /\ cursor' \in 0..len' /\ (group' = "absent" => cursor' = 0)
             /\ pel' \subseteq 1..cursor'
  BY <1>a, <1>c, ReadEffectType
<1>1. CASE Publish
  BY <1>1, <1>a DEF Publish, TypeOK
<1>2. ASSUME NEW w \in Workers, EnsureGroup(w) PROVE TypeOK'
  BY <1>2, <1>a DEF EnsureGroup, TypeOK
<1>3. ASSUME NEW w \in Workers, Read(w) PROVE TypeOK'
  <2>1. group = "present" /\ ReadEffect
    BY <1>3, <1>a DEF Read, BatchInv
  <2>2. First \in Nat /\ Last \in Nat
    BY <2>1, <1>a, BatchBounds DEF ReadEffect
  <2>3. /\ pos' \in [Workers -> Nat] /\ end' \in [Workers -> Nat]
        /\ pc' \in [Workers -> {"start", "read", "next", "handle", "ack", "down"}]
        /\ UNCHANGED <<begun, finished, faults>>
    BY <1>3, <1>a, <2>2 DEF Read, TypeOK
  <2> QED
    BY <1>c, <1>a, <2>1, <2>3 DEF TypeOK
<1>4. ASSUME NEW w \in Workers, ReadReplyLost(w) PROVE TypeOK'
  <2>1. group = "present" /\ ReadEffect
    BY <1>4, <1>a DEF ReadReplyLost, BatchInv
  <2>2. faults' \in 0..MaxFaults /\ UNCHANGED <<pc, pos, end, begun, finished>>
    BY <1>4, <1>a DEF ReadReplyLost, TypeOK
  <2> QED
    BY <1>c, <1>a, <2>1, <2>2 DEF TypeOK
<1>5. ASSUME NEW w \in Workers, AckCurrent(w), UNCHANGED history PROVE TypeOK'
  BY <1>5, <1>a, AckCurrentType DEF TypeOK
<1>6. ASSUME NEW w \in Workers, Yield(w) PROVE TypeOK'
  BY <1>6, <1>a, <1>b DEF Yield, TypeOK
<1>7. ASSUME NEW w \in Workers, Handle(w) PROVE TypeOK'
  BY <1>7, <1>a, <1>b DEF Handle, TypeOK
<1>8. ASSUME NEW w \in Workers, Crash(w) PROVE TypeOK'
  BY <1>8, <1>a DEF Crash, TypeOK
<1>9. ASSUME NEW w \in Workers, Restart(w) PROVE TypeOK'
  BY <1>9, <1>a DEF Restart, TypeOK
<1>10. CASE UNCHANGED vars
  BY <1>10, <1>a DEF vars, TypeOK
<1> QED
  BY <1>1, <1>2, <1>3, <1>4, <1>5, <1>6, <1>7, <1>8, <1>9, <1>10
     DEF Next, Consume, SkipMalformed, Ack
-----------------------------------------------------------------------------
\* The entry a worker is at is pending, delivered, and in no other batch.
LEMMA CurrentEntry ==
  ASSUME IInv, NEW w \in Workers, pc[w] \in {"next", "handle", "ack"}
  PROVE  /\ pos[w] \in Held(w) /\ pos[w] \in pel /\ pos[w] \in Ids
         /\ pos[w] <= cursor
         /\ \A v \in Workers \ {w} : pos[w] \notin Held(v)
<1>1. pos[w] \in Held(w)
  BY DEF IInv, TypeOK, BatchInv, Held
<1>2. pos[w] \in pel /\ \A v \in Workers \ {w} : pos[w] \notin Held(v)
  BY <1>1 DEF IInv, ExclusiveBatches
<1> QED
  BY <1>1, <1>2, BusAssumption DEF BusAssumption, IInv, TypeOK, Ids

\* What a worker holds was delivered to the group.
LEMMA HeldDelivered ==
  ASSUME IInv, NEW w \in Workers
  PROVE  Held(w) \subseteq 1..cursor
BY DEF IInv, TypeOK, ExclusiveBatches

\* Each control point keeps its batch in the shape BatchInv gives it.
LEMMA BatchStep ==
  ASSUME IInv, [Next]_vars
  PROVE  BatchInv'
<1> USE DEF redis, batches, history
<1>a. TypeOK /\ BatchInv
  BY DEF IInv
<1>1. CASE Publish
  BY <1>1, <1>a DEF Publish, BatchInv
<1>2. ASSUME NEW w \in Workers, EnsureGroup(w) PROVE BatchInv'
  BY <1>2, <1>a DEF EnsureGroup, BatchInv, TypeOK
<1>3. ASSUME NEW w \in Workers, Read(w) PROVE BatchInv'
  <2>1. First >= 1 /\ First <= Last
    BY <1>3, <1>a, BatchBounds DEF Read, ReadEffect, TypeOK
  <2> QED
    BY <1>3, <1>a, <2>1 DEF Read, ReadEffect, BatchInv, TypeOK
<1>4. ASSUME NEW w \in Workers, ReadReplyLost(w) PROVE BatchInv'
  BY <1>4, <1>a DEF ReadReplyLost, ReadEffect, BatchInv
<1>5. ASSUME NEW w \in Workers, pc[w] \in {"next", "ack"}, AckCurrent(w),
             UNCHANGED history
      PROVE  BatchInv'
  BY <1>5, <1>a DEF AckCurrent, BatchInv, TypeOK
<1>6. ASSUME NEW w \in Workers, Yield(w) PROVE BatchInv'
  <2>1. pos[w] \notin finished
    BY <1>6, CurrentEntry DEF Yield, IInv, FreshInv
  <2> QED
    BY <1>6, <1>a, <2>1 DEF Yield, BatchInv, TypeOK
<1>7. ASSUME NEW w \in Workers, Handle(w) PROVE BatchInv'
  <2>1. \A v \in Workers \ {w} : pc[v] = "handle" => pos[v] # pos[w]
    BY <1>7, CurrentEntry DEF Handle
  <2> QED
    BY <1>7, <1>a, <2>1 DEF Handle, BatchInv, TypeOK
<1>8. ASSUME NEW w \in Workers, Crash(w) PROVE BatchInv'
  BY <1>8, <1>a DEF Crash, BatchInv, TypeOK
<1>9. ASSUME NEW w \in Workers, Restart(w) PROVE BatchInv'
  BY <1>9, <1>a DEF Restart, BatchInv, TypeOK
<1>10. CASE UNCHANGED vars
  BY <1>10, <1>a DEF vars, BatchInv
<1> QED
  BY <1>1, <1>2, <1>3, <1>4, <1>5, <1>6, <1>7, <1>8, <1>9, <1>10
     DEF Next, Consume, SkipMalformed, Ack

\* Only a read makes a batch, and it takes entries nobody was given.
LEMMA ExclusiveStep ==
  ASSUME IInv, [Next]_vars
  PROVE  ExclusiveBatches'
<1> USE DEF redis, batches, history
<1>a. TypeOK /\ BatchInv /\ ExclusiveBatches
  BY DEF IInv
<1>1. ASSUME pel \subseteq pel', UNCHANGED batches PROVE ExclusiveBatches'
  BY <1>1, <1>a DEF ExclusiveBatches, Held
<1>2. CASE Publish
  BY <1>1, <1>2 DEF Publish
<1>3. ASSUME NEW w \in Workers, Read(w) PROVE ExclusiveBatches'
  <2>1. Held(w)' = First..Last /\ \A v \in Workers \ {w} : Held(v)' = Held(v)
    BY <1>3, <1>a DEF Read, Held, TypeOK
  <2>2. \A v \in Workers : Held(v) \cap (First..Last) = {}
    BY <1>3, <1>a, BatchBounds, HeldDelivered DEF Read, ReadEffect, TypeOK
  <2>3. pel' = pel \cup (First..Last)
    BY <1>3 DEF Read, ReadEffect
  <2> QED
    BY <1>a, <2>1, <2>2, <2>3 DEF ExclusiveBatches
<1>4. ASSUME NEW w \in Workers, pc[w] \in {"next", "ack"}, AckCurrent(w)
      PROVE  ExclusiveBatches'
  <2>1. /\ Held(w)' = Held(w) \ {pos[w]}
        /\ \A v \in Workers \ {w} : Held(v)' = Held(v)
    BY <1>4, <1>a DEF AckCurrent, Held, TypeOK
  <2>2. \A v \in Workers \ {w} : pos[w] \notin Held(v)
    BY <1>4, CurrentEntry
  <2> QED
    BY <1>4, <1>a, <2>1, <2>2 DEF AckCurrent, ExclusiveBatches
<1>5. ASSUME NEW w \in Workers, Crash(w) PROVE ExclusiveBatches'
  <2>1. Held(w)' = {} /\ \A v \in Workers \ {w} : Held(v)' = Held(v)
    BY <1>5, <1>a DEF Crash, Held, TypeOK
  <2> QED
    BY <1>5, <1>a, <2>1 DEF Crash, ExclusiveBatches
<1>6. ASSUME NEW w \in Workers,
             \/ EnsureGroup(w) \/ ReadReplyLost(w) \/ Yield(w)
             \/ Handle(w) \/ Restart(w)
      PROVE  ExclusiveBatches'
  BY <1>1, <1>6
     DEF EnsureGroup, ReadReplyLost, ReadEffect, Yield, Handle, Restart
<1>7. CASE UNCHANGED vars
  BY <1>1, <1>7 DEF vars
<1> QED
  BY <1>2, <1>3, <1>4, <1>5, <1>6, <1>7 DEF Next, Consume, SkipMalformed, Ack

\* An entry gets into a loop body only when its worker has reached it.
LEMMA FreshStep ==
  ASSUME IInv, [Next]_vars
  PROVE  FreshInv' /\ AtMostOnce'
<1> USE DEF redis, batches, history
<1>a. TypeOK /\ FreshInv /\ AtMostOnce
  BY DEF IInv
<1>b. ASSUME UNCHANGED <<batches, history, pc>>, cursor' \in Nat, cursor <= cursor'
      PROVE  FreshInv' /\ AtMostOnce'
  BY <1>a, <1>b, BusAssumption
     DEF BusAssumption, FreshInv, AtMostOnce, Held, Ids, TypeOK
<1>1. CASE Publish
  BY <1>1, <1>a, <1>b DEF Publish, TypeOK
<1>2. ASSUME NEW w \in Workers, EnsureGroup(w) PROVE FreshInv' /\ AtMostOnce'
  <2>1. /\ cursor' \in Nat /\ cursor <= cursor' /\ UNCHANGED <<batches, history>>
        /\ \A v \in Workers : pc'[v] = "next" => pc[v] = "next"
    BY <1>2, <1>a DEF EnsureGroup, TypeOK
  <2> QED
    BY <1>a, <2>1, BusAssumption
       DEF BusAssumption, FreshInv, AtMostOnce, Held, Ids, TypeOK
<1>3. ASSUME NEW w \in Workers, Read(w) PROVE FreshInv' /\ AtMostOnce'
  <2>1. /\ First \in Nat /\ Last \in Nat /\ cursor < First /\ First <= Last
        /\ First..Last \subseteq Ids
    BY <1>3, <1>a, BatchBounds DEF Read, ReadEffect
  <2>2. /\ Held(w)' = First..Last
        /\ \A v \in Workers \ {w} :
             Held(v)' = Held(v) /\ pos'[v] = pos[v] /\ pc'[v] = pc[v]
    BY <1>3, <1>a DEF Read, Held, TypeOK
  <2>3. cursor' = Last /\ UNCHANGED history
    BY <1>3 DEF Read, ReadEffect
  <2>4. \A i \in Ids : i > cursor' => begun'[i] = 0 /\ i \notin finished'
    BY <1>a, <2>1, <2>3, BusAssumption DEF BusAssumption, FreshInv, Ids, TypeOK
  <2>5. ASSUME NEW i \in First..Last PROVE begun'[i] = 0 /\ i \notin finished'
    <3>1. i \in Ids /\ i > cursor
      BY <2>1, <1>a DEF TypeOK
    <3> QED
      BY <3>1, <1>a, <2>3 DEF FreshInv
  <2> QED
    BY <1>a, <2>2, <2>3, <2>4, <2>5 DEF FreshInv, AtMostOnce
<1>4. ASSUME NEW w \in Workers, ReadReplyLost(w) PROVE FreshInv' /\ AtMostOnce'
  BY <1>4, <1>a, <1>b, BatchBounds DEF ReadReplyLost, ReadEffect, TypeOK
<1>5. ASSUME NEW w \in Workers, pc[w] \in {"next", "ack"}, AckCurrent(w),
             UNCHANGED history
      PROVE  FreshInv' /\ AtMostOnce'
  <2>1. /\ \A i \in Held(w)' : i \in Held(w) /\ i > pos[w]
        /\ \A v \in Workers \ {w} :
             Held(v)' = Held(v) /\ pos'[v] = pos[v] /\ pc'[v] = pc[v]
    BY <1>5, <1>a DEF AckCurrent, Held, TypeOK
  <2>2. cursor' = cursor
    BY <1>5 DEF AckCurrent
  <2> QED
    BY <1>5, <1>a, <2>1, <2>2 DEF FreshInv, AtMostOnce
<1>6. ASSUME NEW w \in Workers, Yield(w) PROVE FreshInv' /\ AtMostOnce'
  <2>1. /\ pos[w] \in Held(w) /\ pos[w] \in Ids /\ pos[w] <= cursor
        /\ \A v \in Workers \ {w} : pos[w] \notin Held(v)
    BY <1>6, CurrentEntry DEF Yield
  <2>2. begun[pos[w]] = 0
    BY <1>6, <1>a, <2>1 DEF Yield, FreshInv
  <2>3. /\ begun' = [begun EXCEPT ![pos[w]] = 1]
        /\ UNCHANGED <<redis, batches, finished>>
    BY <1>6, <2>2, <2>1, <1>a DEF Yield, TypeOK
  <2>4. \A v \in Workers : Held(v)' = Held(v) /\ pos'[v] = pos[v]
    BY <2>3 DEF Held
  <2>5. pc'[w] = "handle" /\ \A v \in Workers \ {w} : pc'[v] = pc[v]
    BY <1>6, <1>a DEF Yield, TypeOK
  <2>6. \A i \in Ids : i # pos[w] => begun'[i] = begun[i]
    BY <2>3, <1>a DEF TypeOK
  <2>7. \A i \in Ids : i > cursor' => begun'[i] = 0 /\ i \notin finished'
    BY <1>a, <2>1, <2>3, <2>6, BusAssumption
       DEF BusAssumption, FreshInv, Ids, TypeOK
  <2>8. ASSUME NEW v \in Workers, NEW i \in Held(v)', i > pos'[v] \/ pc'[v] = "next"
        PROVE  begun'[i] = 0 /\ i \notin finished'
    <3>1. i \in Held(v) /\ i \in Ids
      BY <2>4, <2>8, HeldDelivered, <1>a, BusAssumption
         DEF BusAssumption, TypeOK, Ids
    <3>2. i # pos[w] /\ (i > pos[v] \/ pc[v] = "next")
      BY <2>1, <2>4, <2>5, <2>8, <3>1, <1>a DEF TypeOK, Held
    <3> QED
      BY <3>1, <3>2, <2>3, <2>6, <1>a DEF FreshInv
  <2>9. AtMostOnce'
    BY <2>3, <1>a DEF AtMostOnce, TypeOK
  <2> QED
    BY <2>7, <2>8, <2>9 DEF FreshInv
<1>7. ASSUME NEW w \in Workers, Handle(w) PROVE FreshInv' /\ AtMostOnce'
  <2>1. /\ pos[w] \in Held(w) /\ pos[w] \in Ids /\ pos[w] <= cursor
        /\ \A v \in Workers \ {w} : pos[w] \notin Held(v)
    BY <1>7, CurrentEntry DEF Handle
  <2>2. \A v \in Workers : Held(v)' = Held(v) /\ pos'[v] = pos[v]
    BY <1>7 DEF Handle, Held
  <2>3. pc'[w] = "ack" /\ \A v \in Workers \ {w} : pc'[v] = pc[v]
    BY <1>7, <1>a DEF Handle, TypeOK
  <2>4. begun' = begun /\ cursor' = cursor /\ finished' = finished \cup {pos[w]}
    BY <1>7 DEF Handle
  <2>5. \A i \in Ids : i > cursor' => begun'[i] = 0 /\ i \notin finished'
    BY <1>a, <2>1, <2>4, BusAssumption DEF BusAssumption, FreshInv, Ids, TypeOK
  <2>6. ASSUME NEW v \in Workers, NEW i \in Held(v)', i > pos'[v] \/ pc'[v] = "next"
        PROVE  begun'[i] = 0 /\ i \notin finished'
    <3>1. i \in Held(v) /\ i \in Ids
      BY <2>2, <2>6, HeldDelivered, <1>a, BusAssumption
         DEF BusAssumption, TypeOK, Ids
    <3>2. i # pos[w] /\ (i > pos[v] \/ pc[v] = "next")
      BY <2>1, <2>2, <2>3, <2>6, <3>1, <1>a DEF TypeOK, Held
    <3> QED
      BY <3>1, <3>2, <2>4, <1>a DEF FreshInv
  <2> QED
    BY <2>4, <2>5, <2>6, <1>a DEF FreshInv, AtMostOnce
<1>8. ASSUME NEW w \in Workers, Crash(w) PROVE FreshInv' /\ AtMostOnce'
  <2>1. /\ Held(w)' = {}
        /\ \A v \in Workers \ {w} :
             Held(v)' = Held(v) /\ pos'[v] = pos[v] /\ pc'[v] = pc[v]
    BY <1>8, <1>a DEF Crash, Held, TypeOK
  <2> QED
    BY <1>8, <1>a, <2>1 DEF Crash, FreshInv, AtMostOnce
<1>9. ASSUME NEW w \in Workers, Restart(w) PROVE FreshInv' /\ AtMostOnce'
  <2>1. /\ UNCHANGED <<redis, batches, history>>
        /\ \A v \in Workers : pc'[v] = "next" => pc[v] = "next"
    BY <1>9, <1>a DEF Restart, TypeOK
  <2> QED
    BY <1>a, <2>1 DEF FreshInv, AtMostOnce, Held
<1>10. CASE UNCHANGED vars
  BY <1>10, <1>a, <1>b DEF vars, TypeOK
<1> QED
  BY <1>1, <1>2, <1>3, <1>4, <1>5, <1>6, <1>7, <1>8, <1>9, <1>10
     DEF Next, Consume, SkipMalformed, Ack

-----------------------------------------------------------------------------
\* The inductive invariant holds in every reachable state.
THEOREM Invariance == Spec => []IInv
<1>1. IInv /\ [Next]_vars => IInv'
  BY TypeStep, BatchStep, ExclusiveStep, FreshStep DEF IInv
<1> QED
  BY InitIInv, <1>1, PTL DEF Spec

\* The bus's variables keep their types over any number of workers, entries
\* and faults.
THEOREM TypeCorrect == Spec => []TypeOK
<1>1. IInv => TypeOK
  BY DEF IInv
<1> QED
  BY Invariance, <1>1, PTL

\* No entry ever enters a loop body twice (streams.py:91-111).
THEOREM DeliveredAtMostOnce == Spec => []AtMostOnce
<1>1. IInv => AtMostOnce
  BY DEF IInv
<1> QED
  BY Invariance, <1>1, PTL

\* Workers that share the group and the consumer name never share an entry.
THEOREM BatchesExclusive == Spec => []ExclusiveBatches
<1>1. IInv => ExclusiveBatches
  BY DEF IInv
<1> QED
  BY Invariance, <1>1, PTL

\* Pending entries of one worker's step: only an ack shrinks the list, and
\* it removes the current entry of a worker that skips or has finished it.
LEMMA PelShrinks ==
  ASSUME IInv, [Next]_vars, NEW i \in pel, i \notin pel'
  PROVE  \E w \in Workers :
           AckCurrent(w) /\ i = pos[w] /\ pc[w] \in {"next", "ack"}
             /\ (pc[w] = "next" => i \in Malformed)
<1> USE DEF redis, batches, history
<1>1. ~ Publish /\ ~ UNCHANGED vars
  BY DEF Publish, vars
<1>2. \A w \in Workers :
        /\ ~ EnsureGroup(w) /\ ~ Read(w) /\ ~ ReadReplyLost(w) /\ ~ Yield(w)
        /\ ~ Handle(w) /\ ~ Crash(w) /\ ~ Restart(w)
  BY DEF EnsureGroup, Read, ReadReplyLost, ReadEffect, Yield, Handle, Crash,
     Restart
<1>3. PICK w \in Workers : SkipMalformed(w) \/ Ack(w)
  BY <1>1, <1>2 DEF Next, Consume
<1>4. AckCurrent(w) /\ i = pos[w]
  BY <1>3 DEF SkipMalformed, Ack, AckCurrent
<1> QED
  BY <1>3, <1>4 DEF SkipMalformed, Ack

\* The ack of an entry follows the return of its loop body.
THEOREM AcksFollowWork == Spec => AckAfterWork
<1>1. ASSUME IInv, [Next]_vars, NEW i \in pel \ pel'
      PROVE  i \in finished \cup Malformed
  BY <1>1, PelShrinks DEF IInv, BatchInv
<1>2. IInv /\ [Next]_vars => [\A i \in pel \ pel' : i \in finished \cup Malformed]_vars
  BY <1>1
<1> QED
  BY <1>2, Invariance, PTL DEF Spec, AckAfterWork

\* A worker comes to hold an entry only by reading past the group's cursor.
LEMMA NewlyHeld ==
  ASSUME IInv, [Next]_vars, NEW w \in Workers, NEW i \in Held(w)', i \notin Held(w)
  PROVE  i > cursor
<1> USE DEF redis, batches, history
<1>a. TypeOK
  BY DEF IInv
<1>1. CASE \E v \in Workers : Read(v)
  <2>1. PICK v \in Workers : Read(v)
    BY <1>1
  <2>2. First \in Nat /\ Last \in Nat /\ cursor < First
    BY <2>1, <1>a, BatchBounds DEF Read, ReadEffect
  <2>3. i \in First..Last
    BY <2>1, <1>a DEF Read, Held, TypeOK
  <2> QED
    BY <2>2, <2>3, <1>a DEF TypeOK
<1>2. ASSUME NEW v \in Workers, SkipMalformed(v) \/ Ack(v) \/ Crash(v) PROVE FALSE
  BY <1>2, <1>a DEF SkipMalformed, Ack, AckCurrent, Crash, Held, TypeOK
<1>3. ASSUME UNCHANGED batches PROVE FALSE
  BY <1>3 DEF Held
<1> QED
  BY <1>1, <1>2, <1>3
     DEF Next, Consume, vars, Publish, EnsureGroup, ReadReplyLost, Yield, Handle,
         Restart

\* An orphan is never taken up again, by any step of any worker.
THEOREM OrphansForever == Spec => OrphansStay
<1>1. ASSUME IInv, [Next]_vars, NEW i \in Orphans PROVE i \in Orphans'
  <2>1. i \in pel'
    BY <1>1, PelShrinks, CurrentEntry DEF Orphans
  <2>2. i <= cursor /\ i \in Nat
    BY <1>1 DEF IInv, TypeOK, Orphans
  <2>3. \A w \in Workers : i \notin Held(w)'
    BY <1>1, <2>2, NewlyHeld DEF IInv, TypeOK, Orphans
  <2> QED
    BY <2>1, <2>3 DEF Orphans
<1>2. IInv /\ [Next]_vars => [Orphans \subseteq Orphans']_vars
  BY <1>1
<1> QED
  BY <1>2, Invariance, PTL DEF Spec, OrphansStay

-----------------------------------------------------------------------------
\* No worker holds more than a batch.
CountInv == \A w \in Workers : end[w] - pos[w] < Count

\* A batch has at most Count entries.
LEMMA BatchSize ==
  ASSUME TypeOK, NEW f \in Nat, NEW l \in Nat, l - f < Count
  PROVE  IsFiniteSet(f..l) /\ Cardinality(f..l) <= Count
<1>1. IsFiniteSet(f..l) /\ Cardinality(f..l) = IF f > l THEN 0 ELSE l - f + 1
  BY FS_Interval
<1> QED
  BY <1>1, BusAssumption DEF BusAssumption

\* The batch a read delivers.
LEMMA ReadSize ==
  ASSUME TypeOK, First <= len
  PROVE  /\ First \in Nat /\ Last \in Nat /\ Last - First < Count
         /\ IsFiniteSet(First..Last) /\ Cardinality(First..Last) <= Count
<1>1. First \in Nat /\ Last \in Nat
  BY BatchBounds
<1>2. Last - First < Count
  BY <1>1, BusAssumption DEF BusAssumption, TypeOK, Last
<1> QED
  BY <1>1, <1>2, BatchSize

\* Batches are never larger than a read delivers.
LEMMA CountStep == ASSUME IInv, CountInv, [Next]_vars PROVE CountInv'
<1> USE BusAssumption DEF BusAssumption, redis, batches, history, CountInv
<1>1. TypeOK
  BY DEF IInv
<1>2. ASSUME NEW w \in Workers, Read(w) PROVE CountInv'
  BY <1>1, <1>2, ReadSize DEF Read, ReadEffect, TypeOK
<1>3. ASSUME NEW w \in Workers, SkipMalformed(w) \/ Ack(w) \/ Crash(w) PROVE CountInv'
  BY <1>1, <1>3 DEF SkipMalformed, Ack, AckCurrent, Crash, TypeOK
<1>4. CASE UNCHANGED batches
  BY <1>4
<1> QED
  BY <1>2, <1>3, <1>4
     DEF Next, Consume, vars, Publish, EnsureGroup, ReadReplyLost, Yield, Handle, Restart

\* A set of orphans that grew by one batch.
LEMMA OneBatchMore ==
  ASSUME TypeOK, IsFiniteSet(Orphans), LossPerFault, NEW B, IsFiniteSet(B),
         Cardinality(B) <= Count, Orphans' \subseteq Orphans \cup B,
         faults' = faults + 1
  PROVE  IsFiniteSet(Orphans)' /\ LossPerFault'
<1> USE BusAssumption DEF BusAssumption
<1>1. /\ IsFiniteSet(Orphans \cup B)
      /\ Cardinality(Orphans \cup B) = Cardinality(Orphans) + Cardinality(B) - Cardinality(Orphans \cap B)
  BY FS_Union
<1>2. IsFiniteSet(Orphans \cap B) /\ Cardinality(Orphans \cap B) \in Nat
  BY FS_Intersection, FS_CardinalityType
<1>3. Cardinality(Orphans) \in Nat /\ Cardinality(B) \in Nat
  BY FS_CardinalityType
<1>4. /\ IsFiniteSet(Orphans') /\ Cardinality(Orphans') \in Nat
      /\ Cardinality(Orphans') <= Cardinality(Orphans \cup B)
  BY <1>1, FS_Subset, FS_CardinalityType
<1>5. faults \in Nat /\ Count \in Nat /\ Count * (faults + 1) = Count * faults + Count
  BY DEF TypeOK
<1>6. Count * faults \in Nat
  BY <1>5
<1>7. Cardinality(Orphans') <= Count * faults'
  BY <1>1, <1>2, <1>3, <1>4, <1>5, <1>6 DEF LossPerFault
<1> QED
  BY <1>4, <1>7 DEF LossPerFault

\* Only a lost reply and a crash leave entries to nobody.
LEMMA NoNewOrphans ==
  ASSUME IInv, [Next]_vars,
         \A w \in Workers : ~ ReadReplyLost(w) /\ ~ Crash(w)
  PROVE  Orphans' \subseteq Orphans /\ faults' = faults
<1> USE DEF redis, batches, history
<1>1. TypeOK /\ BatchInv
  BY DEF IInv
<1>2. ASSUME NEW w \in Workers, Read(w) PROVE Orphans' \subseteq Orphans /\ faults' = faults
  <2>1. /\ pel' = pel \cup (First..Last) /\ faults' = faults
        /\ Held(w)' = First..Last
        /\ \A v \in Workers \ {w} : Held(v)' = Held(v)
    BY <1>1, <1>2 DEF Read, ReadEffect, TypeOK, Held
  <2>2. Held(w) = {}
    BY <1>1, <1>2 DEF Read, TypeOK, BatchInv, Held
  <2> QED
    BY <2>1, <2>2 DEF Orphans
<1>3. ASSUME NEW w \in Workers, SkipMalformed(w) \/ Ack(w)
      PROVE  Orphans' \subseteq Orphans /\ faults' = faults
  <2>1. /\ pel' = pel \ {pos[w]} /\ faults' = faults
        /\ Held(w) \subseteq Held(w)' \cup {pos[w]}
        /\ \A v \in Workers \ {w} : Held(v)' = Held(v)
    BY <1>1, <1>3 DEF SkipMalformed, Ack, AckCurrent, TypeOK, Held
  <2> QED
    BY <2>1 DEF Orphans
<1>4. CASE UNCHANGED <<pel, batches, faults>>
  BY <1>4 DEF Orphans, Held
<1> QED
  BY <1>2, <1>3, <1>4 DEF Next, Consume, vars, Publish, EnsureGroup, Yield, Handle, Restart

\* Each crash or lost reply strands at most a batch, whatever the workers did
\* before it.
THEOREM LossIsBounded == Spec => []LossPerFault
<1> DEFINE LossInv == CountInv /\ IsFiniteSet(Orphans) /\ LossPerFault
<1>1. Init => LossInv
  <2> SUFFICES ASSUME Init PROVE LossInv
    OBVIOUS
  <2>1. Orphans = {} /\ faults = 0
    BY DEF Init, Orphans
  <2> QED
    BY <2>1, FS_EmptySet, BusAssumption DEF BusAssumption, Init, CountInv, LossPerFault
<1>2. ASSUME IInv, LossInv, [Next]_vars PROVE LossInv'
  <2>1. TypeOK /\ CountInv'
    BY <1>2, CountStep DEF IInv
  <2>2. ASSUME NEW w \in Workers, ReadReplyLost(w) PROVE LossInv'
    <3>1. First <= len /\ faults' = faults + 1 /\ Orphans' \subseteq Orphans \cup (First..Last)
      BY <2>2 DEF ReadReplyLost, ReadEffect, batches, Orphans, Held
    <3> QED
      BY <1>2, <2>1, <3>1, ReadSize, OneBatchMore
  <2>3. ASSUME NEW w \in Workers, Crash(w) PROVE LossInv'
    <3>1. faults' = faults + 1 /\ Orphans' \subseteq Orphans \cup Held(w)
      BY <2>1, <2>3 DEF Crash, redis, Orphans, Held, TypeOK
    <3>2. IsFiniteSet(Held(w)) /\ Cardinality(Held(w)) <= Count
      BY <1>2, <2>1, BatchSize DEF Held, TypeOK, CountInv
    <3> QED
      BY <1>2, <2>1, <3>1, <3>2, OneBatchMore
  <2>4. CASE \A w \in Workers : ~ ReadReplyLost(w) /\ ~ Crash(w)
    <3>1. Orphans' \subseteq Orphans /\ faults' = faults
      BY <1>2, <2>4, NoNewOrphans
    <3>2. /\ IsFiniteSet(Orphans') /\ Cardinality(Orphans') <= Cardinality(Orphans)
          /\ Cardinality(Orphans) \in Nat /\ Cardinality(Orphans') \in Nat
      BY <1>2, <3>1, FS_Subset, FS_CardinalityType
    <3>3. Count * faults \in Nat
      BY <2>1, BusAssumption DEF BusAssumption, TypeOK
    <3> QED
      BY <1>2, <2>1, <3>1, <3>2, <3>3 DEF LossPerFault
  <2> QED
    BY <2>2, <2>3, <2>4
<1>3. LossInv => LossPerFault
  OBVIOUS
<1> HIDE DEF LossInv
<1> QED
  BY <1>1, <1>2, <1>3, Invariance, PTL DEF Spec

-----------------------------------------------------------------------------
\* Refinement: each step of the bus is a step of the lossy queue or none.

\* A step that moves the entries of one status to another, and no other.
LEMMA StatusMove ==
  ASSUME NEW S \in SUBSET Ids, NEW st,
         \A i \in Ids : StatusOf(i)' = IF i \in S THEN st ELSE StatusOf(i)
  PROVE  Status' = Queue!Move(S, st)
BY DEF Status, Queue!Move, Queue!Msgs, Ids

\* A step that leaves every entry its status.
LEMMA StatusSame ==
  ASSUME \A i \in Ids : StatusOf(i)' = StatusOf(i)
  PROVE  Status' = Status
BY DEF Status

\* The entries LossyQueue counts under a status, as sets of ids.
LEMMA HavingStatus ==
  ASSUME NEW st
  PROVE  Queue!Having(st) = {i \in Ids : StatusOf(i) = st}
BY DEF Queue!Having, Queue!Msgs, Status, Ids

\* Batches and finished entries lie within what the group delivered.
LEMMA Delivered ==
  ASSUME IInv
  PROVE  /\ cursor \in Nat /\ len \in Nat /\ trimmed \in Nat /\ cursor <= len
         /\ \A w \in Workers : \A i \in Held(w) : i \in Ids /\ i <= cursor
         /\ \A i \in finished : i \in Ids /\ i <= cursor
<1>1. cursor \in Nat /\ len \in Nat /\ trimmed \in Nat /\ cursor <= len
  BY BusAssumption DEF BusAssumption, IInv, TypeOK
<1>2. \A w \in Workers : \A i \in Held(w) : i \in Ids /\ i <= cursor
  BY HeldDelivered, BusAssumption DEF BusAssumption, IInv, TypeOK, Ids
<1>3. ASSUME NEW i \in finished PROVE i \in Ids /\ i <= cursor
  BY <1>3, <1>1, BusAssumption DEF BusAssumption, IInv, TypeOK, FreshInv, Ids
<1> QED
  BY <1>1, <1>2, <1>3

\* publish sends the next entry of the abstract queue.
LEMMA PublishRefines == ASSUME IInv, Publish PROVE Queue!Send
<1> USE BusAssumption, Delivered DEF BusAssumption, Ids
<1>1. /\ len' = len + 1 /\ len' \in Ids /\ trimmed' \in Nat
      /\ trimmed <= trimmed' /\ trimmed' <= len
  BY DEF Publish, IInv, TypeOK
<1>2. UNCHANGED <<cursor, finished>> /\ \A w \in Workers : Held(w)' = Held(w)
  BY DEF Publish, batches, history, Held
<1> DEFINE S == {i \in Ids : StatusOf(i) = "queued" /\ i <= trimmed'}
<1>3. \A i \in Ids :
        StatusOf(i)' = IF i = len' THEN "queued"
                       ELSE IF i \in S THEN "lost" ELSE StatusOf(i)
  BY <1>1, <1>2 DEF StatusOf
<1>4. Status' = [Queue!Move(S, "lost") EXCEPT ![len'] = "queued"]
  BY <1>1, <1>3 DEF Status, Queue!Move, Queue!Msgs
<1>5. len' \in Queue!Having("unsent") /\ S \in SUBSET Queue!Having("queued")
  BY <1>1, HavingStatus DEF StatusOf
<1>6. \A j \in Queue!Having("unsent") : len' <= j
  BY <1>1, HavingStatus DEF StatusOf
<1> QED
  BY <1>4, <1>5, <1>6 DEF Queue!Send

\* The read batch is the old end of what is queued.
LEMMA QueuedBatch ==
  ASSUME IInv, ReadEffect
  PROVE  /\ First..Last \in SUBSET Ids
         /\ \A i \in First..Last : StatusOf(i) = "queued"
         /\ \A j \in Ids : StatusOf(j) = "queued" /\ j \notin First..Last => Last < j
<1> USE BusAssumption, Delivered DEF BusAssumption
<1>1. /\ First \in Nat /\ Last \in Nat /\ cursor < First /\ First <= Last
      /\ Last <= len /\ trimmed < First /\ First..Last \subseteq Ids
  BY BatchBounds DEF ReadEffect, IInv
<1>2. ASSUME NEW j \in Ids, j > cursor, j > trimmed PROVE j >= First
  BY <1>2 DEF First, Ids
<1>3. \A i \in First..Last : StatusOf(i) = "queued"
  BY <1>1 DEF StatusOf
<1>4. ASSUME NEW j \in Ids, StatusOf(j) = "queued", j \notin First..Last
      PROVE  Last < j
  BY <1>1, <1>2, <1>4 DEF StatusOf, Ids
<1> QED
  BY <1>1, <1>3, <1>4

\* A read that is answered takes the oldest entries still queued.
LEMMA ReadRefines == ASSUME IInv, NEW w \in Workers, Read(w) PROVE Queue!Take
<1> USE BusAssumption, Delivered DEF BusAssumption
<1>1. /\ First \in Nat /\ Last \in Nat /\ cursor < First /\ First <= Last
      /\ Last <= len /\ trimmed < First
  BY BatchBounds DEF Read, ReadEffect, IInv
<1>2. /\ cursor' = Last /\ UNCHANGED <<len, trimmed, finished>>
      /\ Held(w)' = First..Last
      /\ \A v \in Workers \ {w} : Held(v)' = Held(v)
  BY DEF Read, ReadEffect, history, Held, IInv, TypeOK
<1>3. Held(w) = {}
  BY DEF Read, IInv, BatchInv, TypeOK, Held
<1>4. \A i \in Ids : (\E v \in Workers : i \in Held(v)')
                     <=> (i \in First..Last \/ \E v \in Workers : i \in Held(v))
  BY <1>2, <1>3
<1>5. \A i \in Ids : StatusOf(i)' = IF i \in First..Last THEN "taken" ELSE StatusOf(i)
  <2> SUFFICES ASSUME NEW i \in Ids
               PROVE StatusOf(i)' = IF i \in First..Last THEN "taken" ELSE StatusOf(i)
    OBVIOUS
  <2>1. CASE i \in First..Last
    BY <1>1, <1>2, <1>4, <2>1 DEF StatusOf, Ids
  <2>2. CASE i \notin First..Last
    <3>1. i > trimmed /\ i > cursor => i >= First
      BY DEF First, Ids
    <3> QED
      BY <1>1, <1>2, <1>4, <2>2, <3>1 DEF StatusOf, Ids
  <2> QED
    BY <2>1, <2>2
<1>6. Status' = Queue!Move(First..Last, "taken")
  BY <1>5, QueuedBatch, StatusMove DEF Read
<1>7. First..Last \in SUBSET Queue!Having("queued")
  BY QueuedBatch, HavingStatus DEF Read
<1>8. \A i \in First..Last, j \in Queue!Having("queued") \ (First..Last) : i < j
  BY <1>1, QueuedBatch, HavingStatus DEF Read, Ids
<1> QED
  BY <1>6, <1>7, <1>8 DEF Queue!Take

\* A read whose reply is lost drops the entries it was to fetch.
LEMMA ReplyLostRefines ==
  ASSUME IInv, NEW w \in Workers, ReadReplyLost(w) PROVE Queue!Drop
<1> USE BusAssumption, Delivered DEF BusAssumption
<1>1. /\ First \in Nat /\ Last \in Nat /\ cursor < First /\ First <= Last
      /\ Last <= len /\ trimmed < First
  BY BatchBounds DEF ReadReplyLost, ReadEffect, IInv
<1>2. /\ cursor' = Last /\ UNCHANGED <<len, trimmed, finished>>
      /\ \A v \in Workers : Held(v)' = Held(v)
  BY DEF ReadReplyLost, ReadEffect, history, batches, Held
<1>3. \A i \in Ids : StatusOf(i)' = IF i \in First..Last THEN "lost" ELSE StatusOf(i)
  <2> SUFFICES ASSUME NEW i \in Ids
               PROVE StatusOf(i)' = IF i \in First..Last THEN "lost" ELSE StatusOf(i)
    OBVIOUS
  <2>1. CASE i \in First..Last
    BY <1>1, <1>2, <2>1 DEF StatusOf, Ids
  <2>2. CASE i \notin First..Last
    <3>1. i > trimmed /\ i > cursor => i >= First
      BY DEF First, Ids
    <3> QED
      BY <1>1, <1>2, <2>2, <3>1 DEF StatusOf, Ids
  <2> QED
    BY <2>1, <2>2
<1>4. Status' = Queue!Move(First..Last, "lost")
  BY <1>3, QueuedBatch, StatusMove DEF ReadReplyLost
<1>5. First..Last \in SUBSET (Queue!Having("queued") \cup Queue!Having("taken"))
  BY QueuedBatch, HavingStatus DEF ReadReplyLost
<1> QED
  BY <1>4, <1>5 DEF Queue!Drop

\* Creating the group at "$" forgets whatever was published before.
LEMMA EnsureGroupRefines ==
  ASSUME IInv, NEW w \in Workers, EnsureGroup(w)
  PROVE  Queue!Drop \/ UNCHANGED Status
<1> USE BusAssumption, Delivered DEF BusAssumption
<1>1. /\ UNCHANGED <<len, trimmed, finished>>
      /\ \A v \in Workers : Held(v)' = Held(v)
  BY DEF EnsureGroup, batches, history, Held
<1>2. CASE group = "present"
  BY <1>1, <1>2, StatusSame DEF EnsureGroup, StatusOf
<1>3. CASE group # "present"
  <2> DEFINE S == Queue!Having("queued")
  <2>1. cursor' = len
    BY <1>3 DEF EnsureGroup
  <2>2. \A i \in Ids : StatusOf(i)' = IF i \in S THEN "lost" ELSE StatusOf(i)
    BY <1>1, <2>1, HavingStatus DEF StatusOf, Ids
  <2>3. S \in SUBSET Ids
    BY HavingStatus
  <2>4. Status' = Queue!Move(S, "lost")
    BY <2>2, <2>3, StatusMove
  <2> QED
    BY <2>4 DEF Queue!Drop
<1> QED
  BY <1>2, <1>3

\* An ack lets go of the current entry: a finished one stays done, one that
\* did not decode is gone.
LEMMA AckRefines ==
  ASSUME IInv, NEW w \in Workers, SkipMalformed(w) \/ Ack(w)
  PROVE  Queue!Drop \/ UNCHANGED Status
<1> USE BusAssumption, Delivered DEF BusAssumption
<1>1. /\ pos[w] \in Held(w) /\ pos[w] \in Ids /\ pos[w] <= cursor
      /\ \A v \in Workers \ {w} : pos[w] \notin Held(v)
  BY CurrentEntry DEF SkipMalformed, Ack
<1>2. PICK k \in Ids : k = pos[w]
  BY <1>1
<1>3. /\ UNCHANGED <<len, trimmed, cursor, finished>>
      /\ Held(w)' = Held(w) \ {k}
      /\ \A v \in Workers \ {w} : Held(v)' = Held(v)
  BY <1>2 DEF SkipMalformed, Ack, AckCurrent, history, Held, IInv, TypeOK
<1>4. ASSUME NEW i \in Ids, i # k PROVE StatusOf(i)' = StatusOf(i)
  <2>1. (\E v \in Workers : i \in Held(v)') <=> (\E v \in Workers : i \in Held(v))
    BY <1>3, <1>4
  <2> QED
    BY <1>3, <2>1 DEF StatusOf
<1>5. CASE k \in finished
  <2>1. StatusOf(k)' = StatusOf(k)
    BY <1>1, <1>2, <1>3, <1>5 DEF StatusOf, Ids
  <2> QED
    BY <1>4, <2>1, StatusSame
<1>6. CASE k \notin finished
  <2>1. StatusOf(k)' = "lost" /\ StatusOf(k) = "taken"
    BY <1>1, <1>2, <1>3, <1>6 DEF StatusOf, Ids
  <2>2. Status' = Queue!Move({k}, "lost")
    BY <1>4, <2>1, StatusMove
  <2>3. {k} \in SUBSET (Queue!Having("queued") \cup Queue!Having("taken"))
    BY <2>1, HavingStatus
  <2> QED
    BY <2>2, <2>3 DEF Queue!Drop
<1> QED
  BY <1>5, <1>6

\* The end of a loop body finishes the entry at which the worker is.
LEMMA HandleRefines ==
  ASSUME IInv, NEW w \in Workers, Handle(w) PROVE Queue!Finish
<1> USE BusAssumption, Delivered DEF BusAssumption
<1>1. /\ pos[w] \in Held(w) /\ pos[w] \in Ids /\ pos[w] <= cursor
      /\ pos[w] \notin finished
  BY CurrentEntry DEF Handle, IInv, BatchInv
<1>2. /\ UNCHANGED <<len, trimmed, cursor>> /\ finished' = finished \cup {pos[w]}
      /\ \A v \in Workers : Held(v)' = Held(v)
  BY DEF Handle, redis, batches, Held
<1>3. \A i \in Ids : StatusOf(i)' = IF i \in {pos[w]} THEN "done" ELSE StatusOf(i)
  BY <1>1, <1>2 DEF StatusOf, Ids
<1>4. Status' = Queue!Move({pos[w]}, "done")
  BY <1>1, <1>3, StatusMove
<1>5. pos[w] \in Queue!Having("taken")
  BY <1>1, HavingStatus DEF StatusOf, Ids
<1> QED
  BY <1>4, <1>5 DEF Queue!Finish

\* A crash drops the batch of the worker, but for what it finished.
LEMMA CrashRefines == ASSUME IInv, NEW w \in Workers, Crash(w) PROVE Queue!Drop
<1> USE BusAssumption, Delivered DEF BusAssumption
<1>1. /\ UNCHANGED <<len, trimmed, cursor, finished>>
      /\ Held(w)' = {}
      /\ \A v \in Workers \ {w} : Held(v)' = Held(v)
  BY DEF Crash, redis, history, Held, IInv, TypeOK
<1>2. \A v \in Workers \ {w} : Held(v) \cap Held(w) = {}
  BY DEF IInv, ExclusiveBatches
<1> DEFINE S == {i \in Held(w) : i \notin finished}
<1>3. S \in SUBSET Ids /\ \A i \in S : StatusOf(i) = "taken" /\ StatusOf(i)' = "lost"
  BY <1>1, <1>2 DEF StatusOf, Ids
<1>4. ASSUME NEW i \in Ids, i \notin S PROVE StatusOf(i)' = StatusOf(i)
  <2>1. CASE i \in finished
    BY <1>1, <2>1 DEF StatusOf
  <2>2. CASE i \notin finished
    <3>1. i \notin Held(w)
      BY <1>4, <2>2
    <3>2. (\E v \in Workers : i \in Held(v)') <=> (\E v \in Workers : i \in Held(v))
      BY <1>1, <3>1
    <3> QED
      BY <1>1, <3>2 DEF StatusOf
  <2> QED
    BY <2>1, <2>2
<1>5. Status' = Queue!Move(S, "lost")
  <2>1. \A i \in Ids : StatusOf(i)' = IF i \in S THEN "lost" ELSE StatusOf(i)
    BY <1>3, <1>4
  <2>2. S \in SUBSET Ids
    BY <1>3
  <2> HIDE DEF S
  <2> QED
    BY <2>1, <2>2, StatusMove
<1>6. S \in SUBSET (Queue!Having("queued") \cup Queue!Having("taken"))
  BY <1>3, HavingStatus
<1> QED
  BY <1>5, <1>6 DEF Queue!Drop

\* The abstract queue does not see the other steps.
LEMMA SilentSteps ==
  ASSUME UNCHANGED <<redis, batches, finished>>
  PROVE  UNCHANGED Status
BY DEF redis, batches, Status, StatusOf, Held

\* The bus implements LossyQueue under the mapping Status: nothing is handed
\* out twice, nothing overtakes, nothing returns from done or lost.
THEOREM ImplementsLossyQueue == Spec => QueueSpec
<1>1. Init => Queue!Init
  <2> SUFFICES ASSUME Init PROVE Queue!Init
    OBVIOUS
  <2>1. \A i \in Ids : StatusOf(i) = "unsent"
    BY BusAssumption DEF BusAssumption, Init, StatusOf, Ids
  <2> QED
    BY <2>1 DEF Queue!Init, Queue!Msgs, Status, Ids
<1>2. IInv /\ [Next]_vars => [Queue!Next]_Status
  <2> SUFFICES ASSUME IInv, [Next]_vars PROVE [Queue!Next]_Status
    OBVIOUS
  <2>1. CASE Publish
    BY <2>1, PublishRefines DEF Queue!Next
  <2>2. ASSUME NEW w \in Workers, EnsureGroup(w) PROVE [Queue!Next]_Status
    BY <2>2, EnsureGroupRefines DEF Queue!Next
  <2>3. ASSUME NEW w \in Workers, Read(w) PROVE [Queue!Next]_Status
    BY <2>3, ReadRefines DEF Queue!Next
  <2>4. ASSUME NEW w \in Workers, ReadReplyLost(w) PROVE [Queue!Next]_Status
    BY <2>4, ReplyLostRefines DEF Queue!Next
  <2>5. ASSUME NEW w \in Workers, SkipMalformed(w) \/ Ack(w)
        PROVE  [Queue!Next]_Status
    BY <2>5, AckRefines DEF Queue!Next
  <2>6. ASSUME NEW w \in Workers, Handle(w) PROVE [Queue!Next]_Status
    BY <2>6, HandleRefines DEF Queue!Next
  <2>7. ASSUME NEW w \in Workers, Crash(w) PROVE [Queue!Next]_Status
    BY <2>7, CrashRefines DEF Queue!Next
  <2>8. ASSUME NEW w \in Workers, Yield(w) \/ Restart(w) PROVE UNCHANGED Status
    BY <2>8, SilentSteps DEF Yield, Restart, history
  <2>9. CASE UNCHANGED vars
    BY <2>9, SilentSteps DEF vars, history
  <2> QED
    BY <2>1, <2>2, <2>3, <2>4, <2>5, <2>6, <2>7, <2>8, <2>9 DEF Next, Consume
<1> QED
  BY <1>1, <1>2, Invariance, PTL DEF Spec, QueueSpec, Queue!Spec
=============================================================================
