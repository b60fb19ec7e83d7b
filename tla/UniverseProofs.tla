--------------------------- MODULE UniverseProofs ---------------------------
(***************************************************************************)
(* Proofs about Universe for any number of bootstrap loops and tokens, any *)
(* listings, scores and failures: type correctness, and tiers that the     *)
(* consolidation never raises above what the scores give.                  *)
(***************************************************************************)
EXTENDS Universe, TLAPS

\* A row, committed or not, that the consolidation owes to a score.
Below(r, t) == r.by = "score" => r.tier <= tier(Value(t))

\* The consolidation acts on what it read: between the reading of a score and
\* the commit, and after it, the score can only have been raised.
RowsBelow == \A t \in Tokens \ expired : row[t] # None => Below(row[t], t)
WritesBelow == \A p \in Jobs : \A t \in Tokens \ expired : tx[p][t] # None => Below(tx[p][t], t)
ReadsBelow ==
  \A p \in Jobs : pc[p] = "write" /\ cur[p].token \notin expired => Below(cur[p], cur[p].token)

IInv == TypeOK /\ RowsBelow /\ WritesBelow /\ ReadsBelow

\* A listing's signals can be upserted.
LEMMA SignalsTyped ==
  ASSUME NEW l, NEW s \in Signals(l)
  PROVE  s.token \in Tokens /\ s.delta \in Nat /\ s.hint \in 1..3
<1>1. s.token \in Tokens /\ s.delta \in Deltas /\ s.hint \in 1..3
  <2>1. CASE l = "dexscreener"
    <3>1. PICK x \in Tokens, d \in Deltas :
            s = [token |-> x, delta |-> d, hint |-> IF d >= Active THEN 2 ELSE 1]
      BY <2>1 DEF Signals
    <3> QED
      BY <3>1
  <2>2. CASE l # "dexscreener"
    <3>1. s \in [token : Tokens, delta : Deltas, hint : {1, 3}]
      BY <2>2 DEF Signals
    <3> QED
      BY <3>1
  <2> QED
    BY <2>1, <2>2
<1> QED
  BY <1>1, UniverseAssumption DEF UniverseAssumption

\* Scores and tiers.
LEMMA TierType == \A n \in Nat : tier(n) \in 1..3
BY DEF tier

\* A higher score has no lower tier.
LEMMA TierMonotonic ==
  ASSUME NEW m \in Nat, NEW n \in Nat, m <= n PROVE tier(m) <= tier(n)
BY UniverseAssumption DEF tier, UniverseAssumption

\* A score that is read is a number, 0 when it has expired.
LEMMA ValueType == ASSUME TypeOK, NEW t \in Tokens PROVE Value(t) \in Nat
BY DEF TypeOK, Value

\* Nothing is stored.
THEOREM InitIInv == Init => IInv
<1> SUFFICES ASSUME Init PROVE IInv
  OBVIOUS
<1> USE UniverseAssumption DEF UniverseAssumption, Init, NoRows
<1>1. TypeOK
  BY DEF TypeOK
<1>2. RowsBelow /\ WritesBelow
  BY DEF RowsBelow, WritesBelow, Below
<1>3. ReadsBelow
  BY DEF ReadsBelow
<1> QED
  BY <1>1, <1>2, <1>3 DEF IInv

\* A loop that has taken in every signal goes on to the next listing.
LEMMA AfterStep ==
  ASSUME TypeOK, NEW p \in Jobs, todo[p] = <<>>, todo' = todo,
         stage' = [stage EXCEPT ![p] = After(stage[p])]
  PROVE  /\ stage' \in [Jobs -> {"dexscreener", "gecko", "consolidate"}]
         /\ \A q \in Jobs : todo'[q] \in Seq(Signals(stage'[q]))
<1>1. stage \in [Jobs -> {"dexscreener", "gecko", "consolidate"}]
      /\ \A q \in Jobs : todo[q] \in Seq(Signals(stage[q]))
  BY DEF TypeOK
<1>2. After(stage[p]) \in {"dexscreener", "gecko", "consolidate"}
  BY DEF After
<1>3. \A S : <<>> \in Seq(S)
  OBVIOUS
<1>4. ASSUME NEW q \in Jobs PROVE todo'[q] \in Seq(Signals(stage'[q]))
  BY <1>1, <1>3
<1> QED
  BY <1>1, <1>2, <1>4

\* Type correctness, one action after another.
LEMMA TypeStep == ASSUME TypeOK, [Next]_vars PROVE TypeOK'
<1> USE DEF TypeOK, redis, local, bounds, Goto, NoRows
<1>1. ASSUME NEW p \in Jobs, Begin(p) PROVE TypeOK'
  BY <1>1 DEF Begin
<1>2. ASSUME NEW p \in Jobs, List(p) PROVE TypeOK'
  <2>1. PICK n \in 0..MaxBatch :
          /\ signals + n <= MaxSignals /\ signals' = signals + n
          /\ \E ss \in [1..n -> Signals(stage[p])] :
               IF n = 0
               THEN stage' = [stage EXCEPT ![p] = After(@)] /\ UNCHANGED <<pc, todo>>
               ELSE todo' = [todo EXCEPT ![p] = ss] /\ Goto(p, "run") /\ UNCHANGED stage
    BY <1>2 DEF List
  <2>2. PICK ss \in [1..n -> Signals(stage[p])] :
          IF n = 0
          THEN stage' = [stage EXCEPT ![p] = After(@)] /\ UNCHANGED <<pc, todo>>
          ELSE todo' = [todo EXCEPT ![p] = ss] /\ Goto(p, "run") /\ UNCHANGED stage
    BY <2>1
  <2>3. pc[p] = "list" /\ UNCHANGED <<redis, row, left, cur, tx, upsets>>
    BY <1>2 DEF List
  <2>4. signals' \in 0..MaxSignals
    BY <2>1, UniverseAssumption DEF UniverseAssumption
  <2>5. CASE n = 0
    <3>1. stage' = [stage EXCEPT ![p] = After(stage[p])] /\ pc' = pc /\ todo' = todo
      BY <2>2, <2>5
    <3>2. todo[p] = <<>> /\ stage[p] \in {"dexscreener", "gecko", "consolidate"}
      BY <2>3
    <3>3. stage' \in [Jobs -> {"dexscreener", "gecko", "consolidate"}]
          /\ \A q \in Jobs : todo'[q] \in Seq(Signals(stage'[q]))
      BY <3>1, <3>2, AfterStep
    <3> QED
      BY <2>3, <2>4, <3>1, <3>3
  <2>6. CASE n # 0
    <3>1. ss \in Seq(Signals(stage[p]))
      BY <2>1, UniverseAssumption DEF UniverseAssumption
    <3> QED
      BY <2>2, <2>3, <2>4, <2>6, <3>1
  <2> QED
    BY <2>5, <2>6
<1>3. ASSUME NEW p \in Jobs, Scan(p) PROVE TypeOK'
  BY <1>3 DEF Scan
<1>4. ASSUME NEW p \in Jobs, Bump(p) PROVE TypeOK'
  <2> DEFINE s == Head(todo[p])
  <2>1. /\ pc[p] = "run" /\ todo[p] # <<>>
        /\ score' = [score EXCEPT ![s.token] = Value(s.token) + s.delta]
        /\ cur' = [cur EXCEPT ![p] = [token |-> s.token, tier |-> s.hint, score |-> s.delta, by |-> "hint"]]
        /\ todo' = [todo EXCEPT ![p] = Tail(@)]
        /\ pc' = [pc EXCEPT ![p] = "write"]
        /\ UNCHANGED <<row, stage, left, tx, bounds, expired>>
    BY <1>4 DEF Bump
  <2>2. s \in Signals(stage[p]) /\ Tail(todo[p]) \in Seq(Signals(stage[p]))
    BY <2>1
  <2>3. s.token \in Tokens /\ s.delta \in Nat /\ s.hint \in 1..3
    BY <2>2, SignalsTyped
  <2>4. Value(s.token) + s.delta \in Nat
    BY <2>3, ValueType
  <2>5. [token |-> s.token, tier |-> s.hint, score |-> s.delta, by |-> "hint"] \in Upserts
    BY <2>3 DEF Upserts
  <2> HIDE DEF s
  <2> QED
    BY <2>1, <2>2, <2>3, <2>4, <2>5
<1>5. ASSUME NEW p \in Jobs, Read(p) PROVE TypeOK'
  <2>1. PICK i \in DOMAIN Keys :
          /\ Keys[i] \in left[p]
          /\ left' = [left EXCEPT ![p] = @ \ {Keys[i]}]
          /\ cur' = [cur EXCEPT ![p] = [token |-> Keys[i], tier |-> tier(Value(Keys[i])),
                                        score |-> Value(Keys[i]), by |-> "score"]]
    BY <1>5 DEF Read
  <2>2. /\ pc[p] = "run" /\ pc' = [pc EXCEPT ![p] = "write"]
        /\ UNCHANGED <<redis, row, stage, todo, tx, bounds>>
    BY <1>5 DEF Read
  <2>3. Keys[i] \in Tokens /\ Value(Keys[i]) \in Nat /\ tier(Value(Keys[i])) \in 1..3
    BY <2>1, ValueType, TierType
  <2>4. [token |-> Keys[i], tier |-> tier(Value(Keys[i])),
         score |-> Value(Keys[i]), by |-> "score"] \in Upserts
    BY <2>3 DEF Upserts
  <2> QED
    BY <2>1, <2>2, <2>4
<1>6. ASSUME NEW p \in Jobs, Write(p) PROVE TypeOK'
  <2> DEFINE new == [tier |-> cur[p].tier, score |-> cur[p].score, by |-> cur[p].by]
  <2>1. /\ pc[p] = "write" /\ tx' = [tx EXCEPT ![p][cur[p].token] = new]
        /\ cur' = [cur EXCEPT ![p] = None] /\ pc' = [pc EXCEPT ![p] = "run"]
        /\ UNCHANGED <<redis, row, stage, todo, left, bounds>>
    BY <1>6 DEF Write, Upserted
  <2>2. cur[p] \in Upserts
    BY <2>1
  <2>3. new \in Rows
    BY <2>2 DEF Rows, Upserts
  <2> HIDE DEF new
  <2> QED
    BY <2>1, <2>3
<1>7. ASSUME NEW p \in Jobs, Commit(p) PROVE TypeOK'
  <2>1. /\ pc[p] = "run" /\ todo[p] = <<>> /\ left[p] = {}
        /\ row' = [t \in Tokens |-> IF Holds(p, t) THEN tx[p][t] ELSE row[t]]
        /\ tx' = [tx EXCEPT ![p] = NoRows]
        /\ \/ pc' = [pc EXCEPT ![p] = "idle"] /\ UNCHANGED stage
           \/ pc' = [pc EXCEPT ![p] = "list"] /\ stage' = [stage EXCEPT ![p] = After(@)]
        /\ UNCHANGED <<redis, todo, left, cur, bounds>>
    BY <1>7 DEF Commit
  <2>2. row' \in [Tokens -> Rows \cup {None}]
    BY <2>1
  <2>3. stage' \in [Jobs -> {"dexscreener", "gecko", "consolidate"}]
        /\ \A q \in Jobs : todo'[q] \in Seq(Signals(stage'[q]))
    <3>1. todo' = todo
      BY <2>1
    <3>2. CASE stage' = [stage EXCEPT ![p] = After(stage[p])]
      BY <2>1, <3>1, <3>2, AfterStep
    <3>3. CASE stage' = stage
      BY <3>1, <3>3
    <3> QED
      BY <2>1, <3>2, <3>3
  <2> QED
    BY <2>1, <2>2, <2>3, ZenonT(60)
<1>8. ASSUME NEW p \in Jobs, GiveUp(p), upsets' \in 0..MaxUpsets PROVE TypeOK'
  BY <1>8 DEF GiveUp, Rollback
<1>9. ASSUME Upset PROVE upsets' \in 0..MaxUpsets
  BY <1>9, UniverseAssumption DEF Upset, UniverseAssumption
<1>10. ASSUME NEW t \in Tokens, NEW n \in 1..3, Promote(t, n) PROVE TypeOK'
  <2>1. [tier |-> n, score |-> Hot, by |-> "hand"] \in Rows
    BY UniverseAssumption DEF UniverseAssumption, Rows
  <2>2. /\ row' = [row EXCEPT ![t] = [tier |-> n, score |-> Hot, by |-> "hand"]]
        /\ UNCHANGED <<redis, local, tx, signals>> /\ upsets' \in 0..MaxUpsets
    BY <1>9, <1>10 DEF Promote, Upserted
  <2> QED
    BY <2>1, <2>2
<1>11. ASSUME NEW t \in Tokens, Expire(t) PROVE TypeOK'
  BY <1>9, <1>11 DEF Expire
<1>12. CASE UNCHANGED vars
  BY <1>12 DEF vars
<1>13. ASSUME NEW p \in Jobs, Fail(p) PROVE TypeOK'
  BY <1>8, <1>9, <1>13 DEF Fail
<1>14. ASSUME NEW p \in Jobs, Deadlock(p) PROVE TypeOK'
  BY <1>8, <1>14 DEF Deadlock
<1> QED
  BY <1>1, <1>2, <1>3, <1>4, <1>5, <1>6, <1>7, <1>10, <1>11, <1>12, <1>13, <1>14 DEF Next, Step

\* A score that has not expired is never lowered.
LEMMA ScoresGrow ==
  ASSUME TypeOK, [Next]_vars
  PROVE  /\ expired \subseteq expired'
         /\ \A t \in Tokens \ expired' : Value(t)' \in Nat /\ Value(t) <= Value(t)'
<1> SUFFICES /\ expired \subseteq expired'
             /\ \A t \in Tokens \ expired' : Value(t) <= Value(t)'
  BY TypeStep, ValueType DEF TypeOK, Value
<1>1. ASSUME NEW p \in Jobs, Bump(p)
      PROVE  expired' = expired /\ \A t \in Tokens : Value(t) <= Value(t)'
  <2> DEFINE s == Head(todo[p])
  <2>1. /\ todo[p] # <<>> /\ expired' = expired
        /\ score' = [score EXCEPT ![s.token] = Value(s.token) + s.delta]
    BY <1>1 DEF Bump
  <2>2. s \in Signals(stage[p])
    BY <2>1 DEF TypeOK
  <2>3. s.token \in Tokens /\ s.delta \in Nat
    BY <2>2, SignalsTyped
  <2> HIDE DEF s
  <2>4. ASSUME NEW t \in Tokens PROVE Value(t) <= Value(t)'
    <3>1. CASE t = s.token
      <4>1. score'[t] = Value(t) + s.delta /\ Value(t) \in Nat
        BY <2>1, <2>3, <3>1, ValueType DEF TypeOK
      <4>2. Value(t)' = Value(t) + s.delta
        BY <2>3, <4>1, UniverseAssumption DEF Value, UniverseAssumption
      <4> QED
        BY <2>3, <4>1, <4>2
    <3>2. CASE t # s.token
      <4>1. score'[t] = score[t]
        BY <2>1, <3>2 DEF TypeOK
      <4>2. Value(t)' = Value(t)
        BY <4>1 DEF Value
      <4> QED
        BY <4>2, ValueType
    <3> QED
      BY <3>1, <3>2
  <2> QED
    BY <2>1, <2>4
<1>2. ASSUME NEW t \in Tokens, Expire(t)
      PROVE  expired \subseteq expired' /\ \A x \in Tokens \ expired' : Value(x) <= Value(x)'
  <2>1. expired' = expired \cup {t} /\ score' = [score EXCEPT ![t] = None]
    BY <1>2 DEF Expire
  <2>2. ASSUME NEW x \in Tokens \ expired' PROVE Value(x) <= Value(x)'
    <3>1. score'[x] = score[x]
      BY <2>1 DEF TypeOK
    <3>2. Value(x)' = Value(x)
      BY <3>1 DEF Value
    <3> QED
      BY <3>2, ValueType
  <2> QED
    BY <2>1, <2>2
<1>3. ASSUME UNCHANGED redis
      PROVE  expired' = expired /\ \A t \in Tokens : Value(t) <= Value(t)'
  BY <1>3, ValueType DEF redis, Value
<1>4. ASSUME NEW p \in Jobs, (Step(p) \/ Fail(p)) /\ ~Bump(p) PROVE UNCHANGED redis
  BY <1>4 DEF Step, Begin, List, Scan, Read, Write, Commit, Deadlock, Fail, GiveUp
<1>5. ASSUME NEW t \in Tokens, NEW n \in 1..3, Promote(t, n) PROVE UNCHANGED redis
  BY <1>5 DEF Promote
<1>6. CASE UNCHANGED vars
  BY <1>3, <1>6 DEF vars
<1>7. ASSUME NEW p \in Jobs, Step(p) \/ Fail(p)
      PROVE  expired' = expired /\ \A t \in Tokens : Value(t) <= Value(t)'
  BY <1>1, <1>3, <1>4, <1>7
<1> QED
  BY <1>2, <1>3, <1>5, <1>6, <1>7 DEF Next

\* What was below a score's tier stays below it, until the score expires.
LEMMA BelowStays ==
  ASSUME TypeOK, [Next]_vars, NEW t \in Tokens \ expired', NEW r, Below(r, t), r.tier \in 1..3
  PROVE  r.by = "score" => r.tier <= tier(Value(t)')
<1> SUFFICES ASSUME r.by = "score" PROVE r.tier <= tier(Value(t)')
  OBVIOUS
<1>1. Value(t) \in Nat /\ Value(t)' \in Nat /\ Value(t) <= Value(t)'
  BY ScoresGrow, ValueType
<1> DEFINE v == Value(t)
           w == Value(t)'
<1>2. r.tier <= tier(v) /\ r.tier \in 1..3
  BY DEF Below
<1> HIDE DEF v, w
<1>3. tier(v) <= tier(w) /\ tier(v) \in 1..3 /\ tier(w) \in 1..3
  BY <1>1, TierMonotonic, TierType DEF v, w
<1>4. r.tier <= tier(w)
  BY <1>2, <1>3
<1> QED
  BY <1>4 DEF w

\* Where the rows of the next state come from.
LEMMA RowsFrom ==
  ASSUME TypeOK, [Next]_vars, NEW t \in Tokens
  PROVE  \/ row'[t] = row[t]
         \/ \E p \in Jobs : row'[t] = tx[p][t]
         \/ row'[t].by = "hand"
<1>1. ASSUME NEW p \in Jobs, Commit(p)
      PROVE  row'[t] = row[t] \/ row'[t] = tx[p][t]
  <2>1. row' = [x \in Tokens |-> IF Holds(p, x) THEN tx[p][x] ELSE row[x]]
    BY <1>1 DEF Commit
  <2> QED
    BY <2>1
<1>2. ASSUME NEW p \in Jobs, (Step(p) \/ Fail(p)) /\ ~Commit(p) PROVE row' = row
  BY <1>2 DEF Step, Begin, List, Scan, Bump, Read, Write, Deadlock, Fail, GiveUp
<1>3. ASSUME NEW x \in Tokens, NEW n \in 1..3, Promote(x, n)
      PROVE  row'[t] = row[t] \/ row'[t] = [tier |-> n, score |-> Hot, by |-> "hand"]
  BY <1>3 DEF Promote, Upserted, TypeOK
<1>4. ASSUME NEW x \in Tokens, Expire(x) PROVE row' = row
  BY <1>4 DEF Expire
<1>5. CASE UNCHANGED vars
  BY <1>5 DEF vars
<1> QED
  BY <1>1, <1>2, <1>3, <1>4, <1>5 DEF Next

\* A row that is committed comes from a transaction, or from the API.
LEMMA RowsStep == ASSUME IInv, [Next]_vars PROVE RowsBelow'
<1> SUFFICES ASSUME NEW t \in Tokens \ expired'
             PROVE  row'[t] # None /\ row'[t].by = "score" => row'[t].tier <= tier(Value(t)')
  BY DEF RowsBelow, Below
<1>1. TypeOK /\ t \in Tokens \ expired
  BY ScoresGrow DEF IInv
<1>2. /\ row[t] # None => Below(row[t], t)
      /\ \A p \in Jobs : tx[p][t] # None => Below(tx[p][t], t)
  BY <1>1 DEF IInv, RowsBelow, WritesBelow
<1>3. /\ row[t] # None => row[t].tier \in 1..3
      /\ \A p \in Jobs : tx[p][t] # None => tx[p][t].tier \in 1..3
  BY <1>1 DEF TypeOK, Rows
<1>4. CASE row'[t] = row[t]
  BY <1>1, <1>2, <1>3, <1>4, BelowStays
<1>5. ASSUME NEW p \in Jobs, row'[t] = tx[p][t]
      PROVE  row'[t] # None /\ row'[t].by = "score" => row'[t].tier <= tier(Value(t)')
  BY <1>1, <1>2, <1>3, <1>5, BelowStays
<1>6. CASE row'[t].by = "hand"
  BY <1>6
<1> QED
  BY <1>1, <1>4, <1>5, <1>6, RowsFrom

\* A row that is written is what was read or hinted at.
LEMMA WritesStep == ASSUME IInv, [Next]_vars PROVE WritesBelow'
<1> SUFFICES ASSUME NEW p \in Jobs, NEW t \in Tokens \ expired'
             PROVE  tx'[p][t] # None /\ tx'[p][t].by = "score" => tx'[p][t].tier <= tier(Value(t)')
  BY DEF WritesBelow, Below
<1>1. TypeOK /\ t \in Tokens \ expired
  BY ScoresGrow DEF IInv
<1>2. tx[p][t] # None => tx[p][t].tier \in 1..3
  BY <1>1 DEF TypeOK, Rows
<1>3. CASE tx'[p][t] = tx[p][t]
  BY <1>1, <1>2, <1>3, BelowStays DEF IInv, WritesBelow
<1>4. CASE tx'[p][t] = None
  BY <1>4
<1>5. CASE /\ pc[p] = "write" /\ cur[p].token = t
           /\ tx'[p][t] = [tier |-> cur[p].tier, score |-> cur[p].score, by |-> cur[p].by]
  <2>1. cur[p] \in Upserts
    BY <1>1, <1>5 DEF TypeOK
  <2>2. Below(cur[p], t) /\ cur[p].tier \in 1..3
    BY <1>1, <1>5, <2>1 DEF IInv, ReadsBelow, Upserts
  <2>3. cur[p].by = "score" => cur[p].tier <= tier(Value(t)')
    BY <1>1, <2>2, BelowStays
  <2>4. tx'[p][t].by = cur[p].by /\ tx'[p][t].tier = cur[p].tier
    BY <1>5
  <2> QED
    BY <2>3, <2>4
<1>6. ASSUME NEW q \in Jobs, Write(q)
      PROVE  \/ tx'[p][t] = tx[p][t]
             \/ /\ pc[p] = "write" /\ cur[p].token = t
                /\ tx'[p][t] = [tier |-> cur[p].tier, score |-> cur[p].score, by |-> cur[p].by]
  <2>1. /\ pc[q] = "write"
        /\ tx' = [tx EXCEPT ![q][cur[q].token] =
                    [tier |-> cur[q].tier, score |-> cur[q].score, by |-> cur[q].by]]
    BY <1>6 DEF Write, Upserted
  <2> QED
    BY <1>1, <2>1 DEF TypeOK
<1>7. ASSUME NEW q \in Jobs, Commit(q) \/ GiveUp(q)
      PROVE  tx'[p][t] = tx[p][t] \/ tx'[p][t] = None
  <2>1. tx' = [tx EXCEPT ![q] = NoRows]
    BY <1>7 DEF Commit, GiveUp, Rollback
  <2> QED
    BY <1>1, <2>1 DEF TypeOK, NoRows
<1>8. ASSUME NEW q \in Jobs, Begin(q) \/ List(q) \/ Scan(q) \/ Bump(q) \/ Read(q)
      PROVE  tx' = tx
  BY <1>8 DEF Begin, List, Scan, Bump, Read
<1>9. ASSUME NEW x \in Tokens, Expire(x) \/ \E n \in 1..3 : Promote(x, n) PROVE tx' = tx
  BY <1>9 DEF Expire, Promote
<1>10. CASE UNCHANGED vars
  BY <1>3, <1>10 DEF vars
<1> QED
  BY <1>3, <1>4, <1>5, <1>6, <1>7, <1>8, <1>9, <1>10 DEF Next, Step, Fail, Deadlock

\* What is to be written is a hint, or the score that was just read.
LEMMA ReadsStep == ASSUME IInv, [Next]_vars PROVE ReadsBelow'
<1> SUFFICES ASSUME NEW p \in Jobs, NEW t, pc'[p] = "write", t = cur'[p].token,
                    t \notin expired'
             PROVE  cur'[p].by = "score" => cur'[p].tier <= tier(Value(t)')
  BY DEF ReadsBelow, Below
<1>1. TypeOK /\ cur'[p] \in Upserts
  BY TypeStep DEF IInv, TypeOK
<1>2. t \in Tokens \ expired' /\ t \in Tokens \ expired
  BY <1>1, ScoresGrow DEF Upserts
<1>3. CASE cur'[p] = cur[p] /\ pc[p] = "write"
  <2>1. cur[p] \in Upserts /\ Below(cur[p], t)
    BY <1>2, <1>3, <1>1 DEF IInv, ReadsBelow
  <2> QED
    BY <1>1, <1>2, <1>3, <2>1, BelowStays DEF Upserts
<1>4. CASE cur'[p].by = "hint"
  BY <1>4
<1>5. CASE cur'[p].tier = tier(Value(t)) /\ score' = score
  BY <1>5, <1>2, ValueType, TierType, <1>1 DEF Value
<1>6. ASSUME NEW q \in Jobs, Bump(q)
      PROVE  cur'[p].by = "hint" \/ (cur'[p] = cur[p] /\ pc[p] = "write")
  <2>1. /\ cur' = [cur EXCEPT ![q] = [token |-> Head(todo[q]).token, tier |-> Head(todo[q]).hint,
                                      score |-> Head(todo[q]).delta, by |-> "hint"]]
        /\ pc' = [pc EXCEPT ![q] = "write"]
    BY <1>6 DEF Bump, Goto
  <2> QED
    BY <1>1, <2>1 DEF TypeOK
<1>7. ASSUME NEW q \in Jobs, Read(q)
      PROVE  (cur'[p].tier = tier(Value(t)) /\ score' = score) \/ (cur'[p] = cur[p] /\ pc[p] = "write")
  <2>1. PICK i \in DOMAIN Keys :
          cur' = [cur EXCEPT ![q] = [token |-> Keys[i], tier |-> tier(Value(Keys[i])),
                                     score |-> Value(Keys[i]), by |-> "score"]]
    BY <1>7 DEF Read
  <2>2. pc' = [pc EXCEPT ![q] = "write"] /\ score' = score
    BY <1>7 DEF Read, Goto, redis
  <2>3. CASE q = p
    <3>1. cur'[p] = [token |-> Keys[i], tier |-> tier(Value(Keys[i])),
                     score |-> Value(Keys[i]), by |-> "score"]
      BY <1>1, <2>1, <2>3 DEF TypeOK
    <3> QED
      BY <2>2, <3>1
  <2>4. CASE q # p
    BY <1>1, <2>1, <2>2, <2>4 DEF TypeOK
  <2> QED
    BY <2>3, <2>4
<1>8. ASSUME NEW q \in Jobs,
             Begin(q) \/ List(q) \/ Scan(q) \/ Write(q) \/ Commit(q) \/ GiveUp(q)
      PROVE  cur'[p] = cur[p] /\ pc[p] = "write"
  <2>1. /\ cur' = cur \/ (cur' = [cur EXCEPT ![q] = None] /\ pc'[q] # "write")
        /\ pc' = pc \/ \E l \in {"idle", "list", "run"} : pc' = [pc EXCEPT ![q] = l]
    BY <1>8, <1>1 DEF Begin, List, Scan, Write, Commit, GiveUp, Goto, local, TypeOK
  <2> QED
    BY <1>1, <2>1 DEF TypeOK
<1>9. ASSUME NEW x \in Tokens, Expire(x) \/ \E n \in 1..3 : Promote(x, n)
      PROVE  cur'[p] = cur[p] /\ pc[p] = "write"
  BY <1>9 DEF Expire, Promote, local
<1>10. CASE UNCHANGED vars
  BY <1>3, <1>10 DEF vars, local
<1> QED
  BY <1>3, <1>4, <1>5, <1>6, <1>7, <1>8, <1>9, <1>10 DEF Next, Step, Fail, Deadlock

\* The inductive invariant is kept by every step.
LEMMA StepIInv == IInv /\ [Next]_vars => IInv'
BY TypeStep, RowsStep, WritesStep, ReadsStep DEF IInv

\* The invariant holds in every behaviour.
THEOREM Invariance == Spec => []IInv
BY InitIInv, StepIInv, PTL DEF Spec

\* Every variable keeps its type.
THEOREM TypeCorrect == Spec => []TypeOK
BY Invariance, PTL DEF IInv

\* The consolidation never leaves a tier above what the score gives.
THEOREM TiersAreGrounded == Spec => []TierGrounded
<1>1. IInv => TierGrounded
  <2> SUFFICES ASSUME IInv, NEW t \in Tokens \ expired,
                      row[t] # None, row[t].tier > tier(Value(t)), row[t].by = "score"
               PROVE  FALSE
    BY DEF TierGrounded
  <2>1. row[t].tier <= tier(Value(t)) /\ row[t].tier \in 1..3 /\ tier(Value(t)) \in 1..3
    BY ValueType, TierType DEF IInv, RowsBelow, Below, TypeOK, Rows
  <2> QED
    BY <2>1
<1> QED
  BY <1>1, Invariance, PTL
=============================================================================
