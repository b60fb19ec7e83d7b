------------------------- MODULE PoolTrackerProofs --------------------------
(***************************************************************************)
(* Proofs about PoolTracker for any number of watchers and refreshers, any *)
(* history of the pool and any number of faults: type correctness, the     *)
(* snapshot that shows the pool once its writers have caught up, and moves *)
(* that two trackers cannot mask from the scanners.                        *)
(***************************************************************************)
EXTENDS PoolTracker, FiniteSetTheorems, TLAPS

\* A writer holds a state worth writing from the read on; which loops run
\* for which kind of pool; a delta is published after its snapshot is written.
StageInv ==
  \A u \in Writers :
    /\ pc[u] \in {"read", "write", "publish"} => cur[u] # 0
    /\ pc[u] = "publish" => cur[u] \in written /\ wrote[u] = cur[u]
    /\ pc[u] = "liquidity" => u \in Refreshers /\ kind = "v3"
    /\ pc[u] = "dead" => u \in Watchers
    /\ u \in Watchers /\ kind = "v3" =>
         pc[u] = "idle" /\ wrote[u] = 0 /\ u \notin live /\ due[u] = {}
    /\ u \in Refreshers /\ ~Refreshed => pc[u] = "idle" /\ wrote[u] = 0

\* The snapshot is what some writer wrote last, and no writer wrote nothing.
LastInv ==
  /\ hot = 0 => \A u \in Writers : wrote[u] = 0
  /\ hot # 0 => \E u \in Writers : wrote[u] = hot

\* A v3 pool's liquidity is asked for after its price and is no older.
DepthInv ==
  kind = "v3" =>
    /\ hot <= depth
    /\ \A r \in Refreshers : pc[r] \in {"read", "write"} => cur[r] <= liq[r]

\* A watcher is still to hear of the newest state, is at it, has lost it or
\* has written it, unless it is one that updates drop.
HeardInv ==
  kind # "v3" => \A w \in Watchers :
    \/ chain \in Dropped \/ chain \in due[w]
    \/ pc[w] \notin {"idle", "dead"} /\ cur[w] = chain
    \/ lost[w] = chain \/ wrote[w] = chain

\* A watcher writes states in the order in which they were: it takes its
\* notifications one by one, or asks for the state of now.
OrderInv ==
  \A w \in Watchers :
    /\ pc[w] \in {"read", "write"} => wrote[w] <= cur[w]
    /\ kind # "vaults" =>
         /\ pc[w] # "fetch"
         /\ \A v \in due[w] :
              wrote[w] < v /\ (pc[w] \in {"read", "write"} => cur[w] < v)

\* What a snapshot shows, and what a writer read of it, has been written.
SeenInv ==
  /\ hot \in written \cup {0}
  /\ \A u \in Writers : prev[u] \in written \cup {0}

IInv ==
  /\ TypeOK /\ StageInv /\ LastInv /\ DepthInv /\ HeardInv /\ OrderInv
  /\ SeenInv /\ MovesTold
-----------------------------------------------------------------------------
\* A set of natural numbers that is not empty has a least element.
LEMMA LeastExists ==
  ASSUME NEW S \in SUBSET Nat, S # {}
  PROVE  Min(S) \in S /\ \A n \in S : Min(S) <= n
<1>1. IsWellFoundedOn({ss \in Nat \X Nat : ss[1] < ss[2]}, Nat)
  BY NatLessThanWellFounded DEF OpToRel
<1>2. PICK m \in S :
        \A n \in S : <<n, m>> \notin {ss \in Nat \X Nat : ss[1] < ss[2]}
  BY <1>1, WFMin
<1>3. \A n \in S : ~ n < m
  BY <1>2
<1>4. \E k \in S : \A n \in S : k <= n
  BY <1>3
<1> QED
  BY <1>4 DEF Min

\* A bounded one has a greatest.
LEMMA GreatestExists ==
  ASSUME NEW n \in Nat, NEW S \in SUBSET (0..n), S # {}
  PROVE  Max(S) \in S /\ \A m \in S : m <= Max(S)
<1> DEFINE T == {n - m : m \in S}
<1>1. T \in SUBSET Nat /\ T # {}
  <2>1. ASSUME NEW m \in S PROVE n - m \in Nat
    <3>1. m \in Int /\ m <= n
      OBVIOUS
    <3> QED
      BY ONLY <3>1, n \in Nat, SMT
  <2>2. PICK m : m \in S
    OBVIOUS
  <2>3. n - m \in T
    BY <2>2
  <2> QED
    BY <2>1, <2>3, Zenon
<1>2. Min(T) \in T /\ \A t \in T : Min(T) <= t
  <2> HIDE DEF T
  <2> QED
    BY <1>1, LeastExists
<1>3. PICK x \in S : Min(T) = n - x
  BY <1>2
<1>4. ASSUME NEW m \in S PROVE m <= x
  <2>1. n - m \in T
    BY <1>4
  <2>2. n - x <= n - m
    BY <1>2, <1>3, <2>1
  <2> QED
    BY <2>2
<1>5. \E y \in S : \A m \in S : y >= m
  BY <1>4
<1> QED
  BY <1>5 DEF Max

\* Nothing is handled, written or lost before the pool has changed.
THEOREM InitIInv == Init => IInv
<1> SUFFICES ASSUME Init PROVE IInv
  OBVIOUS
<1>1. blocked \in BOOLEAN
  BY Zenon DEF Init
<1>2. TypeOK
  BY <1>1, TrackerAssumption DEF TrackerAssumption, Init, TypeOK, Vers
<1> QED
  BY <1>2
     DEF Init, IInv, StageInv, LastInv, DepthInv, HeardInv, OrderInv, SeenInv, MovesTold,
         Dropped, Writers
-----------------------------------------------------------------------------
\* The step of the pool itself.
LEMMA ChainMovesStep == ASSUME IInv, ChainMoves PROVE IInv'
<1> USE TrackerAssumption DEF TrackerAssumption, fixed, snapshot, locals
<1>1. TypeOK /\ chain' = chain + 1 /\ chain' \in Nat /\ chain \in Nat
  BY DEF IInv, TypeOK, ChainMoves, Vers
<1>2. TypeOK'
  <2>1. 0..chain \subseteq 0..chain' /\ 1..chain \subseteq 1..chain' /\ chain' \in 0..chain'
    BY <1>1
  <2>2. due' \in [Watchers -> SUBSET (1..chain')]
    BY <1>1, <2>1 DEF TypeOK, ChainMoves
  <2>3. lost' \in [Watchers -> 0..chain']
    BY <1>1, <2>1 DEF TypeOK, ChainMoves
  <2>4. chain' \in Vers
    BY <1>1 DEF TypeOK, ChainMoves, Vers
  <2>5. \A S : \A f \in [S -> 0..chain] : f \in [S -> 0..chain']
    BY <2>1
  <2> QED
    BY <1>1, <2>1, <2>2, <2>3, <2>4, <2>5 DEF TypeOK, ChainMoves
<1>3. StageInv' /\ LastInv' /\ DepthInv' /\ SeenInv' /\ MovesTold'
  BY DEF IInv, ChainMoves, StageInv, LastInv, DepthInv, SeenInv, MovesTold, Refreshed,
         Writers, TypeOK
<1>4. HeardInv'
  BY DEF ChainMoves, HeardInv, Dropped, TypeOK, IInv
<1>5. OrderInv'
  BY <1>1 DEF ChainMoves, OrderInv, TypeOK, IInv, Writers
<1> QED
  BY <1>2, <1>3, <1>4, <1>5 DEF IInv
\* A subscription comes up.
LEMMA ConnectStep == ASSUME IInv, NEW w \in Watchers, Connect(w) PROVE IInv'
BY DEF Connect, fixed, snapshot, locals, history, IInv, TypeOK, StageInv, LastInv,
   DepthInv, HeardInv, OrderInv, SeenInv, MovesTold, Dropped, Refreshed

\* A subscription goes down: what it had not handled is lost, the newest of it.
LEMMA DropStep == ASSUME IInv, NEW w \in Watchers, Drop(w) PROVE IInv'
<1> USE DEF fixed, snapshot, locals, Drop
<1>1. TypeOK /\ chain \in Nat
  BY DEF IInv, TypeOK, Vers
<1>2. PICK v \in Vers :
        /\ due' = [due EXCEPT ![w] = @ \ {x \in due[w] : x > v}]
        /\ lost' = [lost EXCEPT ![w] = Max({x \in due[w] : x > v} \cup {@})]
  OBVIOUS
<1> DEFINE gone == {x \in due[w] : x > v}
           S == gone \cup {lost[w]}
<1>3. S \in SUBSET (0..chain) /\ S # {}
  BY <1>1 DEF TypeOK
<1>4. lost'[w] = Max(S) /\ Max(S) \in 0..chain /\ \A m \in S : m <= Max(S)
  <2>1. lost'[w] = Max(S)
    BY <1>1, <1>2 DEF TypeOK
  <2> HIDE DEF S
  <2> QED
    BY <1>1, <1>3, <2>1, GreatestExists
<1>5. TypeOK'
  <2>1. due' \in [Watchers -> SUBSET (1..chain)]
    BY <1>1, <1>2 DEF TypeOK
  <2>2. lost' \in [Watchers -> 0..chain]
    BY <1>1, <1>2, <1>4 DEF TypeOK
  <2>3. faults' \in 0..MaxFaults /\ live' \subseteq Watchers
    BY <1>1, TrackerAssumption DEF TrackerAssumption, TypeOK
  <2> QED
    BY <1>1, <2>1, <2>2, <2>3 DEF TypeOK
<1>6. HeardInv'
  <2> SUFFICES ASSUME kind # "v3", NEW u \in Watchers
               PROVE  \/ chain \in Dropped \/ chain \in due'[u]
                      \/ pc[u] \notin {"idle", "dead"} /\ cur[u] = chain
                      \/ lost'[u] = chain \/ wrote[u] = chain
    BY DEF HeardInv, Dropped
  <2>1. CASE u = w /\ chain \in gone
    BY <1>1, <1>4, <2>1 DEF TypeOK
  <2>2. CASE u = w /\ lost[w] = chain
    BY <1>1, <1>4, <2>2 DEF TypeOK
  <2>3. CASE u # w \/ (chain \notin gone /\ lost[w] # chain)
    BY <1>1, <1>2, <2>3 DEF TypeOK, IInv, HeardInv
  <2> QED
    BY <2>1, <2>2, <2>3
<1>7. StageInv' /\ LastInv' /\ DepthInv' /\ SeenInv' /\ MovesTold'
  BY <1>1, <1>2 DEF IInv, StageInv, LastInv, DepthInv, SeenInv, MovesTold, Refreshed, TypeOK
<1>8. OrderInv'
  BY <1>1, <1>2 DEF IInv, TypeOK, OrderInv, Writers
<1> QED
  BY <1>5, <1>6, <1>7, <1>8 DEF IInv
-----------------------------------------------------------------------------
\* A handler takes the oldest notification that waits.
LEMMA NotifiedStep == ASSUME IInv, NEW w \in Watchers, Notified(w) PROVE IInv'
<1> USE DEF fixed, snapshot, history, Notified, Goto
<1>1. TypeOK /\ chain \in Nat /\ kind # "v3" /\ w \in Writers /\ kind \in PoolKinds
  BY TrackerAssumption DEF TrackerAssumption, IInv, TypeOK, Vers, StageInv, Writers
<1> DEFINE v == Min(due[w])
<1>2. v \in due[w] /\ v \in 1..chain /\ \A x \in due[w] : v <= x
  <2>1. due[w] \in SUBSET Nat /\ due[w] \in SUBSET (1..chain) /\ due[w] # {}
    BY <1>1 DEF TypeOK
  <2> QED
    BY <2>1, LeastExists
<1>3. /\ due' = [due EXCEPT ![w] = @ \ {v}]
      /\ cur' = [cur EXCEPT ![w] = v]
      /\ pc' = [pc EXCEPT ![w] = pc'[w]]
      /\ pc'[w] \in {"fetch", "write", "idle", "read"}
      /\ pc'[w] = "idle" => v \in Dropped
      /\ pc'[w] = "fetch" <=> kind = "vaults"
  BY <1>1 DEF TypeOK
<1> HIDE DEF v
<1>4. TypeOK'
  BY <1>1, <1>2, <1>3 DEF TypeOK, Writers
<1>5. StageInv' /\ LastInv' /\ DepthInv' /\ SeenInv'
  <2>1. StageInv'
    BY <1>1, <1>2, <1>3, TrackerAssumption
       DEF TrackerAssumption, IInv, TypeOK, StageInv, Refreshed, Writers
  <2>2. LastInv' /\ SeenInv'
    BY DEF IInv, LastInv, SeenInv
  <2>3. DepthInv'
    BY <1>1 DEF DepthInv
  <2> QED
    BY <2>1, <2>2, <2>3
<1>6. HeardInv'
  BY <1>1, <1>2, <1>3 DEF IInv, TypeOK, HeardInv, Dropped, Writers
<1>7. MovesTold'
  BY <1>1, <1>2, <1>3 DEF IInv, TypeOK, MovesTold, Writers
<1>8. OrderInv'
  BY <1>1, <1>2, <1>3 DEF IInv, TypeOK, OrderInv, Writers
<1> QED
  BY <1>4, <1>5, <1>6, <1>7, <1>8 DEF IInv

\* A round comes to the pool.
LEMMA RoundStep == ASSUME IInv, NEW r \in Refreshers, Round(r) PROVE IInv'
<1> USE DEF fixed, snapshot, history, locals, subs, Round, Goto
<1>1. TypeOK /\ Refreshed /\ r \in Writers /\ r \notin Watchers
  BY TrackerAssumption DEF TrackerAssumption, IInv, Writers, Refreshed
<1>2. TypeOK'
  BY <1>1 DEF TypeOK
<1>3. StageInv' /\ LastInv' /\ DepthInv' /\ HeardInv' /\ SeenInv'
  BY <1>1 DEF IInv, TypeOK, StageInv, LastInv, DepthInv, HeardInv, SeenInv, Refreshed,
              Dropped, Writers
<1>4. MovesTold'
  BY <1>1 DEF IInv, TypeOK, MovesTold
<1>5. OrderInv'
  BY <1>1 DEF IInv, TypeOK, OrderInv, Writers
<1> QED
  BY <1>2, <1>3, <1>4, <1>5 DEF IInv
-----------------------------------------------------------------------------
\* The node answers with the state of now.
LEMMA FetchStep == ASSUME IInv, NEW u \in Writers, Fetch(u) PROVE IInv'
<1> USE DEF fixed, snapshot, history, subs, Fetch, Goto
<1>1. TypeOK /\ chain \in Nat
  BY DEF IInv, TypeOK, Vers
<1>2. /\ cur' = [cur EXCEPT ![u] = chain]
      /\ pc' = [pc EXCEPT ![u] = pc'[u]]
      /\ pc'[u] \in {"liquidity", "idle", "read"}
      /\ pc'[u] = "liquidity" <=> kind = "v3"
      /\ pc'[u] = "idle" => chain \in Dropped
      /\ pc'[u] = "read" => chain \notin Dropped
  BY <1>1 DEF TypeOK
<1>3. u \in Watchers => kind # "v3"
  BY DEF IInv, StageInv
<1>4. TypeOK'
  BY <1>1, <1>2 DEF TypeOK
<1>5. StageInv'
  BY <1>1, <1>2, <1>3 DEF IInv, TypeOK, StageInv, Refreshed, Dropped, Writers
<1>6. LastInv' /\ SeenInv'
  BY DEF IInv, LastInv, SeenInv
<1>7. DepthInv'
  BY <1>1, <1>2 DEF IInv, TypeOK, DepthInv, Writers
<1>8. HeardInv'
  BY <1>1, <1>2 DEF IInv, TypeOK, HeardInv, Dropped, Writers
<1>9. MovesTold'
  BY <1>1, <1>2 DEF IInv, TypeOK, MovesTold
<1>10. OrderInv'
  BY <1>1, <1>2 DEF IInv, TypeOK, OrderInv, Writers
<1> QED
  BY <1>4, <1>5, <1>6, <1>7, <1>8, <1>9, <1>10 DEF IInv

\* The liquidity of a v3 pool is told: of a state no older than the price's.
LEMMA FetchLiquidityStep ==
  ASSUME IInv, NEW r \in Refreshers, FetchLiquidity(r) PROVE IInv'
<1> USE DEF fixed, snapshot, history, subs, FetchLiquidity, Goto
<1>1. TypeOK /\ chain \in Nat /\ r \in Writers /\ r \notin Watchers /\ kind = "v3"
  BY TrackerAssumption DEF TrackerAssumption, IInv, TypeOK, Vers, StageInv, Writers
<1>2. /\ liq' = [liq EXCEPT ![r] = chain]
      /\ pc' = [pc EXCEPT ![r] = pc'[r]]
      /\ pc'[r] \in {"idle", "read"}
      /\ pc'[r] = "read" => cur[r] \notin Dropped
  BY <1>1 DEF TypeOK
<1>3. TypeOK'
  BY <1>1, <1>2 DEF TypeOK
<1>4. StageInv'
  BY <1>1, <1>2 DEF IInv, TypeOK, StageInv, Refreshed, Dropped, Writers
<1>5. LastInv' /\ SeenInv' /\ HeardInv'
  BY <1>1 DEF IInv, LastInv, SeenInv, HeardInv
<1>6. DepthInv'
  BY <1>1, <1>2 DEF IInv, TypeOK, DepthInv, Writers
<1>7. MovesTold'
  BY <1>1, <1>2 DEF IInv, TypeOK, MovesTold
<1>8. OrderInv'
  BY <1>1, <1>2 DEF IInv, TypeOK, OrderInv, Writers
<1> QED
  BY <1>3, <1>4, <1>5, <1>6, <1>7, <1>8 DEF IInv

\* The previous snapshot is read.
LEMMA ReadPrevStep == ASSUME IInv, NEW u \in Writers, ReadPrev(u) PROVE IInv'
<1> USE DEF fixed, snapshot, history, subs, ReadPrev, Goto
<1>1. TypeOK /\ chain \in Nat
  BY DEF IInv, TypeOK, Vers
<1>2. TypeOK'
  BY <1>1 DEF TypeOK
<1>3. StageInv'
  BY <1>1 DEF IInv, TypeOK, StageInv, Refreshed
<1>4. LastInv' /\ SeenInv'
  BY <1>1 DEF IInv, TypeOK, LastInv, SeenInv
<1>5. DepthInv' /\ HeardInv'
  BY <1>1 DEF IInv, TypeOK, DepthInv, HeardInv, Dropped, Writers
<1>6. MovesTold'
  BY <1>1 DEF IInv, TypeOK, MovesTold
<1>7. OrderInv'
  BY <1>1 DEF IInv, TypeOK, OrderInv, Writers
<1> QED
  BY <1>2, <1>3, <1>4, <1>5, <1>6, <1>7 DEF IInv

\* The snapshot is replaced: what was read of it before tells whether the
\* state it shows now is new, and if not it was written and told before.
LEMMA WriteStep == ASSUME IInv, NEW u \in Writers, Write(u) PROVE IInv'
<1> USE DEF fixed, locals, subs, Write, Goto
<1>1. TypeOK /\ chain \in Nat /\ cur[u] \in 1..chain
  BY DEF IInv, TypeOK, Vers, StageInv
<1>2. kind = "v3" => u \in Refreshers
  BY DEF IInv, StageInv, Writers
<1>3. TypeOK'
  BY <1>1, <1>2 DEF TypeOK
<1>4. StageInv'
  BY <1>1 DEF IInv, TypeOK, StageInv, Refreshed
<1>5. LastInv' /\ SeenInv'
  BY <1>1 DEF IInv, TypeOK, LastInv, SeenInv
<1>6. DepthInv'
  BY <1>1, <1>2 DEF IInv, TypeOK, DepthInv, Writers
<1>7. HeardInv'
  BY <1>1 DEF IInv, TypeOK, HeardInv, OrderInv, Dropped, Writers
<1>8. MovesTold'
  <2> SUFFICES ASSUME kind # "whirlpool", NEW v \in written' \ muted, v \notin told
               PROVE  \E x \in Writers : pc'[x] = "publish" /\ cur[x] = v /\ prev[x] # v
    BY DEF MovesTold
  <2>1. pc'[u] = "publish" /\ \A x \in Writers \ {u} : pc'[x] = pc[x]
    BY <1>1 DEF TypeOK
  <2>2. CASE v \in written
    <3>1. PICK x \in Writers : pc[x] = "publish" /\ cur[x] = v /\ prev[x] # v
      BY <2>2 DEF IInv, MovesTold
    <3> QED
      BY <2>1, <3>1
  <2>3. CASE v \notin written
    <3>1. v = cur[u] /\ prev[u] # v
      BY <1>1, <2>3 DEF IInv, SeenInv
    <3> QED
      BY <2>1, <3>1
  <2> QED
    BY <2>2, <2>3
<1>9. OrderInv'
  BY <1>1 DEF IInv, TypeOK, OrderInv, Writers
<1> QED
  BY <1>3, <1>4, <1>5, <1>6, <1>7, <1>8, <1>9 DEF IInv

\* The delta is published, unless the writer had read the same state.
LEMMA PublishStep == ASSUME IInv, NEW u \in Writers, Publish(u) PROVE IInv'
<1> USE DEF fixed, snapshot, locals, subs, Publish, Goto
<1>1. TypeOK /\ chain \in Nat /\ cur[u] \in written /\ wrote[u] = cur[u]
  BY DEF IInv, TypeOK, Vers, StageInv
<1>2. TypeOK'
  BY <1>1 DEF TypeOK
<1>3. StageInv'
  BY <1>1 DEF IInv, TypeOK, StageInv, Refreshed
<1>4. LastInv' /\ SeenInv'
  BY DEF IInv, LastInv, SeenInv
<1>5. DepthInv' /\ HeardInv'
  BY <1>1 DEF IInv, TypeOK, DepthInv, HeardInv, Dropped, Writers
<1>6. MovesTold'
  <2> SUFFICES ASSUME kind # "whirlpool", NEW v \in written \ muted, v \notin told'
               PROVE  \E x \in Writers : pc'[x] = "publish" /\ cur[x] = v /\ prev[x] # v
    BY DEF MovesTold
  <2>1. v \notin told
    OBVIOUS
  <2>2. PICK x \in Writers : pc[x] = "publish" /\ cur[x] = v /\ prev[x] # v
    BY <2>1 DEF IInv, MovesTold
  <2>3. x # u
    BY <2>2
  <2> QED
    BY <1>1, <2>2, <2>3 DEF TypeOK
<1>7. OrderInv'
  BY <1>1 DEF IInv, TypeOK, OrderInv, Writers
<1> QED
  BY <1>2, <1>3, <1>4, <1>5, <1>6, <1>7 DEF IInv
\* A handler fails: a tail task is over for good, other loops go on.
LEMMA HandlerFailsStep == ASSUME IInv, NEW u \in Writers, HandlerFails(u) PROVE IInv'
<1> USE DEF fixed, snapshot, locals, HandlerFails, Goto
<1> DEFINE dies == AfterFailure(u) = "dead"
<1>1. /\ TypeOK /\ chain \in Nat
      /\ dies <=> kind = "v2" /\ u \in Watchers
      /\ AfterFailure(u) = IF dies THEN "dead" ELSE "idle"
  BY DEF IInv, TypeOK, Vers, AfterFailure
<1>2. ASSUME NEW w \in Watchers
      PROVE  Max({lost[w], cur[u]}) = IF lost[w] < cur[u] THEN cur[u] ELSE lost[w]
  BY <1>1 DEF TypeOK, Max
<1>3. /\ pc' = [pc EXCEPT ![u] = AfterFailure(u)]
      /\ live' \subseteq live /\ (u \in live' => ~dies)
      /\ \A w \in Watchers :
           due'[w] = IF w = u /\ dies THEN {} ELSE due[w]
      /\ due' \in [Watchers -> SUBSET (1..chain)]
  BY <1>1 DEF TypeOK, subs
<1>4. /\ lost' \in [Watchers -> 0..chain]
      /\ \A w \in Watchers \ {u} : lost'[w] = lost[w]
      /\ u \in Watchers /\ dies => lost'[u] = chain
      /\ u \in Watchers /\ ~dies /\ pc[u] = "publish" => lost'[u] = lost[u]
      /\ u \in Watchers /\ ~dies /\ pc[u] # "publish"
           => lost'[u] = IF lost[u] < cur[u] THEN cur[u] ELSE lost[u]
  BY <1>1, <1>2 DEF TypeOK
<1>a. /\ pc[u] \notin {"idle", "dead"} /\ faults < MaxFaults /\ faults' = faults + 1
      /\ muted' = IF pc[u] = "publish" THEN muted \cup {cur[u]} ELSE muted
      /\ UNCHANGED <<kind, blocked, chain, hot, depth, cur, prev, liq, wrote, written, told>>
  OBVIOUS
<1> HIDE DEF dies, HandlerFails
<1>5. TypeOK'
  <2>1. faults' \in 0..MaxFaults
    BY <1>1, <1>a, TrackerAssumption DEF TrackerAssumption, TypeOK
  <2>3. muted' \subseteq written
    <3>1. pc[u] = "publish" => cur[u] \in written
      BY DEF IInv, StageInv
    <3> QED
      BY <1>1, <1>a, <3>1 DEF TypeOK
  <2>4. live' \subseteq Watchers
    BY <1>1, <1>3 DEF TypeOK
  <2>2. pc' \in [Writers -> {"idle", "fetch", "liquidity", "read", "write", "publish", "dead"}]
    BY <1>1, <1>a, <1>3 DEF TypeOK
  <2> QED
    BY <1>1, <1>a, <1>3, <1>4, <2>1, <2>2, <2>3, <2>4 DEF TypeOK
<1>6. StageInv'
  BY <1>1, <1>a, <1>3 DEF IInv, TypeOK, StageInv, Refreshed
<1>7. LastInv' /\ SeenInv'
  BY <1>a DEF IInv, LastInv, SeenInv
<1>8. DepthInv' /\ OrderInv'
  BY <1>1, <1>a, <1>3 DEF IInv, TypeOK, DepthInv, OrderInv, Writers
<1>9. HeardInv'
  <2> SUFFICES ASSUME kind # "v3", NEW w \in Watchers, chain \notin Dropped
               PROVE  \/ chain \in due'[w]
                      \/ pc'[w] \notin {"idle", "dead"} /\ cur[w] = chain
                      \/ lost'[w] = chain \/ wrote[w] = chain
    BY <1>a DEF HeardInv, Dropped
  <2>1. CASE w # u
    BY <1>1, <1>a, <1>3, <1>4, <2>1 DEF IInv, HeardInv, TypeOK, Writers
  <2>2. CASE w = u
    BY <1>1, <1>a, <1>3, <1>4, <2>2 DEF IInv, HeardInv, TypeOK, StageInv
  <2> QED
    BY <2>1, <2>2
<1>10. MovesTold'
  <2> SUFFICES ASSUME kind # "whirlpool", NEW v \in written \ muted', v \notin told
               PROVE  \E x \in Writers : pc'[x] = "publish" /\ cur[x] = v /\ prev[x] # v
    BY <1>a DEF MovesTold
  <2>1. PICK x \in Writers : pc[x] = "publish" /\ cur[x] = v /\ prev[x] # v
    BY <1>a DEF IInv, MovesTold
  <2>2. x # u
    BY <1>a, <2>1
  <2> QED
    BY <1>1, <1>a, <1>3, <2>1, <2>2 DEF TypeOK
<1> QED
  BY <1>5, <1>6, <1>7, <1>8, <1>9, <1>10 DEF IInv
-----------------------------------------------------------------------------
\* The inductive invariant is kept by every step...
THEOREM StepIInv == IInv /\ [Next]_vars => IInv'
<1> SUFFICES ASSUME IInv, [Next]_vars PROVE IInv'
  OBVIOUS
<1>1. CASE UNCHANGED vars
  BY <1>1
     DEF vars, fixed, snapshot, subs, locals, history, IInv, TypeOK, StageInv, LastInv,
         DepthInv, HeardInv, OrderInv, SeenInv, MovesTold, Dropped, Refreshed
<1>2. ASSUME NEW u \in Writers, Handle(u) PROVE IInv'
  BY <1>2, FetchStep, FetchLiquidityStep, ReadPrevStep, WriteStep, PublishStep DEF Handle
<1> QED
  BY <1>1, <1>2, ChainMovesStep, ConnectStep, DropStep, NotifiedStep, RoundStep,
     HandlerFailsStep DEF Next

\* ...and so holds always.
THEOREM Invariance == Spec => []IInv
BY InitIInv, StepIInv, PTL DEF Spec

\* Snapshots, notifications and what writers hold are states the pool has
\* been in, and deltas tell of snapshots that were written.
THEOREM TypeCorrect == Spec => []TypeOK
<1>1. IInv => TypeOK
  BY DEF IInv
<1> QED
  BY <1>1, Invariance, PTL

\* When every writer is done with the pool's present state the snapshot
\* shows it, in both its parts.
THEOREM SnapshotIsHotTruth == Spec => []HotTruth
<1>1. ASSUME IInv PROVE HotTruth
  <2> SUFFICES ASSUME chain \notin Dropped,
                      kind # "v3" => \A w \in Watchers : CaughtUp(w),
                      kind = "v3" => Refreshed,
                      Refreshed => \A r \in Refreshers : pc[r] = "idle" /\ wrote[r] = chain
               PROVE  Truthful
    BY DEF HotTruth
  <2>1. TypeOK /\ chain \in Nat /\ chain # 0
    BY <1>1 DEF IInv, TypeOK, Vers, Dropped
  <2>2. ASSUME kind # "v3", NEW w \in Watchers PROVE wrote[w] = chain
    BY <1>1, <2>1, <2>2 DEF IInv, TypeOK, HeardInv, CaughtUp, Writers
  <2>3. \A u \in Writers : wrote[u] = chain \/ wrote[u] = 0
    BY <1>1, <2>2 DEF IInv, StageInv, Writers
  <2>4. \E u \in Writers : wrote[u] = chain
    BY <2>2, TrackerAssumption DEF TrackerAssumption, Writers
  <2>5. hot = chain
    BY <1>1, <2>1, <2>3, <2>4 DEF IInv, LastInv
  <2>6. kind = "v3" => depth = chain
    BY <1>1, <2>1, <2>5 DEF IInv, TypeOK, DepthInv
  <2> QED
    BY <2>5, <2>6 DEF Truthful
<1> QED
  BY <1>1, Invariance, PTL

\* Two trackers of a pool do not mask its move between them.
THEOREM MovesAreTold == Spec => []MovesTold
<1>1. IInv => MovesTold
  BY DEF IInv
<1> QED
  BY <1>1, Invariance, PTL
=============================================================================
