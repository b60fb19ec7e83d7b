------------------------------ MODULE Scanner ------------------------------
(***************************************************************************)
(* From moves of pools to ranked opportunities: the scanners               *)
(* (arbitrage/scanner.py), the lag detector (tracking/lag_detector.py) and *)
(* the pipeline (arbitrage/pipeline.py).                                   *)
(*                                                                         *)
(* They share nothing but the snapshots in Redis, which every one of them  *)
(* reads one by one while trackers replace them, and the stream of         *)
(* candidates.  The scanners do not meet, so that one of them runs in a    *)
(* behaviour, next to the pipeline: the state scanner, the cross-chain     *)
(* loop, the fresh-pool loop or the lag detector.  Each handles one event  *)
(* at a time.  What the bus may lose is in EventBus, and left out here.    *)
(***************************************************************************)
EXTENDS Simulation, Sequences, SequencesExt

CONSTANTS
  Scenes,       \* what is considered: a scanner, the pools that are live, and
                \* those of them with a snapshot at first (known)
  Attr,         \* Attr[p]: what does not change of pool p's snapshot
  Snaps,        \* Snaps[p]: the rest of it, a set of records
  None,         \* no snapshot
  Canonical,    \* CANONICAL_TOKEN_GROUPS: sets of <<chain, token>>
  Stable,       \* tokens known to be worth a dollar
  ListedUsd,    \* ListedUsd[t]: the price a listing gave, 0 for none
  MinSpread,    \* min_spread_bps
  Window,       \* lag_window_s, in ticks
  MaxMoves,     \* bound: snapshots written, or expired
  MaxTicks,     \* bound: ticks of the clock
  MaxCands,     \* bound: candidates in the stream
  MaxFaults     \* bound: failures of the scanner

ScannerJobs == {"state", "cross", "fresh", "lag"}
Pools == UNION {c.live : c \in Scenes}
Fields == {"pool", "chain", "token0", "token1", "dex", "curve", "fee", "unit0", "unit1"}

\* HotPoolState: a snapshot with all its fields.
State(p, s) ==
  [f \in Fields \cup DOMAIN s |-> IF f \in Fields THEN Attr[p][f] ELSE s[f]]
Price(x) == Implied(x)

ASSUME ScannerAssumption ==
  /\ \A c \in Scenes : c.job \in ScannerJobs /\ IsFiniteSet(c.live)
  /\ \A p \in Pools : /\ DOMAIN Attr[p] = Fields /\ Attr[p].pool = p
                       /\ Snaps[p] # {} /\ None \notin Snaps[p]
  /\ None \notin [pool : Pools, bps : Nat, age : Nat]
  \* liquidity.py:44-45, 74-75, 105-106: a drained pool is not written, but
  \* solana_tracker.py:158-171 does write a whirlpool without a price
  /\ \A p \in Pools : \A s \in Snaps[p] :
       Price(State(p, s)) \in IF Attr[p].curve = "whirlpool" THEN Nat ELSE Nat \ {0}
  \* scanner.py:66-87: no address is named twice
  /\ \A g, h \in Canonical : \A x \in g, y \in h : x[2] = y[2] => x = y
  /\ \A p \in Pools : Attr[p].token1 \in Stable \/ ListedUsd[Attr[p].token1] \in Nat
  /\ MinSpread \in Nat \ {0} /\ Window \in Nat
  /\ {MaxMoves, MaxTicks, MaxCands, MaxFaults} \subseteq Nat

\* What the curves take.  liquidity.py:44-45, 105-106: reserves are positive;
\* solana_tracker.py:86: a dlmm pool's tokens are given the same decimals.
ASSUME SnapshotAssumption ==
  \A p \in Pools :
    /\ Attr[p].fee \in 0..Bps /\ {Attr[p].unit0, Attr[p].unit1} \subseteq Nat \ {0}
    /\ Gas[Attr[p].chain] \in Nat
    /\ \/ Attr[p].curve = "v2" /\ Snaps[p] \subseteq [r0 : Nat \ {0}, r1 : Nat \ {0}]
       \/ Attr[p].curve \in {"v3", "whirlpool"} /\ Snaps[p] \subseteq [sqrt : Nat, liq : Nat]
       \/ /\ Attr[p].curve = "dlmm" /\ Snaps[p] \subseteq [price : Nat]
          /\ Attr[p].unit0 = Attr[p].unit1

\* The prices that may be found for the quote token of pool p (usd_price): none
\* is above all of these.
UsdPrices(p) ==
  IF Attr[p].token1 \in Stable THEN {PScale}
  ELSE {ListedUsd[Attr[p].token1]}
       \cup UNION {{Price(State(q, s)) : s \in Snaps[q]} :
                     q \in {r \in Pools : Attr[r].token0 = Attr[p].token1}}

\* curves.py:86, 130: the new square root of a price is rounded down, which gives a
\* seller up to liq / Q units of token1 too many.  They are worth less than the
\* least profit that is ranked.
ASSUME RoundingAssumption ==
  \A p, q \in Pools :
    /\ p # q /\ Attr[q].curve \in {"v3", "whirlpool"}
    /\ Attr[p].token0 = Attr[q].token0 /\ Attr[p].token1 = Attr[q].token1
    => \A s \in Snaps[q], u \in UsdPrices(p) :
         s.liq * u < Q * Attr[p].unit1 * PScale * MinProfit

VARIABLES
  job, live,    \* the scanner and the pools of this behaviour, fixed
  hot, age,     \* the snapshots in Redis, and the ticks since they were written
  unsaid,       \* deltas of written snapshots that are not yet published
  news,         \* the stream the scanner consumes
  pc, me,       \* its control point and the pool of its event
  mine,         \* fresh: the new pool's snapshot; lag: the leader's
  left,         \* pools it has still to read
  seen,         \* snapshots its pass has read
  found,        \* candidates it has still to publish
  win,          \* lag: win[p], the moves of p it remembers
  cands,        \* the stream OPP_CANDIDATE
  ppc, cand, buy, sell, usd,  \* the pipeline: candidate, snapshots, quote price
  ranked,       \* the last opportunity ranked
  verdict,      \* history: what the last pass of the state scanner found of a pair
  stirred,      \* history: pairs with a move announced since a pool of theirs expired
  big,          \* history: ticks since the last large move of p the lag detector took
  moves, ticks, faults

env == <<hot, age, unsaid, moves, ticks>>
scan == <<pc, me, mine, left, seen, found, win>>
pipe == <<ppc, cand, buy, sell, usd, ranked>>
history == <<verdict, stirred, big>>
vars == <<job, live, env, news, scan, cands, pipe, history, faults>>

SamePair(p, q) == Tokens(Attr[p]) = Tokens(Attr[q])
PairOf(p) == <<Attr[p].chain, Tokens(Attr[p])>>
Pairs == {PairOf(p) : p \in Pools}

\* implied_price of every snapshot, which the trackers record with it.
implied_price == [p \in Pools |-> [s \in Snaps[p] |-> Price(State(p, s))]]

Priced(p) == hot[p] # None /\ implied_price[p][hot[p]] > 0

MinMove == Max({20, MinSpread \div 2})
Old == Window + 1   \* ages stop here

Init ==
  /\ \E c \in Scenes :
       /\ job = c.job /\ live = c.live
       /\ hot = [p \in Pools |-> IF p \in c.known THEN CHOOSE s \in Snaps[p] : TRUE ELSE None]
  /\ age = [p \in Pools |-> Old]
  /\ unsaid = {} /\ news = <<>>
  /\ pc = "idle" /\ me = None /\ mine = None
  /\ left = {} /\ seen = {} /\ found = {}
  /\ win = [p \in Pools |-> <<>>]
  /\ cands = <<>> /\ ppc = "idle" /\ cand = None /\ buy = None /\ sell = None
  /\ usd = 0 /\ ranked = None
  /\ verdict = [k \in Pairs |-> {}] /\ stirred = {}
  /\ big = [p \in Pools |-> Old]
  /\ moves = 0 /\ ticks = 0 /\ faults = 0
-----------------------------------------------------------------------------
\* A tracker replaces the snapshot of p; its delta follows, but for a
\* whirlpool (see PoolTracker).
Move(p, s) ==
  /\ moves < MaxMoves /\ hot[p] # s
  /\ \A d \in unsaid : d.pool # p
  /\ hot' = [hot EXCEPT ![p] = s] /\ age' = [age EXCEPT ![p] = 0]
  /\ unsaid' = IF Attr[p].curve = "whirlpool" THEN unsaid ELSE unsaid \cup
       {[pool |-> p, age |-> 0,
         bps |-> IF hot[p] = None THEN 0
                 ELSE LET old == Price(State(p, hot[p]))
                      IN (Gap(Price(State(p, s)), old) * Bps) \div old]}
  /\ moves' = moves + 1
  /\ UNCHANGED <<job, live, ticks, news, scan, cands, pipe, history, faults>>

Announce(d) ==
  /\ d \in unsaid
  /\ unsaid' = unsaid \ {d}
  /\ news' = IF job \in {"state", "lag"} THEN Append(news, d) ELSE news
  /\ stirred' = stirred \cup {PairOf(d.pool)}
  /\ UNCHANGED <<job, live, hot, age, moves, ticks, scan, cands, pipe, verdict, big, faults>>

\* A snapshot nobody has replaced for a day is gone.
Expire(p) ==
  /\ moves < MaxMoves /\ hot[p] # None
  /\ \A d \in unsaid : d.pool # p
  /\ hot' = [hot EXCEPT ![p] = None]
  /\ moves' = moves + 1
  /\ stirred' = stirred \ {PairOf(p)}
  /\ UNCHANGED <<job, live, age, unsaid, ticks, news, scan, cands, pipe, verdict, big, faults>>

\* A factory creates the pool (discovery/onchain.py).
Created(p) ==
  /\ job = "fresh" /\ moves < MaxMoves
  /\ news' = Append(news, [pool |-> p, age |-> 0, bps |-> 0])
  /\ moves' = moves + 1
  /\ UNCHANGED <<job, live, hot, age, unsaid, ticks, scan, cands, pipe, history, faults>>

Older(n) == Min({n + 1, Old})
AgeAll(s) == [i \in DOMAIN s |-> [s[i] EXCEPT !.age = Older(@)]]

Tick ==
  /\ job = "lag" /\ ticks < MaxTicks
  /\ ticks' = ticks + 1
  /\ age' = [p \in Pools |-> Older(age[p])]
  /\ big' = [p \in Pools |-> Older(big[p])]
  /\ news' = AgeAll(news)
  /\ unsaid' = {[d EXCEPT !.age = Older(@)] : d \in unsaid}
  /\ win' = [p \in Pools |-> AgeAll(win[p])]
  /\ me' = IF me = None THEN None ELSE [me EXCEPT !.age = Older(@)]
  /\ UNCHANGED <<job, live, hot, moves, pc, mine, left, seen, found, cands, pipe,
                 verdict, stirred, faults>>
-----------------------------------------------------------------------------
Rest == pc' = "idle" /\ UNCHANGED <<me, mine, left, seen, found>>

\* The next event; for a new pool, the warm-up is slept through.
Take ==
  /\ pc = "idle" /\ news # <<>>
  /\ me' = Head(news) /\ news' = Tail(news)
  /\ pc' = "self"
  /\ UNCHANGED <<job, live, env, mine, left, seen, found, win, cands, pipe, history, faults>>

\* A round of the cross-chain loop.
BeginRound ==
  /\ pc = "idle" /\ job = "cross"
  /\ pc' = "scan" /\ left' = live /\ seen' = {}
  /\ UNCHANGED <<job, live, env, news, me, mine, found, win, cands, pipe, history, faults>>

\* The event's pool is read anew; one that is gone or unpriced is let go.
ReadSelf ==
  /\ pc = "self" /\ job \in {"state", "fresh"}
  /\ IF ~Priced(me.pool) THEN Rest
     ELSE /\ pc' = "scan" /\ seen' = {}
          /\ IF job = "state"
             THEN left' = live /\ UNCHANGED mine
             ELSE /\ left' = {p \in live \ {me.pool} : Attr[p].chain = Attr[me.pool].chain}
                  /\ mine' = State(me.pool, hot[me.pool])
          /\ UNCHANGED <<me, found>>
  /\ UNCHANGED <<job, live, env, news, win, cands, pipe, history, faults>>

InScope(p) == job = "cross" \/ SamePair(p, me.pool)

\* SCAN names every key, some of them twice; each is then read.
ScanOne(p) ==
  /\ pc = "scan" /\ job \in {"state", "cross"} /\ left # {}
  /\ left' = left \ {p}
  /\ seen' = IF hot[p] # None /\ InScope(p) THEN seen \cup {State(p, hot[p])} ELSE seen
  /\ UNCHANGED <<job, live, env, news, pc, me, mine, found, win, cands, pipe, history, faults>>

GroupOf(chain, token) ==
  IF \E g \in Canonical : <<chain, token>> \in g
  THEN CHOOSE g \in Canonical : <<chain, token>> \in g
  ELSE {<<chain, token>>}

\* Pools are compared within a chain and pair, whatever the order of its
\* tokens, or within a pair of canonical groups, order and all.
KeyOf(x) ==
  IF job = "state" THEN PairOf(x.pool)
  ELSE <<GroupOf(x.chain, x.token0), GroupOf(x.chain, x.token1)>>

Lowest(G) == {x \in G : \A y \in G : Price(x) <= Price(y)}
Highest(G) == {x \in G : \A y \in G : Price(y) <= Price(x)}

\* Mutation: two pools of one exchange are refused, as duplicates.
RefusedSameDex(cheap, dear) ==
  IF job = "state" THEN cheap.dex = dear.dex
  ELSE cheap.chain = dear.chain \/ Price(cheap) <= 0

\* Whether the extremes of a group are no candidate.
Refused(cheap, dear) ==
  IF job = "state" THEN cheap.pool = dear.pool
  ELSE cheap.chain = dear.chain \/ Price(cheap) <= 0

KindOf(cheap, dear) ==
  IF job = "cross" THEN "cross-chain"
  ELSE IF cheap.dex = dear.dex THEN "intra-dex" ELSE "cross-dex"

Candidate(cheap, dear, kind) ==
  [kind |-> kind, buy |-> cheap.pool, sell |-> dear.pool,
   spread |-> SpreadBps(Price(cheap), Price(dear))]

\* Mutation: the least spread is not asked for.
OutcomesAny(G) ==
  {IF Refused(x, y) THEN {} ELSE {Candidate(x, y, KindOf(x, y))} : x \in Lowest(G), y \in Highest(G)}

\* What a group gives: a candidate or none.  Of equal extremes it is the
\* order of the scan that decides.
Outcomes(G) ==
  {IF Refused(x, y) \/ SpreadBps(Price(x), Price(y)) < MinSpread THEN {}
   ELSE {Candidate(x, y, KindOf(x, y))} : x \in Lowest(G), y \in Highest(G)}

Groups == {{x \in seen : KeyOf(x) = k} : k \in {KeyOf(x) : x \in seen}}

Judge ==
  /\ pc = "scan" /\ job \in {"state", "cross"} /\ left = {}
  /\ \E pick \in {f \in [Groups -> UNION {Outcomes(G) : G \in Groups}] :
                     \A G \in Groups : f[G] \in Outcomes(G)} :
       LET cs == UNION Range(pick) IN
         /\ found' = cs
         /\ verdict' = [k \in Pairs |->
                          IF job = "state" /\ k[2] = Tokens(Attr[me.pool])
                          THEN {c \in cs : Attr[c.buy].chain = k[1]} ELSE verdict[k]]
  /\ pc' = "tell" /\ seen' = {}
  /\ UNCHANGED <<job, live, env, news, me, mine, left, win, cands, pipe, stirred, big, faults>>

Tell ==
  /\ pc = "tell"
  /\ IF found = {} THEN Rest /\ UNCHANGED cands
     ELSE \E c \in found :
            /\ Len(cands) < MaxCands
            /\ cands' = Append(cands, c) /\ found' = found \ {c}
            /\ UNCHANGED <<pc, me, mine, left, seen>>
  /\ UNCHANGED <<job, live, env, news, win, pipe, history, faults>>

\* The new pool against each other pool of its chain, a candidate at once.
FreshOne(p) ==
  /\ pc = "scan" /\ job = "fresh" /\ p \in left
  /\ LET mate == hot[p] # None /\ SamePair(p, me.pool)
         other == State(p, hot[p])
         c == IF Price(mine) < Price(other) THEN Candidate(mine, other, "fresh")
              ELSE Candidate(other, mine, "fresh")
     IN IF mate /\ SpreadBps(Price(mine), Price(other)) >= MinSpread
        THEN Len(cands) < MaxCands /\ cands' = Append(cands, c)
        ELSE UNCHANGED cands
  /\ left' = left \ {p}
  /\ UNCHANGED <<job, live, env, news, pc, me, mine, seen, found, win, pipe, history, faults>>

FreshDone ==
  /\ pc = "scan" /\ job = "fresh" /\ left = {}
  /\ Rest
  /\ UNCHANGED <<job, live, env, news, win, cands, pipe, history, faults>>
-----------------------------------------------------------------------------
Peers(p) == {q \in live : PairOf(q) = PairOf(p)}

\* What is older than the window leaves the front of the deque, when its pool
\* is heard of.
Trim(w) ==
  LET young == {i \in DOMAIN w : w[i].age <= Window}
  IN IF young = {} THEN <<>> ELSE SubSeq(w, Min(young), Len(w))
LastMove(w) == IF w = <<>> THEN 0 ELSE Last(w).bps

\* The event is remembered with the time of the snapshot read now.  The pool
\* whose last remembered move is the largest leads, however long ago it moved.
LagHear ==
  /\ pc = "self" /\ job = "lag"
  /\ IF hot[me.pool] = None THEN Rest /\ UNCHANGED <<win, big>>
     ELSE
       /\ win' = [win EXCEPT ![me.pool] =
                    Trim(Append(@, [bps |-> me.bps, age |-> age[me.pool]]))]
       /\ big' = IF 2 * me.bps >= MinMove THEN [big EXCEPT ![me.pool] = me.age] ELSE big
       /\ LET movers == {q \in Peers(me.pool) : LastMove(win'[q]) >= MinMove}
          IN IF movers = {} THEN Rest
             ELSE \E q \in movers :
                    /\ \A r \in movers : LastMove(win'[r]) <= LastMove(win'[q])
                    /\ me' = [me EXCEPT !.pool = q] /\ pc' = "leader"
                    /\ UNCHANGED <<mine, left, seen, found>>
  /\ UNCHANGED <<job, live, env, news, cands, pipe, verdict, stirred, faults>>

LagLeader ==
  /\ pc = "leader"
  /\ IF hot[me.pool] = None THEN Rest
     ELSE /\ mine' = State(me.pool, hot[me.pool])
          /\ left' = {q \in Peers(me.pool) \ {me.pool} : win[q] # <<>>}
          /\ pc' = "follow"
          /\ UNCHANGED <<me, seen, found>>
  /\ UNCHANGED <<job, live, env, news, win, cands, pipe, history, faults>>

\* Mutation: a move at the edge of the window is left out.
StillYoung(p) == \A i \in DOMAIN win[p] : win[p][i].age < Window => 2 * win[p][i].bps < MinMove

\* No remembered move of p is half of a leader's.
Still(p) == \A i \in DOMAIN win[p] : 2 * win[p][i].bps < MinMove

\* The other pools in turn; the first that lags is told of and ends the event.
LagOne(p) ==
  /\ pc = "follow" /\ p \in left
  /\ LET lags == /\ Priced(p) /\ Still(p)
                 /\ (Gap(Price(State(p, hot[p])), Price(mine)) * Bps) \div Price(mine) >= MinMove
     IN IF lags
        THEN /\ Len(cands) < MaxCands
             /\ cands' = Append(cands, [kind |-> "lagging", leader |-> me.pool, lagger |-> p])
             /\ Rest
        ELSE /\ left' = left \ {p}
             /\ UNCHANGED <<cands, pc, me, mine, seen, found>>
  /\ UNCHANGED <<job, live, env, news, win, pipe, history, faults>>

LagDone ==
  /\ pc = "follow" /\ left = {}
  /\ Rest
  /\ UNCHANGED <<job, live, env, news, win, cands, pipe, history, faults>>

\* Redis fails; the event or the round is logged and given up.
JobFails ==
  /\ pc # "idle" /\ faults < MaxFaults
  /\ faults' = faults + 1
  /\ Rest
  /\ UNCHANGED <<job, live, env, news, win, cands, pipe, history>>
-----------------------------------------------------------------------------
Ends == ppc' = "idle" /\ cand' = None /\ buy' = None /\ sell' = None /\ usd' = 0

\* Mutation: the KeyError of a lag candidate ends the loop.
PipeTakeRaises ==
  /\ ppc = "idle" /\ cands # <<>>
  /\ cands' = Tail(cands)
  /\ IF Head(cands).kind = "lagging" THEN ppc' = "dead" /\ UNCHANGED cand
     ELSE ppc' = "buy" /\ cand' = Head(cands)
  /\ UNCHANGED <<job, live, env, news, scan, buy, sell, usd, ranked, history, faults>>

\* A lag candidate names a leader and a laggard, not the pools to buy and to
\* sell in: the KeyError is logged and the candidate dropped.
PipeTake ==
  /\ ppc = "idle" /\ cands # <<>>
  /\ cands' = Tail(cands)
  /\ IF Head(cands).kind = "lagging" THEN UNCHANGED <<ppc, cand>>
     ELSE ppc' = "buy" /\ cand' = Head(cands)
  /\ UNCHANGED <<job, live, env, news, scan, buy, sell, usd, ranked, history, faults>>

Snapshot(p) == IF hot[p] = None THEN None ELSE State(p, hot[p])

PipeReadBuy ==
  /\ ppc = "buy"
  /\ buy' = Snapshot(cand.buy) /\ ppc' = "sell"
  /\ UNCHANGED <<job, live, env, news, scan, cands, cand, sell, usd, ranked, history, faults>>

PipeReadSell ==
  /\ ppc = "sell"
  /\ IF buy = None \/ hot[cand.sell] = None THEN Ends
     ELSE sell' = Snapshot(cand.sell) /\ ppc' = "price" /\ UNCHANGED <<cand, buy, usd>>
  /\ UNCHANGED <<job, live, env, news, scan, cands, ranked, history, faults>>

\* The mean of the two prices in the middle of those of pools ps.
Median(ps) ==
  LET n == Cardinality(ps)
      At(p) == implied_price[p][hot[p]]
      Nth(k) == CHOOSE p \in ps :
                  /\ Cardinality({q \in ps : At(q) < At(p)}) < k
                  /\ k <= Cardinality({q \in ps : At(q) <= At(p)})
  IN (At(Nth((n + 1) \div 2)) + At(Nth(n \div 2 + 1))) \div 2

\* A dollar for a stable token; else the median of what its pools with a
\* stable one show; else what a listing gave.
usd_price(chain, token) ==
  LET quoted == {q \in live : /\ Priced(q) /\ Attr[q].chain = chain
                              /\ Attr[q].token0 = token /\ Attr[q].token1 \in Stable}
  IN IF token \in Stable THEN PScale
     ELSE IF quoted # {} THEN Median(quoted) ELSE ListedUsd[token]

PipePrice ==
  /\ ppc = "price"
  /\ usd' = usd_price(buy.chain, buy.token1) /\ ppc' = "judge"
  /\ UNCHANGED <<job, live, env, news, scan, cands, cand, buy, sell, ranked, history, faults>>

PipeRank ==
  /\ ppc = "judge"
  /\ ranked' = IF Ranks(cand.kind, cand.spread, buy, sell, usd)
               THEN [kind |-> cand.kind, buy |-> buy, sell |-> sell] ELSE ranked
  /\ Ends
  /\ UNCHANGED <<job, live, env, news, scan, cands, history, faults>>

\* Redis or Postgres fails; the candidate is logged and dropped.
PipeFails ==
  /\ ppc # "idle" /\ faults < MaxFaults
  /\ faults' = faults + 1
  /\ Ends
  /\ UNCHANGED <<job, live, env, news, scan, cands, ranked, history>>
-----------------------------------------------------------------------------
Step ==
  \/ Take \/ BeginRound \/ ReadSelf \/ Judge \/ Tell \/ FreshDone
  \/ LagHear \/ LagLeader \/ LagDone
  \/ \E p \in live : ScanOne(p) \/ FreshOne(p) \/ LagOne(p)

PipeStep == PipeTake \/ PipeReadBuy \/ PipeReadSell \/ PipePrice \/ PipeRank

Next ==
  \/ \E p \in live : Expire(p) \/ Created(p) \/ \E s \in Snaps[p] : Move(p, s)
  \/ \E d \in unsaid : Announce(d)
  \/ Tick
  \/ Step \/ JobFails
  \/ PipeStep \/ PipeFails

Spec == Init /\ [][Next]_vars

\* The jobs keep running and trackers publish the delta they are about to;
\* moves, the clock and failures owe nothing.
Fairness ==
  /\ WF_vars(job # "cross" /\ Step) /\ WF_vars(job # "cross" /\ PipeStep)
  /\ WF_vars(\E d \in unsaid : Announce(d))

FairSpec == Spec /\ Fairness
-----------------------------------------------------------------------------
Moves == [pool : Pools, bps : Nat, age : 0..Old]
Candidates == [kind : {"intra-dex", "cross-dex", "cross-chain", "fresh"}, buy : Pools,
               sell : Pools, spread : MinSpread..Bps]
LagEvents == [kind : {"lagging"}, leader : Pools, lagger : Pools]
Snapshots == UNION {{State(p, s) : s \in Snaps[p]} : p \in Pools}

TypeOK ==
  /\ \E c \in Scenes : job = c.job /\ live = c.live
  /\ DOMAIN hot = Pools /\ \A p \in Pools : hot[p] \in Snaps[p] \cup {None}
  /\ age \in [Pools -> 0..Old] /\ big \in [Pools -> 0..Old]
  /\ unsaid \subseteq Moves /\ news \in Seq(Moves)
  /\ pc \in {"idle", "self", "scan", "tell", "leader", "follow"}
  /\ me = None \/ me \in Moves
  /\ pc # "idle" /\ job # "cross" => me # None
  /\ left \subseteq live /\ found \subseteq Candidates
  /\ \A x \in seen \cup ({mine, buy, sell} \ {None}) : x \in Snapshots
  /\ win \in [Pools -> Seq([bps : Nat, age : 0..Old])]
  /\ cands \in Seq(Candidates \cup LagEvents) /\ Len(cands) <= MaxCands
  /\ ppc \in {"idle", "buy", "sell", "price", "judge"} /\ usd \in Nat
  /\ (ppc # "idle" => cand \in Candidates)
  /\ DOMAIN verdict = Pairs /\ stirred \subseteq Pairs
  /\ moves \in 0..MaxMoves /\ ticks \in 0..MaxTicks /\ faults \in 0..MaxFaults

Quiet == pc = "idle" /\ news = <<>> /\ unsaid = {}
Shown(k) == {State(p, hot[p]) : p \in {q \in live : PairOf(q) = k /\ hot[q] # None}}

\* Pairs whose pools all have their tokens in one order and announce their moves.
Aligned(k) ==
  \A p, q \in {r \in live : PairOf(r) = k} :
    Attr[p].token0 = Attr[q].token0 /\ Attr[p].curve # "whirlpool"

\* A pass reads the snapshots of a pair one by one while they change, and
\* yet, once all moves are announced and handled, the last pass over a pair
\* (scanner.py:101-137) has told of its cheapest and its dearest pool as they
\* are, or of none if they are less than the least spread apart.
SpreadTold ==
  job = "state" /\ Quiet /\ faults = 0 =>
    \A k \in {x \in stirred : Aligned(x)} :
      IF \E x, y \in Shown(k) : SpreadBps(Price(x), Price(y)) >= MinSpread
      THEN \E x \in Lowest(Shown(k)), y \in Highest(Shown(k)) :
             \E c \in verdict[k] : c = Candidate(x, y, KindOf(x, y))
      ELSE verdict[k] = {}

\* The price of token0 in token1, as a fraction of units.
Spot(x) ==
  CASE x.curve = "v2" -> [num |-> x.r1, den |-> x.r0]
    [] x.curve \in {"v3", "whirlpool"} -> [num |-> x.sqrt * x.sqrt, den |-> Q * Q]
    [] x.curve = "dlmm" -> [num |-> x.price * x.unit1, den |-> PScale * x.unit0]

\* What is ranked can be earned by trading at the prices the pipeline saw:
\* the base token is cheaper in the pool to buy in than in the one to sell
\* in, counted in one order of the tokens whatever that of the pools, and
\* whatever had moved between the scan and the two reads (pipeline.py:35-39).
RankedCheaper ==
  ranked # None =>
    LET b == Spot(ranked.buy)
        s == Spot(ranked.sell)
    IN /\ ranked.buy.pool # ranked.sell.pool
       /\ IF ranked.buy.token0 = ranked.sell.token0
          THEN b.num * s.den < s.num * b.den
          ELSE b.num * s.num < s.den * b.den

\* "Cross-chain opportunities whose expected value after the bridge is
\* negative are discarded" (bridges.py:4-6), and others go through simulation,
\* scoring and alert as all candidates do (scanner.py:15-16): one that earns
\* enough after slippage, gas and the bridge, counting the tokens of a group
\* as one, and is trusted, is ranked.
BridgedRanked ==
  [][ppc = "judge" /\ ppc' = "idle" /\ faults' = faults /\ cand.kind = "cross-chain" =>
       LET bridged == [sell EXCEPT !.token0 = buy.token0, !.token1 = buy.token1]
       IN Ranks(cand.kind, cand.spread, buy, bridged, usd)
            => ranked' = [kind |-> cand.kind, buy |-> buy, sell |-> sell]]_vars

\* A pool is named a laggard only if no large move of it was taken in during
\* the window (lag_detector.py:6-8), although a window is trimmed when its
\* own pool is heard of and dated by a snapshot that may be newer than the move.
LaggerStill ==
  [][pc = "follow" => \A p \in Pools :
       cands' = Append(cands, [kind |-> "lagging", leader |-> me.pool, lagger |-> p])
         => big[p] > Window]_vars

\* When the pools rest, every announced move is handled and every candidate
\* is judged: neither a failure nor a candidate the pipeline cannot read
\* stops a loop (pipeline.py:93-99).
Settles == <>[](job # "cross" => Quiet /\ cands = <<>> /\ ppc = "idle")

\* "All candidates found get into the pipeline: scanner, simulator, ..."
\* (scanner.py:15-16): the pipeline reads the pools of each it takes.
CandidateSimulated ==
  [][cands # <<>> /\ cands' = Tail(cands) => ppc' = "buy"]_vars
=============================================================================
