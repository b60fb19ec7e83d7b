----------------------------- MODULE Universe ------------------------------
(***************************************************************************)
(* The universe of tokens (discovery/universe.py): a score for each in     *)
(* Redis and a tier for each in Postgres, both written by the bootstrap    *)
(* loops of several processes (discovery/bootstrap.py), the tier by the    *)
(* API as well (api/app.py).                                               *)
(*                                                                         *)
(* Redis is changed at once.  The tiers are upserted one by one in a       *)
(* transaction (db/session.py): each takes the lock of its row, to be kept *)
(* until the commit or the rollback, and waits for that of another.  The   *)
(* tokens and pools of a listing are stored before its signals are taken   *)
(* in, so that a token's row is always found.                              *)
(***************************************************************************)
EXTENDS Naturals, Sequences, FiniteSets, SequencesExt

CONSTANTS
  Jobs,         \* processes that run the bootstrap loop
  Keys,         \* the tokens, in the order in which SCAN names their keys
  Active, Hot,  \* scores of tiers 2 and 3
  Deltas,       \* what a listed pool is worth to its base token
  None,
  MaxBatch,     \* bound: signals of a listing
  MaxSignals,   \* bound: signals in all
  MaxUpsets     \* bound: promotions by hand, expired scores and failed rounds

Tokens == Range(Keys)

ASSUME UniverseAssumption ==
  /\ Keys \in Seq(Tokens) /\ IsInjective(Keys)
  /\ Active \in Nat \ {0} /\ Hot \in Nat /\ Active < Hot
  /\ Deltas \subseteq Nat /\ None \notin Nat
  /\ {MaxBatch, MaxSignals, MaxUpsets} \subseteq Nat

VARIABLES
  score,        \* Redis: score[t], None without a key
  row,          \* Postgres: the committed row of t, or None
  pc, stage,    \* where process p is in its round: a listing or the consolidation
  todo,         \* signals of the listing it has still to take in
  left,         \* keys the consolidation has still to read
  cur,          \* the row it is about to upsert
  tx,           \* tx[p][t]: the uncommitted row of t, whose lock p holds
  expired,      \* history: tokens whose score has expired once
  signals, upsets

redis == <<score, expired>>
local == <<pc, stage, todo, left, cur>>
bounds == <<signals, upsets>>
vars == <<redis, row, local, tx, bounds>>

tier(s) == IF s >= Hot THEN 3 ELSE IF s >= Active THEN 2 ELSE 1

\* bootstrap.py:103-117 and 151-162: the hint of a listing's signal.
Signals(listing) ==
  IF listing = "dexscreener"
  THEN {[token |-> t, delta |-> d, hint |-> IF d >= Active THEN 2 ELSE 1] : t \in Tokens, d \in Deltas}
  ELSE [token : Tokens, delta : Deltas, hint : {1, 3}]

NoRows == [t \in Tokens |-> None]

Init ==
  /\ score = NoRows /\ row = NoRows
  /\ pc = [p \in Jobs |-> "idle"] /\ stage = [p \in Jobs |-> "dexscreener"]
  /\ todo = [p \in Jobs |-> <<>>] /\ left = [p \in Jobs |-> {}]
  /\ cur = [p \in Jobs |-> None]
  /\ tx = [p \in Jobs |-> NoRows]
  /\ expired = {} /\ signals = 0 /\ upsets = 0
-----------------------------------------------------------------------------
Goto(p, l) == pc' = [pc EXCEPT ![p] = l]
Value(t) == IF score[t] = None THEN 0 ELSE score[t]

\* The sleep between rounds is over.
Begin(p) ==
  /\ pc[p] = "idle"
  /\ Goto(p, "list") /\ stage' = [stage EXCEPT ![p] = "dexscreener"]
  /\ UNCHANGED <<redis, row, todo, left, cur, tx, bounds>>

After(listing) == IF listing = "dexscreener" THEN "gecko" ELSE "consolidate"

\* A listing is fetched and its tokens and pools stored; then its signals are
\* taken in, if there are any.
List(p) ==
  /\ pc[p] = "list" /\ stage[p] \in {"dexscreener", "gecko"}
  /\ \E n \in 0..MaxBatch :
       /\ signals + n <= MaxSignals /\ signals' = signals + n
       /\ \E ss \in [1..n -> Signals(stage[p])] :
            IF n = 0
            THEN stage' = [stage EXCEPT ![p] = After(@)] /\ UNCHANGED <<pc, todo>>
            ELSE todo' = [todo EXCEPT ![p] = ss] /\ Goto(p, "run") /\ UNCHANGED stage
  /\ UNCHANGED <<redis, row, left, cur, tx, upsets>>

\* SCAN names the keys there are.
Scan(p) ==
  /\ pc[p] = "list" /\ stage[p] = "consolidate"
  /\ left' = [left EXCEPT ![p] = {t \in Tokens : score[t] # None}]
  /\ Goto(p, "run")
  /\ UNCHANGED <<redis, row, stage, todo, cur, tx, bounds>>

\* A signal: the score is raised at once, the hint is to be upserted.
Bump(p) ==
  /\ pc[p] = "run" /\ todo[p] # <<>>
  /\ LET s == Head(todo[p]) IN
       /\ score' = [score EXCEPT ![s.token] = Value(s.token) + s.delta]
       /\ cur' = [cur EXCEPT ![p] = [token |-> s.token, tier |-> s.hint, score |-> s.delta, by |-> "hint"]]
  /\ todo' = [todo EXCEPT ![p] = Tail(@)]
  /\ Goto(p, "write")
  /\ UNCHANGED <<row, stage, left, tx, bounds, expired>>

\* The next key of the scan is read, in the same order by everybody; one that
\* has expired since counts as zero.
Read(p) ==
  /\ pc[p] = "run"
  /\ \E i \in DOMAIN Keys : LET t == Keys[i] IN
       /\ t \in left[p] /\ \A j \in 1..i - 1 : Keys[j] \notin left[p]
       /\ left' = [left EXCEPT ![p] = @ \ {t}]
       /\ cur' = [cur EXCEPT ![p] = [token |-> t, tier |-> tier(Value(t)), score |-> Value(t), by |-> "score"]]
  /\ Goto(p, "write")
  /\ UNCHANGED <<redis, row, stage, todo, tx, bounds>>

Holds(p, t) == tx[p][t] # None
Waits(p, q) == p # q /\ pc[p] = "write" /\ Holds(q, cur[p].token)

\* Mutation: the higher tier stays.
UpsertedHigher(old, new) ==
  IF old = None THEN new ELSE [new EXCEPT !.tier = IF @ < old.tier THEN old.tier ELSE @]

\* What an upsert makes of a row: ON CONFLICT DO UPDATE.
Upserted(old, new) == new

\* upsert_universe: the row is locked and written, once nobody else has it.
Write(p) ==
  /\ pc[p] = "write" /\ \A q \in Jobs : ~Waits(p, q)
  /\ LET t == cur[p].token
         old == IF Holds(p, t) THEN tx[p][t] ELSE row[t]
         new == [tier |-> cur[p].tier, score |-> cur[p].score, by |-> cur[p].by]
     IN tx' = [tx EXCEPT ![p][t] = Upserted(old, new)]
  /\ cur' = [cur EXCEPT ![p] = None]
  /\ Goto(p, "run")
  /\ UNCHANGED <<redis, row, stage, todo, left, bounds>>

\* The session commits: its rows are the rows, its locks are free.
Commit(p) ==
  /\ pc[p] = "run" /\ todo[p] = <<>> /\ left[p] = {}
  /\ row' = [t \in Tokens |-> IF Holds(p, t) THEN tx[p][t] ELSE row[t]]
  /\ tx' = [tx EXCEPT ![p] = NoRows]
  /\ IF stage[p] = "consolidate" THEN Goto(p, "idle") /\ UNCHANGED stage
     ELSE Goto(p, "list") /\ stage' = [stage EXCEPT ![p] = After(@)]
  /\ UNCHANGED <<redis, todo, left, cur, bounds>>

Upset == upsets < MaxUpsets /\ upsets' = upsets + 1

\* Mutation: the session is left open by an exception.
RollbackMissing(p) == tx

\* session.py:46-47: an exception releases what the transaction holds.
Rollback(p) == [tx EXCEPT ![p] = NoRows]

\* The round is given up: bootstrap_loop logs the exception and sleeps.
GiveUp(p) ==
  /\ tx' = Rollback(p)
  /\ Goto(p, "idle")
  /\ todo' = [todo EXCEPT ![p] = <<>>] /\ left' = [left EXCEPT ![p] = {}]
  /\ cur' = [cur EXCEPT ![p] = None]
  /\ UNCHANGED <<redis, row, stage, signals>>

\* A listing, Redis or Postgres fails, or the process dies.
Fail(p) ==
  /\ pc[p] # "idle" /\ Upset
  /\ GiveUp(p)

\* Postgres ends a circle of waits by refusing one of them.
Deadlock(p) ==
  /\ \E S \in SUBSET Jobs :
       /\ p \in S
       /\ \A q \in S : (\E r \in S : Waits(q, r)) /\ (\E r \in S : Waits(r, q))
  /\ GiveUp(p) /\ UNCHANGED upsets

\* POST /universe/promote: a transaction of one upsert.
Promote(t, n) ==
  /\ Upset
  /\ \A p \in Jobs : ~Holds(p, t)
  /\ row' = [row EXCEPT ![t] = Upserted(@, [tier |-> n, score |-> Hot, by |-> "hand"])]
  /\ UNCHANGED <<redis, local, tx, signals>>

\* A score nobody has raised for two days is gone; rounds are shorter.
Expire(t) ==
  /\ score[t] # None /\ Upset
  /\ \A p \in Jobs : stage[p] # "consolidate" => ~Holds(p, t) /\ (cur[p] # None => cur[p].token # t)
  /\ score' = [score EXCEPT ![t] = None]
  /\ expired' = expired \cup {t}
  /\ UNCHANGED <<row, local, tx, signals>>
-----------------------------------------------------------------------------
Step(p) ==
  \/ Begin(p) \/ List(p) \/ Scan(p) \/ Bump(p) \/ Read(p) \/ Write(p) \/ Commit(p)
  \/ Deadlock(p)

Next ==
  \/ \E p \in Jobs : Step(p) \/ Fail(p)
  \/ \E t \in Tokens : Expire(t) \/ \E n \in 1..3 : Promote(t, n)

Spec == Init /\ [][Next]_vars

\* Loops go on; Postgres grants a lock in the order of asking, so that a
\* process whose row is free again and again gets it.
Fairness == \A p \in Jobs : WF_vars(Step(p)) /\ SF_vars(Write(p))

FairSpec == Spec /\ Fairness
-----------------------------------------------------------------------------
Rows == [tier : 1..3, score : Nat, by : {"hint", "score", "hand"}]
Upserts == [token : Tokens, tier : 1..3, score : Nat, by : {"hint", "score"}]

TypeOK ==
  /\ score \in [Tokens -> Nat \cup {None}] /\ row \in [Tokens -> Rows \cup {None}]
  /\ pc \in [Jobs -> {"idle", "list", "run", "write"}]
  /\ stage \in [Jobs -> {"dexscreener", "gecko", "consolidate"}]
  /\ tx \in [Jobs -> [Tokens -> Rows \cup {None}]]
  /\ left \in [Jobs -> SUBSET Tokens]
  /\ DOMAIN todo = Jobs /\ DOMAIN cur = Jobs
  /\ \A p \in Jobs :
       /\ todo[p] \in Seq(Signals(stage[p]))
       /\ IF pc[p] = "write" THEN cur[p] \in Upserts ELSE cur[p] = None
       /\ pc[p] \in {"idle", "list"} => todo[p] = <<>> /\ left[p] = {} /\ tx[p] = NoRows
  /\ expired \subseteq Tokens /\ signals \in 0..MaxSignals /\ upsets \in 0..MaxUpsets

\* A tier above what the score gives is owed to a hint or to the API, or to a
\* score that has expired, never to the consolidation (universe.py:108-119),
\* although it writes what it read before others raised the score or
\* overwrote the row.
TierGrounded ==
  \A t \in Tokens \ expired :
    row[t] # None /\ row[t].tier > tier(Value(t)) => row[t].by # "score"

\* Every round ends, by its commit or by an exception (bootstrap.py:199-206):
\* no lock is waited for for ever.
RoundsEnd == \A p \in Jobs : pc[p] # "idle" ~> pc[p] = "idle"

\* Once the listings are silent, the tier of each token is that of its score,
\* whatever hints, promotions and failures came before (universe.py:94-122).
\* A token whose score has expired keeps its tier and is not spoken of.
TiersAgree ==
  <>[](\A t \in Tokens : score[t] # None =>
         row[t] # None /\ row[t].tier = tier(score[t]))
=============================================================================
