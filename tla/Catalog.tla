------------------------------ MODULE Catalog ------------------------------
(***************************************************************************)
(* The rows of chains, tokens and pools in Postgres (db/repositories.py)   *)
(* and those who write them: the bootstrap loops with what the listings    *)
(* name (discovery/bootstrap.py), the Solana watchers with every account   *)
(* they hear of (tracking/solana_tracker.py), and the EVM trackers, which  *)
(* load their pools and ask the tokens themselves for their decimals       *)
(* before they track anything (tracking/evm_tracker.py).                   *)
(*                                                                         *)
(* Each of them works in a transaction (db/session.py): it locks the rows  *)
(* it writes one by one, keeps them to the end, and waits for a row that   *)
(* another one holds.  What it wrote is seen by others once it commits.    *)
(* Of a row's columns only the decimals of tokens matter here.             *)
(***************************************************************************)
EXTENDS Naturals, Sequences, FiniteSets, SequencesExt

CONSTANTS
  Loops,        \* processes that run the bootstrap loop
  Watchers,     \* watchers of programs, in any process
  Trackers,     \* processes that run the EVM tracker of chain Evm
  Networks,     \* the chains, in the order of the settings
  Evm, Solana,  \* the chain of the trackers, and that of the watchers
  Pools, ChainOf, Pair,  \* pools, their chains, and their two tokens as the contract has them
  Tokens, Dec,  \* the tokens' decimals, as their contracts have them
  Program,      \* the program of each pool on Solana
  None,
  MaxListed,    \* bound: pools a listing names
  MaxTx,        \* bound: listings and notifications
  MaxFaults     \* bound: failed calls and transactions

Chains == Range(Networks)
Procs == Loops \cup Watchers \cup Trackers

\* One row per chain name, and per address of a token or pool of a chain.
Rows == Chains \cup Tokens \cup Pools

\* What may be written to a row of S.
Updates(S) == [row : S, dec : Nat]

ASSUME CatalogAssumption ==
  /\ Loops \cap Watchers = {} /\ (Loops \cup Watchers) \cap Trackers = {}
  /\ Networks \in Seq(Chains) /\ IsInjective(Networks)
  /\ Chains \cap Tokens = {} /\ (Chains \cup Tokens) \cap Pools = {}
  /\ None \notin Nat \cup Rows /\ None \notin Updates(Tokens)
  /\ ChainOf \in [Pools -> Chains] /\ Pair \in [Pools -> Tokens \X Tokens]
  /\ \A q, r \in Pools :   \* one address on two chains has two rows
       {Pair[q][1], Pair[q][2]} \cap {Pair[r][1], Pair[r][2]} # {} => ChainOf[q] = ChainOf[r]
  /\ Evm # Solana
  /\ IsFiniteSet(Tokens) /\ Dec \in [Tokens -> Nat]
  /\ {MaxListed, MaxTx, MaxFaults} \subseteq Nat

\* What a listing writes for lack of anything better (bootstrap.py:71).
Unknown == 18

VARIABLES
  row,          \* the committed rows: decimals for a token, 0 for others, or None
  pc,           \* what each process is doing
  stage,        \* the listing a bootstrap loop is at
  todo,         \* the rows a transaction has still to write
  tx,           \* tx[p][r]: what p has written to r and not committed; its locks
  dirty,        \* the row a tracker's session has changed and not flushed yet
  asked,        \* the tokens a tracker asks for their decimals, or has asked
  failed,       \* history: tokens that did not answer it
  late,         \* history: tokens a listing or a failed call wrote since it loaded its pools
  txs, faults

session == <<tx, todo, dirty>>
tracker == <<asked, failed>>
vars == <<row, pc, stage, session, tracker, late, txs, faults>>

NoRows == [r \in Rows |-> None]

\* Where a process begins, and begins again.
Rest(p) == IF p \in Loops THEN "list" ELSE IF p \in Watchers THEN "idle" ELSE "off"

\* The migration leaves the tables empty.
Init ==
  /\ row = NoRows
  /\ pc = [p \in Procs |-> Rest(p)]
  /\ stage = [l \in Loops |-> "dexscreener"]
  /\ todo = [p \in Procs |-> <<>>] /\ tx = [p \in Procs |-> NoRows]
  /\ dirty = [k \in Trackers |-> None] /\ asked = [k \in Trackers |-> {}]
  /\ failed = [k \in Trackers |-> {}] /\ late = [k \in Trackers |-> {}]
  /\ txs = 0 /\ faults = 0
-----------------------------------------------------------------------------
Goto(p, l) == pc' = [pc EXCEPT ![p] = l]
Holds(p, r) == tx[p][r] # None
Visible(p, r) == IF Holds(p, r) THEN tx[p][r] ELSE row[r]

\* The row p needs next, or None.
Wanted(p) ==
  IF p \in Trackers THEN IF dirty[p] = None THEN None ELSE dirty[p].row
  ELSE IF todo[p] = <<>> THEN None ELSE Head(todo[p]).row

Waits(p, q) == p # q /\ Wanted(p) # None /\ Holds(q, Wanted(p))
Free(p) == \A q \in Procs : ~Waits(p, q)

\* Mutation: the chain is upserted when the pool's own row needs it.
UpsertsChainLate(q, t0, t1, d0, d1) ==
  << [row |-> t0, dec |-> d0], [row |-> t1, dec |-> d1],
     [row |-> ChainOf[q], dec |-> 0], [row |-> q, dec |-> 0] >>

\* The upserts of a pool: its chain, its tokens in the order given, itself.
Upserts(q, t0, t1, d0, d1) ==
  << [row |-> ChainOf[q], dec |-> 0], [row |-> t0, dec |-> d0],
     [row |-> t1, dec |-> d1], [row |-> q, dec |-> 0] >>

\* A listing names a pool's tokens as base and quote, in either order.
Listed(q, inverse) ==
  IF inverse THEN Upserts(q, Pair[q][2], Pair[q][1], Unknown, Unknown)
  ELSE Upserts(q, Pair[q][1], Pair[q][2], Unknown, Unknown)

Position(q) == CHOOSE i \in DOMAIN Networks : Networks[i] = ChainOf[q]

\* Both clients are asked chain by chain.
ChainByChain(s) == \A i, j \in DOMAIN s : i < j => Position(s[i].pool) <= Position(s[j].pool)

\* What a listing may return: failed queries leave pools out.  A pool named
\* twice adds nothing: its rows are locked by then.
Listings ==
  {s \in UNION {[1..n -> [pool : Pools, inverse : BOOLEAN]] : n \in 0..MaxListed} :
     ChainByChain(s) /\ IsInjective([i \in DOMAIN s |-> s[i].pool])}

\* The upserts of a listing, pool by pool, four for each.
Batch(s) ==
  [i \in 1..4 * Len(s) |->
     LET entry == s[(i + 3) \div 4] IN Listed(entry.pool, entry.inverse)[((i + 3) % 4) + 1]]

Batches == {Batch(s) : s \in Listings}

NextStage(l) == IF stage[l] = "dexscreener" THEN "gecko" ELSE "dexscreener"

\* A listing is fetched; what it names is stored in one transaction, unless
\* it names nothing.  The pause between rounds is a fetch that takes long;
\* the signals of a listing are the subject of Universe.
Fetch(l) ==
  /\ pc[l] = "list"
  /\ \E s \in Batches :
       IF s = <<>>
       THEN stage' = [stage EXCEPT ![l] = NextStage(l)] /\ UNCHANGED <<pc, todo, txs>>
       ELSE /\ txs < MaxTx /\ txs' = txs + 1
            /\ todo' = [todo EXCEPT ![l] = s]
            /\ Goto(l, "tx") /\ UNCHANGED stage
  /\ UNCHANGED <<row, tx, dirty, tracker, late, faults>>

\* The decimals a handler registers: of the account for raydium, guesses of
\* its own for the rest.
HandlerDecimals(q) ==
  CASE Program[q] = "raydium" -> <<Dec[Pair[q][1]], Dec[Pair[q][2]]>>
    [] Program[q] = "pumpswap" -> <<6, 9>>
    [] OTHER -> <<9, 9>>

\* A watcher hears of a pool and registers it, known or not.
Notified(w) ==
  /\ pc[w] = "idle" /\ txs < MaxTx
  /\ txs' = txs + 1
  /\ \E q \in {p \in Pools : ChainOf[p] = Solana} :
       LET d == HandlerDecimals(q)
       IN todo' = [todo EXCEPT ![w] = Upserts(q, Pair[q][1], Pair[q][2], d[1], d[2])]
  /\ Goto(w, "tx")
  /\ UNCHANGED <<row, stage, tx, dirty, tracker, late, faults>>

\* INSERT ... ON CONFLICT DO UPDATE, once nobody else holds the row.
Upsert(p) ==
  /\ pc[p] = "tx" /\ p \notin Trackers /\ todo[p] # <<>> /\ Free(p)
  /\ LET u == Head(todo[p]) IN tx' = [tx EXCEPT ![p][u.row] = u.dec]
  /\ todo' = [todo EXCEPT ![p] = Tail(@)]
  /\ UNCHANGED <<row, pc, stage, dirty, tracker, late, txs, faults>>
-----------------------------------------------------------------------------
\* The pools there are on the trackers' chain.
Stored == {q \in Pools : ChainOf[q] = Evm /\ row[q] # None}

\* The tokens the query for these pools may show.  It joins the table of
\* tokens twice under one name (evm_tracker.py:46-51): Postgres refuses that,
\* or, where the library renames one of the two, both columns are the same
\* end of the pool.
Shown == {{Pair[q][e[q]] : q \in Stored} : e \in [Stored -> 1..2]}

\* evm_tracker.py:61-62, 72-78: no decimals count as 18; 18 may be right and
\* is asked for all the same.
Missing(T) == {t \in T : row[t] \in {0, Unknown}}

\* The supervisor starts the tracker, for the first time or again.
Start(k) ==
  /\ pc[k] = "off"
  /\ Goto(k, "load")
  /\ UNCHANGED <<row, stage, session, tracker, late, txs, faults>>

\* The pools are loaded.
Load(k) ==
  /\ pc[k] = "load" /\ Stored # {}
  /\ \E T \in Shown :
       /\ asked' = [asked EXCEPT ![k] = Missing(T)]
       /\ Goto(k, IF Missing(T) = {} THEN "reload" ELSE "ask")
  /\ late' = [late EXCEPT ![k] = {}]
  /\ UNCHANGED <<row, stage, session, failed, txs, faults>>

\* fetch_metadata: the tokens are asked in one multicall, in the order of a
\* set; for one that does not answer 18 is taken.
Ask(k) ==
  /\ pc[k] = "ask"
  /\ \E F \in SUBSET {t \in asked[k] : Dec[t] # Unknown}, s \in SetToSeqs(asked[k]) :
       /\ faults + Cardinality(F) <= MaxFaults /\ faults' = faults + Cardinality(F)
       /\ failed' = [failed EXCEPT ![k] = F]
       /\ todo' = [todo EXCEPT ![k] =
                     [i \in DOMAIN s |-> [row |-> s[i], dec |-> IF s[i] \in F THEN Unknown ELSE Dec[s[i]]]]]
  /\ Goto(k, "tx")
  /\ UNCHANGED <<row, stage, tx, dirty, asked, late, txs>>

\* Mutation: decimals are set where there are none, as the symbol is.
SelectUnset(k) ==
  /\ pc[k] = "tx" /\ dirty[k] = None /\ todo[k] # <<>>
  /\ LET u == Head(todo[k]) IN
       dirty' = IF Visible(k, u.row) = 0 THEN [dirty EXCEPT ![k] = u] ELSE dirty
  /\ todo' = [todo EXCEPT ![k] = Tail(@)]
  /\ UNCHANGED <<row, pc, stage, tx, tracker, late, txs, faults>>

\* A token is read and its object changed, if it differs; a new symbol alone
\* changes the object as well, and leaves the decimals out of the UPDATE.
Select(k) ==
  /\ pc[k] = "tx" /\ dirty[k] = None /\ todo[k] # <<>>
  /\ LET u == Head(todo[k]) IN
       IF u.dec # Visible(k, u.row)
       THEN dirty' = [dirty EXCEPT ![k] = u]
       ELSE \E symbol \in BOOLEAN :
              dirty' = IF symbol THEN [dirty EXCEPT ![k] = [row |-> u.row, dec |-> None]] ELSE dirty
  /\ todo' = [todo EXCEPT ![k] = Tail(@)]
  /\ UNCHANGED <<row, pc, stage, tx, tracker, late, txs, faults>>

\* The session flushes its change before it reads or commits.
Flush(k) ==
  /\ pc[k] = "tx" /\ dirty[k] # None /\ Free(k)
  /\ LET u == dirty[k]
     IN tx' = [tx EXCEPT ![k][u.row] = IF u.dec = None THEN Visible(k, u.row) ELSE u.dec]
  /\ dirty' = [dirty EXCEPT ![k] = None]
  /\ UNCHANGED <<row, pc, stage, todo, tracker, late, txs, faults>>

\* The pools are loaded again, and tracked with what was loaded.
Reload(k) ==
  /\ pc[k] = "reload"
  /\ Goto(k, "run")
  /\ UNCHANGED <<row, stage, session, tracker, late, txs, faults>>
-----------------------------------------------------------------------------
Written(p) == {t \in Tokens : Holds(p, t)}

\* What a commit of p means to a tracker that loaded its pools before.
Late(p) == IF p \in Loops THEN Written(p) ELSE IF p \in Trackers THEN failed[p] \cap Written(p) ELSE {}

\* The session commits: its rows are the rows, its locks are free.
Commit(p) ==
  /\ pc[p] = "tx" /\ todo[p] = <<>> /\ Wanted(p) = None
  /\ row' = [r \in Rows |-> Visible(p, r)]
  /\ tx' = [tx EXCEPT ![p] = NoRows]
  /\ late' = [k \in Trackers |-> late[k] \cup Late(p)]
  /\ Goto(p, IF p \in Trackers THEN "reload" ELSE Rest(p))
  /\ stage' = IF p \in Loops THEN [stage EXCEPT ![p] = NextStage(p)] ELSE stage
  /\ UNCHANGED <<todo, dirty, tracker, txs, faults>>

\* Mutation: the session is left open by an exception.
RollbackMissing(p) == tx

\* session.py:46-47: an exception releases what the transaction holds.
Rollback(p) == [tx EXCEPT ![p] = NoRows]

\* A round or a notification is given up; a tracker is started again by its
\* supervisor.
GiveUp(p) ==
  /\ tx' = Rollback(p) /\ todo' = [todo EXCEPT ![p] = <<>>]
  /\ Goto(p, Rest(p))
  /\ stage' = IF p \in Loops THEN [stage EXCEPT ![p] = "dexscreener"] ELSE stage
  /\ IF p \in Trackers
     THEN /\ dirty' = [dirty EXCEPT ![p] = None] /\ asked' = [asked EXCEPT ![p] = {}]
          /\ failed' = [failed EXCEPT ![p] = {}]
     ELSE UNCHANGED <<dirty, tracker>>
  /\ UNCHANGED <<row, late, txs>>

\* A listing, an RPC node or Postgres fails, or the process dies.
Fail(p) ==
  /\ pc[p] \notin {"idle", "off", "load"} /\ faults < MaxFaults
  /\ faults' = faults + 1
  /\ GiveUp(p)

\* The query for the pools is refused, the first or the second time, or there
\* are none yet: the tracker ends.
Refuse(k) ==
  /\ pc[k] \in {"load", "reload"}
  /\ GiveUp(k) /\ UNCHANGED faults

\* Sets of processes each of which waits for another of the set.
Circles ==
  {S \in SUBSET {p \in Procs : ~Free(p)} : S # {} /\ \A p \in S : \E q \in S : Waits(p, q)}

\* Postgres ends a circle of waits by refusing one of them.
Deadlock(p) ==
  /\ ~Free(p)
  /\ \E S \in Circles : p \in S /\ \A q \in S : \E r \in S : Waits(r, q)
  /\ GiveUp(p) /\ UNCHANGED faults
-----------------------------------------------------------------------------
\* Steps that need a row nobody else holds.
Take(p) == pc[p] = "tx" /\ (Upsert(p) \/ (p \in Trackers /\ Flush(p)))

\* Steps of a transaction.
Work(p) ==
  /\ pc[p] = "tx"
  /\ Take(p) \/ (p \in Trackers /\ Select(p)) \/ Commit(p) \/ Deadlock(p)

\* Steps of a tracker outside its transaction.
Track(k) == Start(k) \/ Load(k) \/ Ask(k) \/ Reload(k)

Next ==
  \/ \E p \in Procs : Work(p) \/ Fail(p)
  \/ \E l \in Loops : Fetch(l)
  \/ \E w \in Watchers : Notified(w)
  \/ \E k \in Trackers : Track(k) \/ Refuse(k)

Spec == Init /\ [][Next]_vars

\* Sessions go on; Postgres grants a lock in the order of asking, so that a
\* process whose row is free again and again gets it.  Trackers are started
\* and go on; a query that is refused once may be refused every time.
Fairness ==
  /\ \A p \in Procs : WF_vars(Work(p)) /\ SF_vars(Take(p))
  /\ \A k \in Trackers : WF_vars(Track(k))

FairSpec == Spec /\ Fairness
-----------------------------------------------------------------------------
TypeOK ==
  /\ row \in [Rows -> Nat \cup {None}] /\ tx \in [Procs -> [Rows -> Nat \cup {None}]]
  /\ stage \in [Loops -> {"dexscreener", "gecko"}]
  /\ todo \in [Procs -> Seq(Updates(Rows))]
  /\ DOMAIN pc = Procs /\ \A p \in Procs :
       /\ pc[p] \in {Rest(p), "tx"} \/ (p \in Trackers /\ pc[p] \in {"load", "ask", "reload", "run"})
       /\ pc[p] # "tx" => tx[p] = NoRows /\ todo[p] = <<>>
  /\ dirty \in [Trackers -> {None} \cup [row : Tokens, dec : Nat \cup {None}]]
  /\ asked \in [Trackers -> SUBSET Tokens] /\ failed \in [Trackers -> SUBSET Tokens]
  /\ late \in [Trackers -> SUBSET Tokens]
  /\ \A k \in Trackers :
       /\ pc[k] # "tx" => dirty[k] = None
       /\ pc[k] \in {"off", "load", "ask"} => failed[k] = {}
       /\ todo[k] \in Seq(Updates(asked[k])) /\ failed[k] \subseteq asked[k]
  /\ txs \in 0..MaxTx /\ faults \in 0..MaxFaults

\* Listings that name tokens in opposite orders and registrations never end
\* up waiting in a circle, since each locks the chain's row before the rows
\* of its tokens (bootstrap.py:59-79, solana_tracker.py:91-96), and chains in
\* the order of the settings: a circle takes a tracker, which locks tokens in
\* the order of a set and no chain (evm_tracker.py:83-98).
LocksOrdered == \A S \in Circles : S \cap Trackers # {}

\* A correction of decimals is not lost: the tokens a tracker has asked for
\* them keep what the contract says from its commit on, for as long as it
\* runs, whatever other sessions read before it, wrote or rolled back
\* meanwhile (evm_tracker.py:84-98), except tokens that did not answer and
\* those that a listing or the failed call of another tracker has set to 18
\* since the pools were loaded (bootstrap.py:71).
CorrectionKept ==
  \A k \in Trackers : pc[k] \in {"reload", "run"} =>
    \A t \in asked[k] : row[t] # Dec[t] => t \in late[k] \cup failed[k]

\* Every transaction ends, by its commit or by an exception: no lock is
\* waited for for ever.
TransactionsEnd == \A p \in Procs : pc[p] = "tx" ~> pc[p] # "tx"
=============================================================================
