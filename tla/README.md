# arb-intel: a TLA+ model

arb-intel watches liquidity pools on EVM chains and on Solana, looks for price differences
between them and sends alerts to Telegram chats. It is an asyncio program (Python,
`src/src/arb_intel`) that keeps its shared state in Redis and Postgres and runs as one
all-in-one process (`arb-intel`), as several workers (`arb-intel-worker <kind>`), or, with
the compose file, as both at once.

This directory holds TLA+ modules of its parts, TLC configurations that check them on small
instances, and TLAPS proofs of their main invariants.

Paths below are relative to `src/src/arb_intel`.

## 1. Inventory

### Components, their state and their operations

| component | state | operations | what makes it correct |
|---|---|---|---|
| event bus, `bus/streams.py` | Redis streams, consumer groups with a cursor and a pending list; each consumer's batch in memory | `publish`, `ensure_group`, `consume` | no entry is processed twice; workers of a group do not share entries; an ack follows the work; it is known what a crash loses |
| job supervisor, `utils/asyncio_runner.py`, `workers/entrypoint.py` | tasks, back-off, the stopping event | start, restart, shutdown, signals | a failed job comes back, a failure stays local, a stop ends everything |
| on-chain discovery, `discovery/onchain.py` | one watcher task per factory | subscribe, publish `POOL_NEW` | each factory is watched, once |
| bootstrap and listings, `discovery/bootstrap.py`, `dexscreener.py`, `geckoterminal.py` | rows of chains, tokens and pools in Postgres | fetch listings, upsert tokens and pools, feed the universe | one failing source does not stop the others; batches do not deadlock with one another |
| universe, `discovery/universe.py`, `db/repositories.py` | score per token in Redis, tier per token in Postgres | `ingest`, `consolidate`, the API's `promote` | a tier reflects the score; hints, consolidation and manual promotion do not undo one another |
| EVM tracker, `tracking/evm_tracker.py` | pool index with decimals, detached tail tasks, refresh loop | load, ask tokens for decimals, tail V2 logs, refresh by multicall | the snapshot follows the chain although logs are missed; the decimals are those of the contracts |
| Solana tracker, `tracking/solana_tracker.py` | a watcher per program | one handler per DEX, register the pool | the snapshot follows the chain |
| hot pool state, `tracking/liquidity.py`, `pool_state.py` | a snapshot per pool in Redis | `update_v2`, `update_v3`, `update_solana_amm`, `update_dlmm` | every move of a pool is announced; the last state wins |
| subscriptions, `chains/evm/ws.py`, `chains/solana/ws.py` | URL cycle, back-off, connection | iterate, reconnect | a dropped connection comes back |
| RPC pool, `chains/evm/rpc.py` | per endpoint: health flag, failure streak, load; a rotation | `call`, `batch` | loads are exact; bad endpoints are avoided and get another chance; calls end |
| lag detector, `tracking/lag_detector.py` | windows of snapshots per pair and pool | `ingest_event` | leader and laggard are of the same time window |
| scanners, `arbitrage/scanner.py` | none beyond Redis | per event, periodic cross-chain, fresh pools | a candidate names two pools of one pair, cheap and expensive |
| pipeline, `arbitrage/pipeline.py` | none beyond Redis | read, simulate, judge, publish | only feasible, profitable, trusted candidates are ranked |
| simulator, `simulation/`, USD oracle, `oracle/usd.py` | price cache | amounts out, gas, bridge and slippage cost | no trade yields more than the reserves; costs are not left out |
| heuristics and scoring, `heuristics/`, `scoring/` | none | flags, confidence | confidence is in range and monotone in its inputs |
| alerter, `telegram/bot.py`, `format.py` | dedup and cooldown keys in Redis, `alerts` table, rate limiter | `dispatch` | a chat is not sent the same alert again within the cooldown; what was sent is recorded |
| API, `api/app.py` | none | queries, `promote` | see universe |
| decoders and adapters, `chains/*/dexes`, `layouts`, `abis.py`, `multicall.py` | none | encode, decode | field by field equal to the formats |

### How they interact

    discovery ──POOL_NEW──▶ fresh scanner ─┐
    trackers ──snapshot──▶ Redis ◀── reads ─┤ scanners, lag detector, pipeline
        └──POOL_STATE──▶ state scanner, lag detector ──OPP_CANDIDATE──▶ pipeline
                                          pipeline ──OPP_RANKED──▶ alerter ──▶ Telegram, alerts table

Streams carry events; snapshots are read again by whoever handles an event, so an event and
the state it is judged by may be of different times. Jobs of one process share an event loop
and change state between awaits only; processes share Redis and Postgres. Group and consumer
names are fixed, so the all-in-one process and a worker of the same kind consume as one
consumer.

### What is hard

* Crashes between reading, handling and acking; replies lost after their effect.
* Two writers of a snapshot, each in three awaits; answers that describe a later state than
  the question.
* Keys that expire while a dispatch is waiting for the rate limiter.
* Health flags and loads changed by other tasks while a call waits.
* Tasks that nobody awaits, siblings left behind by `gather`, back-off, signals.
* Partial failure: a message sent and its row refused, a chunk failing a round.
* Snapshots read one by one, by a scan and then by the pipeline, while they change.
* Redis changed at once next to a Postgres transaction that may be rolled back.
* Transactions that lock rows in different orders, and rows that several writers overwrite
  with what they guess.

`PROJECT.json` lists these hazards one by one at their lines, with the properties that would
catch them, or the reason why none does.

## 2. Modules

| module | models | proofs |
|---|---|---|
| `LossyQueue` | abstract: an at-most-once FIFO queue that may drop | |
| `EventBus` | one stream and one consumer group; implements `LossyQueue` | `EventBusProofs` |
| `Alerter` | the alert loops of several processes | `AlerterProofs` |
| `RpcPool` | `JsonRpcPool` shared by tasks | `RpcPoolProofs` |
| `PoolTracker` | all writers of one pool's snapshot | `PoolTrackerProofs` |
| `Supervisor` | jobs, watcher tasks and the stop of one worker | `SupervisorProofs` |
| `Curves` | what a swap returns and what it costs in price | `ScannerProofs` |
| `Simulation` | the round trip, its costs, fakes and confidence; uses `Curves` | `ScannerProofs` |
| `Scanner` | scanners, lag detector and pipeline; composes `Simulation` with moving snapshots | `ScannerProofs` |
| `Universe` | scores in Redis, tiers in Postgres, bootstrap rounds, manual promotion | `UniverseProofs` |
| `Catalog` | the rows of chains, tokens and pools, their writers, and the decimals a tracker corrects | `CatalogProofs` |

Each has an `MC*` module that names the model values, and a `.cfg` file for each run.

### EventBus

`len`, `trimmed`, `group`, `cursor` and `pel` are the server's stream and group; `pc`, `pos`
and `end` are where each worker's `consume()` generator is and the rest of the batch it
holds. `begun` and `finished` record which loop bodies were entered and left. `Publish` is
`XADD MAXLEN ~` (the server may evict any prefix that leaves `MaxLen` entries);
`EnsureGroup` creates the group at the end of the stream; `Read` is `XREADGROUP >`,
`ReadReplyLost` the same with the reply lost; `SkipMalformed`, `Yield`, `Handle` and `Ack`
are the loop over the batch; `Crash` stands for a kill, a cancellation and any Redis error
`consume` does not catch. A loop body is one step here: every job swallows the exceptions of
its body, so that a failed body is acked like a good one.

`LossyQueue` states what a user of the bus may rely on: messages are handed out once at
most, oldest first, and any that is not finished may disappear. `Status` is the refinement
mapping; `QueueSpec` is the implemented specification.

### Alerter

Time is a `Tick` that ages all keys; the interval between two ticks is the unit in which
`Cooldown` is given. `gkey` is the dedup key of `dispatch`, `ckey` the chat's cooldown key,
`rows` the audit table. A process is in `"chat"` at the head of the loop over the chats, in
`"send"` from the won cooldown key to the end of the send (rate limiter included), in
`"persist"` during the INSERT. `Persist` is accepted if the row fits (`Stores`): its
fingerprint no longer than its column, and the first of its kind for the chat. A fingerprint
names three addresses in at least 130 characters and the column has 64
(`db/models.py:204`), so every INSERT of the code is refused, and the exception skips the
chats that remain; `Length` and `Width` are constants, the runs give them these values, and
what is proved holds for any. `Crash` is the end of the process or an error of Redis in the
middle of a dispatch. `MaxBusy` bounds a dispatch: `Tick` is not enabled while it
would make one longer. This is an assumption about Telegram and the limiter, since the code
sleeps for as long as `retry_after` says; every timing property is stated relative to it. A
failed send may or may not have reached the chat.

### RpcPool

`healthy`, `streak` and `inFlight` are the fields of `_Endpoint`, `cursor` is the rotation.
From one await to the next a task runs alone, so a failed post, its bookkeeping, the finally
clause and the next post are one action (`Retry`); the last failure is `GiveUp`. A 5xx or
429 counts two failures, another error one: both are the choice of `n`. `batch` records
nothing; neither does a cancelled call. At present each chain's pool has one caller at a
time; the class is written to be shared and is checked so.

### PoolTracker

The states a pool goes through on chain are numbered, 0 being the pool before it holds
anything; `hot` is the number the snapshot shows, `depth` the number whose liquidity a v3
snapshot shows. A writer reads the previous snapshot, writes its own and publishes the
delta, in three steps, except that the whirlpool handler only writes. Kinds differ in where
the state comes from: `vaults` (Raydium, PumpSwap) ask for balances at the time of handling,
`dlmm`, `whirlpool` and `v2` take what they were sent, `v3` is never subscribed to and comes
from refresh rounds alone; only EVM kinds are refreshed. A v3 round asks for the price
(`Fetch`) and for the liquidity (`FetchLiquidity`) in two multicalls. States in `Empty` have
a drained side and are dropped by the updates of `v2` and `vaults`.

`Connect` and `Drop` are `EvmLogStream` and `SolanaProgramSubscription`, which agree but for
what comes before the ack (skipped by the first): `live` says whether the node sends, and a
drop loses the newest part of what it sent. `HandlerFails` is an exception in a handler; a
V2 tail is dead after one, the other loops go on. `blocked` means that some chunk before the
pool's own raises in every round, as it does when a listing has named a pool whose address
is not one of 20 bytes (`to_checksum_address` refuses the whole multicall); the rounds then
never reach the pool.

### Supervisor

`phase` and `delay` are `_run_job`; `attached` are the watcher tasks of the current run,
`leaked` counts those of earlier runs that still run. `GatheredFails` is the exception that
`gather` passes on while it leaves the siblings alone; `TailFails` that of a tail nobody
awaits. `Signal`, `Unwind`, `ShutDown` and `LoopCloses` are the way down: only the last,
`asyncio.run`, reaches leaked tasks.

### Curves and Simulation

Operators without state, in the units the code computes in: token units for amounts, basis
points for fees, spreads and impacts, `1/PScale` for the doubles that are prices, whole
dollars for costs and profits, per cent for scores. `Q` stands for 2^96 (2^64 for
whirlpools). Divisions are the code's integer divisions, in its order. The logarithm of the
profit score goes in half-decades. `Trust` holds what TVL and wallet diversity take from a
pool's heuristic score; they come from rows no modelled part changes. The table of bridges
and the gas of a chain are constants, as in the code. `simulate` asks for the quote token's
price once per size, here once for all of them.

### Scanner

A behaviour has one scanner (`job`: the state scanner, the cross-chain loop, the fresh-pool
loop or the lag detector) and one set of live pools, both from `Scenes`, next to the
pipeline. Scanners meet only in the stream of candidates and in the snapshots they read, so
running them one at a time loses no interleaving that one of them could notice. `Move` is a
tracker that writes a snapshot, `Announce` its delta, `Expire` the end of a snapshot nobody
renews, `Created` a new pool's event, `Tick` the clock of the lag detector.

* State scanner: `Take`, `ReadSelf`, one `ScanOne` per key, `Judge`, `Tell`. Where two pools
  share an extreme price the order of SCAN decides, here a choice.
* Cross-chain loop: the same from `BeginRound`, grouped by canonical tokens instead of
  addresses.
* Fresh pools: after a warm-up of any length, `ReadSelf` and one `FreshOne` per other pool.
* Lag detector: `LagHear` keeps `win`, its deques, trimmed as the code trims them (only the
  deque heard of, dated by the snapshot read now); `LagLeader` and `LagOne` read leader and
  followers.
* Pipeline: `PipeTake`, the reads of both pools and of the price of the quote token,
  `PipeRank`. Candidates of the lag detector end in `PipeTake`, as the `KeyError` does.

`JobFails` and `PipeFails` are errors of Redis or Postgres that the loops log. What the bus
may lose is in `EventBus`. `verdict`, `stirred` and `big` are histories for the properties.

### Universe

`score` is in Redis, `row` in Postgres; a process is a bootstrap loop with its `stage` (two
listings, then the consolidation). `Bump` raises a score at once and then wants the row;
`Write` is the upsert, which waits for the row's lock; `tx` holds a session's uncommitted
rows, which are its locks; `Commit` and `Rollback` are `session_scope`. `Deadlock` is
Postgres refusing one of a circle of waiting transactions. `Promote` is the API's
transaction of one upsert. Storing a listing's tokens and pools precedes its signals and is
one step with the fetch here; `Catalog` has it in full. Both `consolidate` passes scan in
the same order: `left` is what a pass has still to read, and it takes the first of `Keys` that
is among it. `by` tells who wrote a row.

### Catalog

`row` holds what is committed: the decimals of a token, and that a chain or pool is there.
`tx[p]` is what a session has written, which is what it has locked; `todo[p]` the writes to
come. `Upsert` waits for its row, `Commit` makes the rows visible, `Rollback` drops them.

* Bootstrap loops: `Fetch` takes a listing (any pools, base and quote in either order, chain
  by chain) and `Batch` gives its writes: chain, base, quote, pool, both tokens with 18
  decimals. Two listings make a round.
* Solana watchers: `Notified` is the registration that every handler begins with, in the
  order of the account, with the decimals the handler knows or guesses.
* EVM tracker: `Start` is the supervisor's, `Load` reads the rows and picks the tokens with
  18 decimals (`Missing`), `Ask` is the multicall to them, `Select` and `Flush` the reading
  of each token and the UPDATE that the session flushes before its next query, `Reload` the
  second load, with which it goes on to track. The query of both loads joins the token table
  twice without an alias (`tracking/evm_tracker.py:46-51`). Either Postgres refuses it
  (`Refuse`, which also stands for no pools yet; the tracker ends and its supervisor starts
  it again), or the library renames one of the two, and both columns of a pool show the same
  end of it (`Shown`). The models allow both, since the library is not part of the
  repository. What would be indexed then is not modelled: it names the wrong token.

`Deadlock` is Postgres refusing one of a circle of waits; `Fail` everything else that ends a
transaction, a round or the tracker. `late` and `failed` are histories for `CorrectionKept`:
tokens that a listing, or the failed call of another tracker, wrote since the tracker loaded
its rows, and tokens that did not answer it.

## 3. Runs

All runs are exhaustive over their instance.

| run | what it asks | instance |
|---|---|---|
| `bus` | types, `AtMostOnce`, `ExclusiveBatches`, `LossPerFault`, `AckAfterWork`, `OrphansStay`, refinement of `LossyQueue`, `EverySettles` | 2 workers, 4 entries (1 malformed), batches of 2, eviction down to 2, 2 faults; 42 thousand states |
| `alerter` | types, `SpacedSends`, `OneDispatcher`, `ChatKeyLag`, `DispatchEnds` | 2 processes, 2 alerts with fingerprints of 138 and 144 characters for a column of 64, 2 chats, cooldown 2, dispatches up to 1, crashes; 81 thousand states |
| `alerter_audit` | `SentIsAudited`, violated | 1 chat, the same alerts, no crashes |
| `rpc` | types, `InFlightExact`, `UnhealthyEarned`, `CallEnds` | 3 endpoints, 2 tasks; 180 thousand states |
| `rpc_rotation` | `UnhealthyRetried`, violated | 2 endpoints, 1 task |
| `tracker` | types, `HotTruth`, `MovesTold`, `Converges` | every kind, 2 watchers, 1 refresher that reaches the pool or does not, 3 changes of which the second drains the pool, 1 fault; 1 million states |
| `jobs` | types, `FailureIsolated`, `CopiesEarned`, `WatchedAgain`, `StopsAll` | a gathering job with 3 watchers, a job with a detached tail, 3 failures, 3 back-off steps; 21 thousand states |
| `scanner` | types, `SpreadTold`, `RankedCheaper`, `LaggerStill`, `Settles` | each scanner over three pools of different curves (one with its tokens in the other order, or one on another chain), 2 moves, 1 failure, window 1 of 2 ticks, stream of 1 candidate; 58 thousand states |
| `scanner_lag` | `CandidateSimulated`, violated | the lag detector alone |
| `scanner_cross` | `BridgedRanked`, violated | the cross-chain loop over two chains and a bridge, no failures |
| `universe` | types, `TierGrounded`, `RoundsEnd`, `TiersAgree` | 2 processes, 2 tokens, listings of up to 2 signals, 2 signals in all, 1 upset (failed round, promotion, expired score); 88 thousand states |
| `catalog` | types, `LocksOrdered`, `CorrectionKept`, `TransactionsEnd` | 1 bootstrap loop, 1 watcher, 1 tracker, two pools of one pair on its chain and one on Solana, 2 listings or notifications of up to 2 pools, 1 failure; 93 thousand states |

Bounds. Two workers, processes, tasks or watchers show every pairwise interleaving. Four
entries and batches of two let a crash strand one batch while a second is read, a third
published and the first evicted. The cooldown of two with dispatches of one has dispatches
that straddle the expiry of either key. Three endpoints make the rotation differ from an
alternation, and `min(3, n)` reach its limit. Three changes of a pool let a slow writer write
an old state over a newer one and a third put it right. Three failures allow a second copy of
a watcher to leak after a restart and a leaked one to fail. Two moves of three pools let one
pool move between the scan's reads or the pipeline's and another expire or appear; the
snapshots are chosen so that spreads on both sides of `MinSpread` and round trips on both
sides of `MinProfit` occur, and so that an opportunity to buy from a pool of each curve is
ranked in some state; prices are small because TLC counts with 32 bits. Two ticks outlast a
window of one. Two signals let one process raise a score the other has read, and cross over
two rows in either order; `Hot` is the sum of both. Two listings or notifications, of up to
two pools, show each pair of transactions of different kinds crossing (two bootstrap loops or
two trackers at once are left to the proofs); of the tokens of the EVM pools one has 18
decimals and one has not, so that the tracker asks in vain for one and corrects the other,
and two pools of the pair let the query show either end or both. Counters are bounded by
`MaxMsgs`, `MaxVer`, `MaxFaults` and `MaxFails`; streaks are counted up to the threshold,
ages up to the cooldown, as nothing looks further.

Fairness. The event loop runs whatever task is ready, so handlers, generators and dispatches
are weakly fair; the supervisor's back-off and httpx's timeout are finite, so restarts and
the end of a post are. Producers, the chain, signals, crashes and failures are never fair.
In `rpc_rotation` calls are weakly fair: the refresh loop issues them as long as the tracker
runs.

In `Scanner` the trackers publish the delta they are about to, and every loop but the
cross-chain one, which never rests, is fair; in `Universe` a transaction whose row is free
again and again gets it (strong fairness of `Write`), since Postgres grants locks in the
order in which they are asked for, and so it does in `Catalog` (`Take`), where besides the
steps of a transaction only a tracker's own are fair: its supervisor starts it whenever it
ended. `Refuse` owes nothing, so a query may be refused once, always or never. Moves, the
clock, promotions, expiries, listings and notifications owe nothing, nor does a node that is
to take a subscription again.

Deadlock is checked for `Alerter`, `RpcPool` and `Universe`, which never rest. It is
switched off for `EventBus`, `PoolTracker`, `Scanner` and `Catalog`, which rest when no more
entries, changes or listings come, and for `Supervisor`, which ends. The deadlocks of
Postgres are states of `Catalog` and `Universe`, and the properties speak of them.

### Where code and documentation disagree

* `telegram/bot.py:7` says alerts are kept for audit. Fingerprints do not fit their column
  (above), so the very first INSERT is refused: the table stays empty, and the exception
  skips the chats that remain (`alerter_audit`).
* `chains/evm/rpc.py:1,35,58` speak of rotation, deprioritisation and auto-recovery. An
  unhealthy endpoint is not used again while another is healthy (`rpc_rotation`).
* `arbitrage/scanner.py:15-16` says all candidates get into the simulator. Those of the lag
  detector lack the keys the pipeline reads first (`scanner_lag`).
* The same lines, and `simulation/bridges.py:4-6`, have cross-chain candidates discarded only
  if they lose after the bridge. They pair tokens of different addresses, and the simulator
  wants the same ones (`simulation/simulator.py:115`), so none is ever ranked, whatever it
  would earn (`scanner_cross`; `NoneAcrossChains` proves that for all constants). Bridge
  costs, and the weight of that kind, are never used.

Other things the models show, or reading for them did:

* `bus/streams.py:3` gives delivery guarantees as the reason for streams. `consume` never
  reads the pending list, so a crash or lost reply loses up to 64 entries for good;
  `LossPerFault` and `OrphansStay` say exactly how much.
* `tracking/liquidity.py:4-5` says each update is announced. The whirlpool handler writes
  the snapshot itself (`tracking/solana_tracker.py:171`) and announces nothing, so that
  `MovesTold` has to leave whirlpools out.
* A listing and a tracker that stores decimals may deadlock (`LocksOrdered` says that every
  circle has a tracker in it): the listing's whole transaction, or the tracker's start, is
  given up. Listings and registrations never deadlock with one another.
* Every bootstrap round sets the decimals of every token it names to 18 again, on Solana
  too, and so undoes what a tracker has corrected (`CorrectionKept` has to excuse these
  tokens).
* A token of 0 decimals is taken for one of 18 by `decimals or 18`
  (`tracking/evm_tracker.py:61`), whatever it answers.
* The last writer of a row wins, with what it does not know: a GeckoTerminal batch or a
  Solana registration empties `symbol` and `is_stable`, and the `extra.ds.px_usd` of a pool
  that the USD oracle falls back to. For a pool's tokens and kind the first writer wins:
  base and quote of a listing become `token0` and `token1`, while reserves come in the
  contract's order.
* One value too long for its column, say a symbol of more than 32 characters, refuses a
  listing of up to 1500 pairs, or ends each start of a tracker, since all of it is one
  transaction.
* One pool with an address of other than 20 bytes keeps all pools behind it from being
  refreshed (`blocked`); v3 pools, which come after all others, have no other source.
* Handlers of whirlpool and dlmm pools take 9 decimals for both tokens
  (`tracking/solana_tracker.py:86`), so their prices are off by powers of ten against those
  of other pools unless both tokens have 9.
* Pools stored after a tracker has built its index are not tracked until it restarts.
* `canonical_group` lower-cases addresses (`arbitrage/scanner.py:88`) while the Solana
  entries of its table are in mixed case, so no Solana token is canonical.
* Pools of a pair in opposite token order are compared by prices that are inverse to each
  other; the false spread is told, and only the simulated round trip keeps it from being
  ranked (`SpreadTold` speaks of aligned pairs, `RankedCheaper` of all).
* A leader's large move may be older than the window, since only the deque just heard of is
  trimmed: a pool that has long been silent still leads, against what
  `tracking/lag_detector.py:6-8` says.
* The query that loads a tracker's pools is refused, or shows one token twice (see
  `Catalog`), so that no EVM tracker comes to follow what `tracking/evm_tracker.py:1-10` says
  it follows.
* A token whose score has expired keeps its tier for ever (`TiersAgree` leaves it out); a
  hint may lower a tier until the next consolidation.
* The impact of a v3 swap compares an average price per whole token with a spot price per
  unit (`simulation/curves.py:102-111`).

## 4. Proofs

TLAPS proves every invariant and action property that a passing run checks, `LaggerStill`,
`AckAfterWork`, `OrphansStay` and the refinement of `LossyQueue` included, for every value
of the constants that satisfies the named assumptions below. TLC shows the same on the
instances of section 3; it checked each inductive invariant before it was proved.

Each proof has the same outline: an inductive invariant `IInv` (in `ScannerProofs` one
`Inv` per theorem, since its properties rest on different facts), a lemma per action or per
part that the action may disturb, `Invariance`, and a theorem per property.

* `EventBusProofs`. The inductive invariant adds to the type invariant, `ExclusiveBatches`
  and `AtMostOnce` that the batch a worker holds is where its control point says, read or
  not, its current entry finished or not (`BatchInv`), and that an entry beyond the cursor,
  or still ahead of its holder, has not been begun (`FreshInv`). `AtMostOnce` is not
  inductive alone: that a read hands out fresh entries follows only from `FreshInv`. From it
  follow `AckAfterWork` (`PelShrinks`: only the ack of a current entry shrinks the list),
  `OrphansStay` (`NewlyHeld`: a worker comes to hold an entry only from beyond the cursor)
  and the refinement of `LossyQueue`, step by step. `LossPerFault` counts: no worker holds
  more than a batch (`CountInv`), so a crash or a lost reply adds at most that many orphans
  and no other step adds any.
* `AlerterProofs`. `Timing` ties each key to the others: the global key outlasts the
  dispatch that set it (`gkey + busy >= Cooldown` while one runs), a chat key lags behind by
  at most the bound on a dispatch, and a chat's age and its key together cover the cooldown.
  `SpacedSends`, `OneDispatcher` and `ChatKeyLag` are parts of it.
* `RpcPoolProofs`. `InFlightExact` is inductive with the types, by counting the tasks that
  wait before and after; `UnhealthyEarned` needs that a streak of n is explained by failures
  of weight two at most (`StreakEarned`).
* `PoolTrackerProofs`. `HotTruth` speaks of states at rest, so the invariant has to say what
  is on its way to rest: a watcher that is still to hear of the newest state, is at it, has
  lost it or has written it (`HeardInv`); each watcher writes states in their order, since it
  takes its notifications one by one or asks for the state of now (`OrderInv`); the
  snapshot is what some writer wrote last (`LastInv`); the liquidity of a v3 pool is asked
  for after the price and is no older (`DepthInv`). `StageInv` says what each control point
  holds. A watcher alone writes in order, two of them do not, which is why `HotTruth` needs
  all of them to have caught up. `MovesTold` is inductive with `SeenInv`: what a writer
  read as the previous snapshot has been written, and so been announced by its writer.
* `SupervisorProofs`. `FailureIsolated` is inductive with the types. For `CopiesEarned`,
  `LeakInv` says that the copies of a watcher that were left behind are no more than the
  failures of its siblings, if the job gathers, and that other jobs leave none before the
  stop. Sums over a
  set of watchers are taken apart one element at a time (`SumUnfold`, `SumBump`).
* `UniverseProofs`. `TierGrounded` is about committed rows, which come from what a
  transaction wrote, which comes from what a pass read: `RowsBelow`, `WritesBelow` and
  `ReadsBelow` bound each by the score, which may only be raised in between (`Bump`) or
  expire. `TierMonotonic` carries a bound over a raised score.
* `CatalogProofs`. For `LocksOrdered`, a row has one holder (`Exclusive`) and every
  transaction of a listing or registration holds, or will write before it, what a row needs
  (its chain, and a pool's tokens), chain by chain (`InOrder`). In a circle of such
  transactions each waits for a chain's row, since it has or first wants the chain of
  whatever it wants, which its holder has too; and the holder itself waits for a later
  chain. The one that waits for the last of these chains refutes that (`NoCircle`). For
  `CorrectionKept`, `WritesInv` follows a token's decimals through tables and transactions:
  loops write 18, watchers nothing of the tracker's chain, a tracker what it was answered;
  `Grounded` says that a token a tracker has asked is excused, is still to be asked or
  written, or is right in what the tracker sees (`Coming`).
* `ScannerProofs` has the curves, the simulator and the scanners.
  - For all reserves, fees and amounts of constant-product pools, `v2_amount_out` never
    lowers the product of the reserves (`ProductKept`), so it stays below the reserve and
    never beats the spot price (`BelowReserve`, `NoBetterThanSpot`); two swaps in a row gain
    nothing unless the second pool pays more (`NoProfitWithoutSpread`), and the simulator
    finds no size feasible (`NoSpreadNotFeasible`).
  - `TypeCorrect` carries `Held` with it, which says what the scanner and the pipeline hold
    at each control point. All the others rest on these two.
  - `LaggersAreStill`: no move in the streams or deques is younger than the snapshot it
    came with (`Dated`), and a large move taken in during the window is still in its deque
    (`Remembered`), for `Trim` drops only what is older than the window.
  - `NoneAcrossChains`: candidates pair pools of one chain, or of one pair of canonical
    groups (`Compared`). The simulator wants the same addresses on both sides, no address is
    in two places of the canonical table, so what passes is of one chain. This is what
    makes `scanner_cross` more than a matter of its instance.
  - `SpreadsAreTold`: a pair that has been stirred is followed (`StirredFollowed`): its news
    are still to come, or the pass under way will see, of what moves, all that matters, or
    the last verdict is right for the snapshots as they are. A move makes its pair wait, an
    expiry unsettles it, a verdict on what was seen settles it only when nothing changed.
  - `RankedIsCheaper` goes beyond `NoSpreadNotFeasible` to pools of any two curves, in
    either order of their tokens, read while they moved. `Bought` and `Sold` bound what one
    leg yields by the spot price, curve by curve; `TripGainsNothing` puts two legs together;
    `DearNotRanked` carries it through quote, gas and threshold; `Quoted` bounds the price of
    the quote token the pipeline found. The one exception is rounding: of a v3 or whirlpool
    pool the code rounds the new square root of the price down, which gives a seller of
    token0 up to `liq / Q` units of token1 too many (`curves.py:86,130`), so a round trip
    through equal prices may gain units. `RoundingAssumption` says they are worth less than
    `MinProfit`.

Assumptions. The prover uses no other facts about constants, and TLC evaluates all of
them in the runs.

* `BusAssumption`, `AlerterAssumption`, `PoolAssumption`, `SimulationAssumption`,
  `SupervisorAssumption`, `UniverseAssumption`: numbers are numbers, sets to be counted are
  finite, at least one endpoint and size, batch size, cooldown and least profit not zero, a
  watcher belongs to one job, every job has watchers, the threshold of tier 2 is below that
  of tier 3. `TrackerAssumption`: at least one watcher and one refresher, which are
  different tasks. `CurvesAssumption`: `Q` and `PScale` are positive.
* `CatalogAssumption`: chains, tokens and pools are different rows, a pool is on one chain,
  and tokens belong to the chain of their pools, since rows are keyed by chain and address.
* `ScannerAssumption`: what the code stores for every pool; prices of snapshots are positive
  but for whirlpools, as the updates drop a drained pool and the whirlpool handler does not;
  the canonical table names no address twice, as that of `scanner.py:66-87` does not.
* `SnapshotAssumption`: the fields each curve has, with positive reserves
  (`liquidity.py:44-45,105-106`), and a dlmm pool whose two tokens are given the same
  decimals (`solana_tracker.py:86`; without that a dlmm price, which is not scaled by
  decimals, would not be comparable with the others).
* `RoundingAssumption`, cited by `RankedIsCheaper` alone. It fails only for a liquidity of
  `Q` times the units of the quote token that `MinProfit` buys: for a stable token of 6
  decimals and a profit of one dollar, more than 2^115 for a v3 pool and 2^83 for a whirlpool.
  The contracts' 128 bits do not exclude that; pools that hold a real token do.

Induction over data is not available to the prover. Where a proof needs it (sums, the last
chain of a circle, medians), it takes a minimal counterexample in a well-founded order
(`WFMin`, `LeastOf`, `MinimalSubset`) and contradicts it.

Only model-checked are liveness (`EverySettles`, `DispatchEnds`, `CallEnds`, `Converges`,
`WatchedAgain`, `StopsAll`, `Settles`, `RoundsEnd`, `TiersAgree`, `TransactionsEnd`), which
is beyond the prover together with the `ENABLED` in its fairness, and the violations, which
are counterexamples. Confidence, bridge costs and price impact are checked as far as
the runs of `Scanner` reach; no theorem speaks of them.

## 5. Plan

Order of work, most important behaviour first. Done: bus, alerter, RPC pool, hot pool state,
supervisor, curves, simulation, scanners and pipeline, universe, the rows of tokens and
pools, refresh rounds that fail or read in two steps, subscriptions, and the proofs of all
invariants the runs check. Next:

1. Abstract specifications: a membership table written atomically, implemented by
   `Universe`; an alert channel that sends at most one message per chat, fingerprint and
   cooldown, implemented by `Alerter`. Both with proofs of the refinement.
2. Bounds on the operators of `Simulation`: confidence in its range and monotone in its
   inputs, price impact not negative.
3. The symbols and prices that writers empty, as the USD oracle reads them; liveness of
   `Catalog` with several trackers of one chain, which takes TLC too long at present (their
   safety is proved for any number).

## 6. Not modelled

Decoders, ABI and account layouts, HTTP clients of the listings, text formatting, metrics,
configuration and logging have no control of their own. Snapshot expiry after 24 hours,
latency averages and request ids influence no property. What an EVM tracker indexes and
follows is left out of `Catalog`, since its query (see there) never returns the two tokens of
a pool; `PoolTracker` takes over where the EVM tracker knows its pools, by any means. Of the
columns of tokens and pools only decimals and existence are modelled. Swap events are
published for nobody. Unused code (`publish_many`, `lock`, `remember_seen`,
`periodic_refresher`, `_run_v3_chunk`, the Yellowstone client) is left out.
