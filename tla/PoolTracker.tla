---------------------------- MODULE PoolTracker -----------------------------
(***************************************************************************)
(* The hot state of one pool (tracking/): trackers turn what they hear of  *)
(* the chain into a snapshot in Redis and announce the move on the bus.    *)
(*                                                                         *)
(* The pool's on-chain state is numbered 0, 1, 2, ... in the order it      *)
(* changes; 0 is the pool before it holds anything.  A watcher hears       *)
(* of the changes while its subscription is up and handles them one at a   *)
(* time; a refresher asks for the state in rounds, chunk of pools by chunk *)
(* of pools, and for v3 pools asks for the price and then the liquidity.   *)
(* Watchers of the same pool live in different processes: the all-in-one   *)
(* process and the tracker worker follow the same programs.  Reading the   *)
(* previous snapshot, writing the new one and publishing the delta are     *)
(* three awaits, and nothing orders two writers.                           *)
(***************************************************************************)
EXTENDS Naturals, FiniteSets, FiniteSetsExt

CONSTANTS
  Watchers,     \* subscriptions that cover the pool, one per process
  Refreshers,   \* multicall refresh loops that cover the pool
  Kinds,        \* kinds of pool considered, out of PoolKinds
  MaxVer,       \* bound: how often the pool's state changes
  Empty,        \* states with a drained side (reserves of zero)
  MaxFaults     \* bound: failed handlers and cut subscriptions

PoolKinds == {"vaults", "dlmm", "whirlpool", "v2", "v3"}
EvmKinds == {"v2", "v3"}

ASSUME TrackerAssumption ==
  /\ Watchers \cap Refreshers = {} /\ {} \notin {Watchers, Refreshers}
  /\ Kinds \subseteq PoolKinds
  /\ MaxVer \in Nat /\ MaxFaults \in Nat
  /\ Empty \subseteq 1..MaxVer

Writers == Watchers \cup Refreshers
Vers == 0..MaxVer

VARIABLES
  kind,         \* the pool's kind, fixed
  blocked,      \* an earlier chunk of the rounds always fails, fixed
  chain,        \* the pool's state on chain
  hot,          \* the state the Redis snapshot shows, 0 for none
  depth,        \* the state whose liquidity it shows, for v3
  live,         \* watchers whose subscription is up
  due,          \* due[w]: changes sent to w and not handled yet
  pc,           \* control point of each writer
  cur, prev,    \* the state a writer handles, and the snapshot it read
  liq,          \* the state whose liquidity a refresher was told
  wrote,        \* history: the last state each writer wrote
  lost,         \* history: the newest change a watcher never handled
  written,      \* history: states that have been in the snapshot
  told,         \* history: states announced by a delta from another state
  muted,        \* history: states whose writer failed before it published
  faults

fixed == <<kind, blocked>>
snapshot == <<hot, depth>>
subs == <<live, due>>
locals == <<cur, prev, liq>>
history == <<wrote, lost, written, told, muted>>
vars == <<fixed, chain, snapshot, subs, pc, locals, history, faults>>

Init ==
  /\ kind \in Kinds /\ blocked \in (IF kind \in EvmKinds THEN BOOLEAN ELSE {FALSE})
  /\ chain = 0 /\ hot = 0 /\ depth = 0
  /\ live = {} /\ due = [w \in Watchers |-> {}]
  /\ pc = [u \in Writers |-> "idle"]
  /\ cur = [u \in Writers |-> 0] /\ prev = [u \in Writers |-> 0]
  /\ liq = [u \in Refreshers |-> 0]
  /\ wrote = [u \in Writers |-> 0] /\ lost = [w \in Watchers |-> 0]
  /\ written = {} /\ told = {} /\ muted = {}
  /\ faults = 0
-----------------------------------------------------------------------------
\* The pool changes on chain and every subscription that is up is notified.
\* No log of a v3 pool is subscribed to: _run_v3_chunk is never started.
ChainMoves ==
  /\ chain < MaxVer
  /\ chain' = chain + 1
  /\ due' = [w \in Watchers |-> IF w \in live THEN due[w] \cup {chain'} ELSE due[w]]
  /\ lost' = [w \in Watchers |-> IF w \in live THEN lost[w] ELSE chain']
  /\ UNCHANGED <<fixed, snapshot, live, pc, locals, wrote, written, told, muted, faults>>

Goto(u, l) == pc' = [pc EXCEPT ![u] = l]

\* A subscription comes up: on EVM chains with the ack, before which all that
\* is sent is skipped, on Solana with the node's answer.  What happened
\* before is not sent.
Connect(w) ==
  /\ w \notin live /\ pc[w] # "dead" /\ kind # "v3"
  /\ live' = live \cup {w}
  /\ UNCHANGED <<fixed, chain, snapshot, due, pc, locals, history, faults>>

\* It goes down, and the newest of what was sent is not received any more.
\* The next URL is tried after a pause.
Drop(w) ==
  /\ w \in live /\ faults < MaxFaults
  /\ faults' = faults + 1
  /\ live' = live \ {w}
  /\ \E v \in Vers :
       LET gone == {x \in due[w] : x > v} IN
       /\ due' = [due EXCEPT ![w] = @ \ gone]
       /\ lost' = [lost EXCEPT ![w] = Max(gone \cup {@})]
  /\ UNCHANGED <<fixed, chain, snapshot, pc, locals, wrote, written, told, muted>>

\* States that an update returns from at once: those with an empty side, but
\* a v3 pool, a whirlpool or a dlmm keeps its price without liquidity.
Dropped == {0} \cup IF kind \in {"v2", "vaults"} THEN Empty ELSE {}

\* A handler takes the next notification.  Those of raydium and pumpswap
\* then ask for the vault balances; the others use the data they were sent,
\* and v2 drops a Sync with an empty side.
Notified(w) ==
  /\ pc[w] = "idle" /\ due[w] # {}
  /\ LET v == Min(due[w]) IN
       /\ due' = [due EXCEPT ![w] = @ \ {v}]
       /\ cur' = [cur EXCEPT ![w] = v]
       /\ Goto(w, CASE kind = "vaults" -> "fetch"
                    [] kind = "whirlpool" -> "write"
                    [] kind = "v2" /\ v \in Dropped -> "idle"
                    [] OTHER -> "read")
  /\ UNCHANGED <<fixed, chain, snapshot, live, prev, liq, history, faults>>

\* Mutation: the rounds leave v3 pools out.
RoundV2Only(r) ==
  /\ pc[r] = "idle" /\ kind = "v2" /\ ~blocked
  /\ Goto(r, "fetch")
  /\ UNCHANGED <<fixed, chain, snapshot, subs, locals, history, faults>>

\* A refresh round comes to the pool's chunk: an exception in a chunk before
\* ends the round, and an address of that chunk which is none of 20 bytes
\* raises one each time.
Round(r) ==
  /\ pc[r] = "idle" /\ kind \in EvmKinds /\ ~blocked
  /\ Goto(r, "fetch")
  /\ UNCHANGED <<fixed, chain, snapshot, subs, locals, history, faults>>

\* Mutation: empty balances are not looked for.
FetchUnchecked(u) ==
  /\ pc[u] = "fetch"
  /\ cur' = [cur EXCEPT ![u] = chain]
  /\ Goto(u, IF kind = "v3" THEN "liquidity" ELSE "read")
  /\ UNCHANGED <<fixed, chain, snapshot, subs, prev, liq, history, faults>>

\* The RPC node answers with the state of now, not that of the notification.
Fetch(u) ==
  /\ pc[u] = "fetch"
  /\ cur' = [cur EXCEPT ![u] = chain]
  /\ Goto(u, CASE kind = "v3" -> "liquidity"
               [] kind # "v3" /\ chain \in Dropped -> "idle"
               [] OTHER -> "read")
  /\ UNCHANGED <<fixed, chain, snapshot, subs, prev, liq, history, faults>>

\* Mutation: the first multicall asks for the liquidity, the second for the
\* price.
LiquidityFirst(r) ==
  /\ pc[r] = "liquidity"
  /\ liq' = [liq EXCEPT ![r] = cur[r]] /\ cur' = [cur EXCEPT ![r] = chain]
  /\ Goto(r, IF chain \in Dropped THEN "idle" ELSE "read")
  /\ UNCHANGED <<fixed, chain, snapshot, subs, prev, history, faults>>

\* The second multicall for v3 pools: the liquidity of a block that may be
\* later than that of the price.
FetchLiquidity(r) ==
  /\ pc[r] = "liquidity"
  /\ liq' = [liq EXCEPT ![r] = chain]
  /\ Goto(r, IF cur[r] \in Dropped THEN "idle" ELSE "read")
  /\ UNCHANGED <<fixed, chain, snapshot, subs, cur, prev, history, faults>>

ReadPrev(u) ==
  /\ pc[u] = "read"
  /\ prev' = [prev EXCEPT ![u] = hot]
  /\ Goto(u, "write")
  /\ UNCHANGED <<fixed, chain, snapshot, subs, cur, liq, history, faults>>

\* Mutation: the previous snapshot is the one just written.
WritePrevAfter(u) ==
  /\ pc[u] = "write"
  /\ hot' = cur[u] /\ prev' = [prev EXCEPT ![u] = cur[u]]
  /\ depth' = IF kind = "v3" THEN liq[u] ELSE depth
  /\ wrote' = [wrote EXCEPT ![u] = cur[u]]
  /\ written' = written \cup {cur[u]}
  /\ Goto(u, IF kind = "whirlpool" THEN "idle" ELSE "publish")
  /\ UNCHANGED <<fixed, chain, subs, cur, liq, lost, told, muted, faults>>

\* The snapshot is replaced whatever it shows by now.  The handler of
\* whirlpools ends here and announces nothing.
Write(u) ==
  /\ pc[u] = "write"
  /\ hot' = cur[u]
  /\ depth' = IF kind = "v3" THEN liq[u] ELSE depth
  /\ wrote' = [wrote EXCEPT ![u] = cur[u]]
  /\ written' = written \cup {cur[u]}
  /\ Goto(u, IF kind = "whirlpool" THEN "idle" ELSE "publish")
  /\ UNCHANGED <<fixed, chain, subs, locals, lost, told, muted, faults>>

Publish(u) ==
  /\ pc[u] = "publish"
  /\ told' = IF prev[u] = cur[u] THEN told ELSE told \cup {cur[u]}
  /\ Goto(u, "idle")
  /\ UNCHANGED <<fixed, chain, snapshot, subs, locals, wrote, lost, written, muted, faults>>

\* Where a failed handler leaves its task: a v2 tail task is over and nobody
\* starts it again; the other loops log the exception and go on.
AfterFailure(u) == IF kind = "v2" /\ u \in Watchers THEN "dead" ELSE "idle"

\* Redis, the database or an RPC node raises in the middle of a handler.
HandlerFails(u) ==
  /\ pc[u] \notin {"idle", "dead"} /\ faults < MaxFaults
  /\ faults' = faults + 1
  /\ Goto(u, AfterFailure(u))
  /\ muted' = IF pc[u] = "publish" THEN muted \cup {cur[u]} ELSE muted
  /\ lost' = [w \in Watchers |->
                IF w # u THEN lost[w]
                ELSE IF AfterFailure(u) = "dead" THEN chain
                ELSE IF pc[u] = "publish" THEN lost[w] ELSE Max({lost[w], cur[u]})]
  /\ IF AfterFailure(u) = "dead"
     THEN live' = live \ {u} /\ due' = [due EXCEPT ![u] = {}]
     ELSE UNCHANGED subs
  /\ UNCHANGED <<fixed, chain, snapshot, locals, wrote, written, told>>

Handle(u) ==
  \/ Fetch(u) \/ ReadPrev(u) \/ Write(u) \/ Publish(u)
  \/ u \in Refreshers /\ FetchLiquidity(u)

Next ==
  \/ ChainMoves
  \/ \E w \in Watchers : Connect(w) \/ Drop(w) \/ Notified(w)
  \/ \E r \in Refreshers : Round(r)
  \/ \E u \in Writers : Handle(u) \/ HandlerFails(u)

Spec == Init /\ [][Next]_vars

\* Loops and handlers keep running; the chain and the faults owe nothing.
Fairness ==
  /\ \A u \in Writers : WF_vars(Handle(u))
  /\ \A w \in Watchers : WF_vars(Notified(w))
  /\ \A r \in Refreshers : WF_vars(Round(r))

FairSpec == Spec /\ Fairness
-----------------------------------------------------------------------------
TypeOK ==
  /\ kind \in Kinds /\ blocked \in BOOLEAN
  /\ chain \in Vers /\ hot \in 0..chain /\ depth \in 0..chain
  /\ live \subseteq Watchers /\ due \in [Watchers -> SUBSET (1..chain)]
  /\ pc \in [Writers -> {"idle", "fetch", "liquidity", "read", "write", "publish", "dead"}]
  /\ cur \in [Writers -> 0..chain] /\ prev \in [Writers -> 0..chain]
  /\ liq \in [Refreshers -> 0..chain]
  /\ wrote \in [Writers -> 0..chain] /\ lost \in [Watchers -> 0..chain]
  /\ written \subseteq 1..chain /\ told \subseteq written /\ muted \subseteq written
  /\ faults \in 0..MaxFaults

\* A watcher has handled everything it was to hear, and nothing it missed is
\* newer than what it has written.
CaughtUp(w) ==
  /\ pc[w] \in {"idle", "dead"} /\ due[w] = {}
  /\ lost[w] <= wrote[w]

\* Rounds reach the pool.
Refreshed == kind \in EvmKinds /\ ~blocked

\* The snapshot shows the pool as it is, a v3 pool in both its parts.
Truthful == hot = chain /\ (kind = "v3" => depth = chain)

\* "The hot truth for the scanner loop" (pool_state.py:3): when every writer
\* is done with the pool's present state, the snapshot shows it, although
\* older writes may overtake newer ones on the way, and price and liquidity
\* of a v3 pool are asked for one after the other (v3.py:105-111).
HotTruth ==
  /\ chain \notin Dropped
  /\ kind # "v3" => \A w \in Watchers : CaughtUp(w)
  /\ kind = "v3" => Refreshed
  /\ Refreshed => \A r \in Refreshers : pc[r] = "idle" /\ wrote[r] = chain
  => Truthful

\* Two trackers of a pool cannot mask its move between them: for each state
\* the snapshot has shown, some delta from another state was announced or is
\* about to be, unless its writer failed in between.
MovesTold ==
  kind # "whirlpool" =>
    \A v \in written \ muted :
      v \in told \/ \E u \in Writers : pc[u] = "publish" /\ cur[u] = v /\ prev[u] # v

\* Once the chain rests, the snapshot comes to show its state and stays: on
\* EVM chains whatever was missed (evm_tracker.py:8-10), unless the rounds
\* end before they reach the pool; without them, on Solana too, unless a
\* watcher missed its last notification.
Converges ==
  <>[](\/ chain \in Dropped
       \/ Truthful
       \/ ~Refreshed /\ (kind = "v3" \/ \E w \in Watchers : lost[w] > wrote[w]))
=============================================================================
