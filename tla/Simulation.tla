---------------------------- MODULE Simulation -----------------------------
(***************************************************************************)
(* What becomes of a pair of snapshots in the pipeline: the simulated      *)
(* round trip and its costs (simulation/), the check for fakes             *)
(* (heuristics/engine.py) and the confidence (scoring/score.py).           *)
(*                                                                         *)
(* Dollars are whole; scores, weights and penalties are per cent.  The     *)
(* logarithm of the profit score goes in half-decades.                     *)
(***************************************************************************)
EXTENDS Curves, FiniteSets, FiniteSetsExt

CONSTANTS
  Sizes,        \* sim_sizes_usd
  MinProfit,    \* min_net_profit_usd
  MinConfidence,\* min_confidence
  Gas,          \* Gas[c]: the cost of a transaction on chain c
  Bridges,      \* known bridges: records of src, dst, flat, bps, eta
  Liquidity,    \* the liquidity assumed of a pool of unknown TVL
  Trust         \* Trust[p]: what TVL and diversity of p leave of the score

ASSUME SimulationAssumption ==
  /\ Sizes # {} /\ Sizes \subseteq Nat
  /\ MinProfit \in Nat \ {0} /\ MinConfidence \in Nat /\ Liquidity \in Nat \ {0}

Tokens(pool) == {pool.token0, pool.token1}

\* Mutation: sells token0 for token1 whatever the sell pool's order.
SellLegUnordered(buy, sell) == TRUE

\* The base token is the buy pool's token0; the sell pool may have it second.
SellLeg(buy, sell) == sell.token0 = buy.token0 /\ sell.token1 = buy.token1

\* simulator.py:113: the same addresses, in either order.
Matches(buy, sell) == Tokens(buy) = Tokens(sell)

Infeasible(notional) ==
  [size |-> notional, net |-> -1000000, slip |-> Bps, bridge |-> 0, eta |-> 0, feasible |-> FALSE]

BridgeOf(buy, sell) == {b \in Bridges : b.src = buy.chain /\ b.dst = sell.chain}

\* The round trip of a notional: quote into base in the buy pool, base into
\* quote in the sell pool.  usd is the price of the quote token in 1/PScale
\* dollars, 0 for unknown.
Simulate(buy, sell, notional, usd) ==
  LET quoteIn == IF usd <= 0 THEN 0 ELSE (notional * buy.unit1 * PScale) \div usd
      base == Swap(buy, quoteIn, FALSE)
      back == Swap(sell, base, SellLeg(buy, sell))
      gross == ((back - quoteIn) * usd) \div (buy.unit1 * PScale)
      cross == buy.chain # sell.chain
      bridge == IF ~cross THEN 0
                ELSE LET b == CHOOSE b \in BridgeOf(buy, sell) : TRUE
                     IN b.flat + (notional * b.bps) \div Bps
      net == gross - Gas[buy.chain] - Gas[sell.chain] - bridge
  IN IF \/ ~Matches(buy, sell)
        \/ quoteIn <= 0 \/ base <= 0 \/ back <= 0
        \/ cross /\ BridgeOf(buy, sell) = {}
     THEN Infeasible(notional)
     ELSE [size |-> notional, net |-> net,
           slip |-> (Impact(buy, quoteIn, FALSE) + Impact(sell, base, SellLeg(buy, sell))) \div 2,
           bridge |-> bridge,
           eta |-> IF cross THEN (CHOOSE b \in BridgeOf(buy, sell) : TRUE).eta ELSE 0,
           feasible |-> net > 0]

\* The size that nets most, the smallest of equals.
Best(buy, sell, usd) ==
  LET sims == {Simulate(buy, sell, s, usd) : s \in Sizes}
  IN {x \in sims : \A y \in sims : x.net > y.net \/ (x.net = y.net /\ x.size <= y.size)}
-----------------------------------------------------------------------------
Ratio(buy, sell) ==   \* in per cent
  LET a == Implied(buy)
      b == Implied(sell)
  IN IF a <= 0 \/ b <= 0 THEN 100 ELSE (Max({a, b}) * 100) \div Min({a, b})

IsFake(buy, sell) == Ratio(buy, sell) > 2000

HeurScore(buy, sell) ==
  (Trust[buy.pool] * Trust[sell.pool]
     * (IF Ratio(buy, sell) > 500 THEN 20 ELSE 100)) \div 10000
-----------------------------------------------------------------------------
\* 10^(k/2) for k = 1..6
HalfDecades == {4, 10, 32, 100, 317, 1000}

_profit_score(net) == (100 * Cardinality({d \in HalfDecades : d <= net + 1})) \div 6

_slippage_score(slip) == Max({5, Bps \div (100 + slip)})

_spread_score(spread) ==
  CASE spread <= 0 -> 0
    [] spread \in 1..49 -> 40
    [] spread \in 50..199 -> 70
    [] spread \in 200..999 -> 90
    [] spread > 5000 -> 30
    [] OTHER -> 95

_kind_weight(kind) ==
  CASE kind = "lagging" -> 105
    [] kind \in {"fresh", "intra-dex"} -> 95
    [] kind = "cross-chain" -> 85
    [] OTHER -> 100

_bridge_penalty(net, bridge, eta) ==
  LET base == Max({20, 100 - (50 * bridge) \div Max({net, 1})})
  IN IF bridge = 0 THEN 100
     ELSE IF eta > 300 THEN (base * 85) \div 100 ELSE base

\* One factor per pool; no tracker records a TVL, so that both use the default.
_depth_score(notional) ==
  LET s == CASE notional * 100 > 5 * Liquidity -> 40
             [] notional * 100 > Liquidity -> 75
             [] OTHER -> 100
  IN (s * s) \div 100

score_opportunity(kind, spread, best, heur) ==
  LET raw == 40 * _profit_score(best.net) + 20 * _slippage_score(best.slip)
             + 15 * _spread_score(spread) + 10 * _depth_score(best.size)
             + 10 * _bridge_penalty(best.net, best.bridge, best.eta) + 5 * 100
  IN Max({0, Min({100, (raw * _kind_weight(kind) * heur) \div 1000000})})
-----------------------------------------------------------------------------
\* pipeline.py:41-66: the two snapshots are ranked at their best size.
Ranks(kind, spread, buy, sell, usd) ==
  \E best \in Best(buy, sell, usd) :
    /\ best.feasible /\ best.net >= MinProfit
    /\ ~IsFake(buy, sell)
    /\ score_opportunity(kind, spread, best, HeurScore(buy, sell)) >= MinConfidence
=============================================================================
