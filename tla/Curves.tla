------------------------------ MODULE Curves -------------------------------
(***************************************************************************)
(* What a swap returns (simulation/curves.py, simulator.py _swap_pool), in *)
(* the whole units of the tokens, as the code computes it.  A pool is a    *)
(* record of its curve, fee in basis points, and of the snapshot's fields: *)
(*   "v2"               reserves r0, r1 (also Raydium, PumpSwap, Aerodrome) *)
(*   "v3", "whirlpool"  square-root price sqrt, in units of 1/Q, and       *)
(*                      in-range liquidity liq                             *)
(*   "dlmm"             price, in units of 1/PScale                        *)
(* together with unit0 and unit1, 10^decimals of its tokens.  The doubles  *)
(* of the code are kept to PScale or to a basis point, rounded down.       *)
(***************************************************************************)
EXTENDS Integers

CONSTANTS
  Q,        \* one in a square-root price: 2^96, 2^64 for whirlpools
  PScale    \* resolution of an implied price

ASSUME CurvesAssumption == Q \in Nat \ {0} /\ PScale \in Nat \ {0}

Bps == 10000
Gap(a, b) == IF a < b THEN b - a ELSE a - b

v2_amount_out(in, rIn, rOut, fee) ==
  IF in <= 0 \/ rIn <= 0 \/ rOut <= 0 THEN 0
  ELSE (in * (Bps - fee) * rOut) \div (rIn * Bps + in * (Bps - fee))

\* How far the average price is below the spot price.
v2_price_impact_bps(in, rIn, rOut, fee) ==
  LET out == v2_amount_out(in, rIn, rOut, fee)
      short == in * rOut - out * rIn
  IN IF in <= 0 \/ rIn <= 0 \/ rOut <= 0 THEN 0
     ELSE IF out = 0 THEN Bps
     ELSE IF short <= 0 THEN 0 ELSE (short * Bps) \div (in * rOut)

\* Within the range of the present tick: the price after a swap, and what it
\* yields.
NewSqrt(in, sqrt, liq, fee, zeroForOne) ==
  LET eff == (in * (Bps - fee)) \div Bps
  IN IF zeroForOne THEN (liq * Q * sqrt) \div (liq * Q + eff * sqrt)
     ELSE sqrt + (eff * Q) \div liq

whirlpool_amount_out_in_range(in, sqrt, liq, fee, zeroForOne) ==
  LET new == NewSqrt(in, sqrt, liq, fee, zeroForOne)
  IN IF in <= 0 \/ liq <= 0 \/ sqrt <= 0 THEN 0
     ELSE IF zeroForOne THEN (liq * (sqrt - new)) \div Q
     ELSE (liq * Q * (new - sqrt)) \div (sqrt * new)

v3_amount_out_in_range(in, sqrt, liq, fee, zeroForOne) ==
  IF in <= 0 \/ liq <= 0 \/ sqrt <= 0 THEN 0
  ELSE IF NewSqrt(in, sqrt, liq, fee, zeroForOne) <= 0 THEN 0
  ELSE whirlpool_amount_out_in_range(in, sqrt, liq, fee, zeroForOne)

\* The average price is taken in whole tokens, the spot price in units, so
\* that tokens of unlike decimals show an impact that is none.
v3_price_impact_bps(pool, in, out, zeroForOne) ==
  LET spot == (pool.sqrt * pool.sqrt) \div Q   \* times Q
      num == (IF zeroForOne THEN out ELSE in) * pool.unit0 * Q
      den == (IF zeroForOne THEN in ELSE out) * pool.unit1 * spot
  IN IF out <= 0 THEN Bps ELSE IF den <= 0 THEN 0 ELSE (Gap(num, den) * Bps) \div den

Swap(pool, in, zeroForOne) ==
  CASE pool.curve = "v2" ->
         IF zeroForOne THEN v2_amount_out(in, pool.r0, pool.r1, pool.fee)
         ELSE v2_amount_out(in, pool.r1, pool.r0, pool.fee)
    [] pool.curve = "v3" ->
         v3_amount_out_in_range(in, pool.sqrt, pool.liq, pool.fee, zeroForOne)
    [] pool.curve = "whirlpool" ->
         whirlpool_amount_out_in_range(in, pool.sqrt, pool.liq, pool.fee, zeroForOne)
    [] pool.curve = "dlmm" ->
         IF pool.price <= 0 THEN 0
         ELSE IF zeroForOne
              THEN (in * pool.price * (Bps - pool.fee)) \div (PScale * Bps)
              ELSE (in * PScale * (Bps - pool.fee)) \div (pool.price * Bps)
    [] OTHER -> 0

Impact(pool, in, zeroForOne) ==
  CASE pool.curve = "v2" ->
         IF zeroForOne THEN v2_price_impact_bps(in, pool.r0, pool.r1, pool.fee)
         ELSE v2_price_impact_bps(in, pool.r1, pool.r0, pool.fee)
    [] pool.curve = "v3" ->
         v3_price_impact_bps(pool, in, Swap(pool, in, zeroForOne), zeroForOne)
    [] pool.curve = "whirlpool" -> 0
    [] pool.curve = "dlmm" -> IF pool.price <= 0 THEN Bps ELSE 30
    [] OTHER -> Bps

\* The price of token0 in token1 as the trackers record it, in 1/PScale of
\* whole tokens.
Implied(pool) ==
  CASE pool.curve = "v2" -> (pool.r1 * pool.unit0 * PScale) \div (pool.r0 * pool.unit1)
    [] pool.curve \in {"v3", "whirlpool"} ->
         (((pool.sqrt * pool.sqrt) \div Q) * pool.unit0 * PScale) \div (Q * pool.unit1)
    [] pool.curve = "dlmm" -> pool.price

SpreadBps(a, b) ==
  IF a <= 0 \/ b <= 0 THEN 0 ELSE (Gap(a, b) * Bps) \div (IF a < b THEN b ELSE a)
=============================================================================
