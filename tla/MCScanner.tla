----------------------------- MODULE MCScanner -----------------------------
(***************************************************************************)
(* Instance of Scanner for TLC: a v2 and a v3 pool of a chain with a pool  *)
(* of the same assets on another, or three Solana pools of a pair, one of  *)
(* which has its tokens in the other order.                                *)
(***************************************************************************)
EXTENDS Scanner

CONSTANTS e1, e2, f1, s1, s2, s3, wethE, usdcE, wethF, usdcF, sol, usdcS

Pool(p, c, t0, t1, d, curve, u0) ==
  [pool |-> p, chain |-> c, token0 |-> t0, token1 |-> t1, dex |-> d, curve |-> curve,
   fee |-> 30, unit0 |-> u0, unit1 |-> 1]

MCAttr ==
  e1 :> Pool(e1, "base", wethE, usdcE, "aerodrome", "v2", 4)
  @@ e2 :> Pool(e2, "base", wethE, usdcE, "aerodrome", "v3", 4)
  @@ f1 :> Pool(f1, "arbitrum", wethF, usdcF, "sushi", "v2", 4)
  @@ s1 :> Pool(s1, "solana", sol, usdcS, "raydium", "v2", 1)
  @@ s2 :> Pool(s2, "solana", sol, usdcS, "meteora", "dlmm", 1)
  @@ s3 :> Pool(s3, "solana", usdcS, sol, "whirlpool", "whirlpool", 1)

Reserves(a, b) == [r0 |-> a, r1 |-> b]
Price3(s) == [sqrt |-> s, liq |-> 1000]
MCSnaps ==
  e1 :> {Reserves(1000, 500), Reserves(1220, 410)}
  @@ e2 :> {Price3(362), Price3(297)}
  @@ f1 :> {Reserves(1000, 500), Reserves(1265, 395)}
  @@ s1 :> {Reserves(1000, 1000), Reserves(820, 1230)}
  @@ s2 :> {[price |-> 100], [price |-> 160]}
  @@ s3 :> {Price3(512), Price3(418)}

Evm == {e1, e2, f1}
Solana == {s1, s2, s3}

\* A scene in which all pools but one have a snapshot at first.
Scene(j, w, new) == [job |-> j, live |-> w, known |-> w \ {new}]

MCScenes ==
  {Scene("cross", Evm, f1)} \cup {Scene("lag", Solana, p) : p \in Solana}
  \cup {Scene(j, Evm, f1) : j \in {"state", "fresh"}}
  \cup {Scene(j, Solana, s1) : j \in {"state", "fresh"}}
MCCrossScene == {Scene("cross", Evm, f1)}
MCLagScene == {Scene("lag", Solana, s1)}
MCCanonical == {{<<"base", wethE>>, <<"arbitrum", wethF>>}, {<<"base", usdcE>>, <<"arbitrum", usdcF>>}}
MCStable == {usdcE, usdcF, usdcS}
MCListed == [t \in {wethE, wethF, sol} |-> 0]
MCSizes == {20, 50}
MCGas == [c \in {"base", "arbitrum", "solana"} |-> 1]
MCBridges == {[src |-> a, dst |-> b, flat |-> 1, bps |-> 10, eta |-> 60] :
                a \in {"base"}, b \in {"arbitrum"}}
MCTrust == [p \in {e1, e2, f1, s1, s2, s3} |-> IF p = s2 THEN 90 ELSE 95]
=============================================================================
