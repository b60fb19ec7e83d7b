----------------------------- MODULE MCCatalog -----------------------------
(***************************************************************************)
(* Instance of Catalog for TLC: two pools of one pair, one of its tokens   *)
(* of 6 decimals and one of 18, and a pool on Solana.                      *)
(***************************************************************************)
EXTENDS Catalog
CONSTANTS a, k, w, eth, sol, usdc, weth, wsol, cat, p1, p2, s1
MCLoops == {a}
MCWatchers == {w}
MCTrackers == {k}
MCNetworks == <<eth, sol>>
MCPools == {p1, p2, s1}
MCChainOf == [q \in MCPools |-> IF q = s1 THEN sol ELSE eth]
MCPair == [q \in MCPools |-> IF q = s1 THEN <<cat, wsol>> ELSE <<usdc, weth>>]
MCTokens == {usdc, weth, wsol, cat}
MCDec == [t \in MCTokens |-> CASE t = weth -> 18 [] t = wsol -> 9 [] OTHER -> 6]
MCProgram == [q \in {s1} |-> "pumpswap"]
=============================================================================
