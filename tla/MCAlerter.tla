----------------------------- MODULE MCAlerter ------------------------------
(* Instance of Alerter for TLC; its constants are given in the .cfg files. *)
EXTENDS Alerter, TLC

CONSTANTS p1, p2, f1, f2

MCProcs == {p1, p2}
MCFps == {f1, f2}
\* "cross-dex", three colons and three addresses: of 42 characters on an EVM
\* chain, of 44 on Solana.
MCLength == (f1 :> 138) @@ (f2 :> 144)
=============================================================================
