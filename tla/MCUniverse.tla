---------------------------- MODULE MCUniverse -----------------------------
(***************************************************************************)
(* Instance of Universe for TLC: the bootstrap loops of the all-in-one     *)
(* process and of a worker, and two tokens.                                *)
(***************************************************************************)
EXTENDS Universe
CONSTANTS a, b, x, y
MCJobs == {a, b}
MCKeys == <<x, y>>
MCDeltas == {2}
============================================================================
