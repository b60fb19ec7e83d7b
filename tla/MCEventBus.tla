----------------------------- MODULE MCEventBus -----------------------------
(* Instance of EventBus for TLC; its constants are given in the .cfg files. *)
EXTENDS EventBus, TLC

CONSTANTS w1, w2

MCWorkers == {w1, w2}
MCMalformed == {2}
=============================================================================
