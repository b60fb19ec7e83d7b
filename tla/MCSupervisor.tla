---------------------------- MODULE MCSupervisor ----------------------------
(* Instance of Supervisor for TLC. *)
EXTENDS Supervisor

CONSTANTS onchain, evm, base, bsc, eth, tail

MCJobs == {onchain, evm}
MCKids == [j \in MCJobs |-> IF j = onchain THEN {base, bsc, eth} ELSE {tail}]
MCGathering == {onchain}
=============================================================================
