----------------------------- MODULE MCRpcPool ------------------------------
(* Instance of RpcPool for TLC. *)
EXTENDS RpcPool

CONSTANTS t1, t2

MCTasks == {t1, t2}
OneTask == {t1}
=============================================================================
