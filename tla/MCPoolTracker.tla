--------------------------- MODULE MCPoolTracker ----------------------------
(* Instance of PoolTracker for TLC. *)
EXTENDS PoolTracker

CONSTANTS w1, w2, r1

MCWatchers == {w1, w2}
MCRefreshers == {r1}
MCEmpty == {2}
=============================================================================
