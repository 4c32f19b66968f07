------------------------ MODULE MCSnapshotCollection ------------------------
(***************************************************************************)
(* SnapshotCollection for three questions: two nightly runs that race for  *)
(* the lock, with one retry; the tables and the lock under two runs'       *)
(* payloads with two screeners each; what a run that is told of a conflict *)
(* makes of it, without a retry.                                           *)
(***************************************************************************)
EXTENDS SnapshotCollection, TLC

CONSTANTS c1, c2

OneScreener == <<"market_leaders">>
TwoScreeners == <<"market_leaders", "momentum">>

\* The callers are alike; only for runs without liveness.
Alike == Permutations(Callers)
=============================================================================
