----------------------------- MODULE MCKeepAlive -----------------------------
(* Instances of KeepAlive for TLC: one cluster with one job. *)
EXTENDS KeepAlive

CONSTANTS c1, j1

OneJob == [j \in {j1} |-> c1]
OneJobRank == [k \in {c1, j1} |-> IF k = c1 THEN 0 ELSE 1]
=============================================================================
