------------------------------ MODULE MCDaemon ------------------------------
(* Instances of Daemon for TLC: one cluster with one job, or two clusters. *)
EXTENDS Daemon

CONSTANTS c1, c2, j1

OneJob == [j \in {j1} |-> c1]
OneJobRank == [k \in {c1, j1} |-> IF k = c1 THEN 0 ELSE 1]

NoJob == [j \in {} |-> c1]
NoJobRank == [k \in {c1, c2} |-> IF k = c1 THEN 0 ELSE 1]
=============================================================================
