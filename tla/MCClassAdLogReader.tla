------------------------- MODULE MCClassAdLogReader -------------------------
(* Instances of ClassAdLogReader for TLC: one cluster, with one job or none. *)
EXTENDS ClassAdLogReader

CONSTANTS c1, j1

OneJob == [j \in {j1} |-> c1]

NoJob == [j \in {} |-> c1]
=============================================================================
