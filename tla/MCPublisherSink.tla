------------------------ MODULE MCPublisherSink ------------------------
(* Instances of JobQueuePublisher for TLC: one cluster with its jobs. *)
EXTENDS PublisherSink

CONSTANTS c1, j1, j2

OneJobs == [j \in {j1} |-> c1]
TwoJobs == [j \in {j1, j2} |-> c1]

OneJobRank == [k \in {c1, j1} |-> IF k = c1 THEN 0 ELSE 1]
TwoJobRank == [k \in {c1, j1, j2} |-> IF k = c1 THEN 0 ELSE IF k = j1 THEN 1 ELSE 2]
=============================================================================
