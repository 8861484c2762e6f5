---------------------------- MODULE JobQueueProofs ----------------------------
(***************************************************************************)
(* What the consumer's callbacks do to the memory, for any clusters, jobs  *)
(* and attributes: lemmas that the proofs about the publisher and about    *)
(* the reader rest on.                                                     *)
(***************************************************************************)
EXTENDS JobQueue, TLAPS

-----------------------------------------------------------------------------
(***************************************************************************)
(* The operators the callbacks are built from.                             *)
(***************************************************************************)

\* An element of g_jobs is a job or absent, and no job is Null.
LEMMA JobIsNotNull == Null \notin Job /\ Null \notin Attrs /\ NoAttrs \in Attrs
BY NullAssumption DEF Job, NoAttrs, Attrs

\* AssignJob leaves a job with the given parent under its key and changes nothing
\* else (Job::operator= after the map's operator[]).
LEMMA AssignJobResult ==
  ASSUME NEW jobs \in [Keys -> Job \cup {Null}], NEW k \in Keys,
         NEW p \in Clusters \cup {Null}
  PROVE  /\ AssignJob(jobs, k, p) \in [Keys -> Job \cup {Null}]
         /\ AssignJob(jobs, k, p)[k] \in Job
         /\ AssignJob(jobs, k, p)[k].parent = p
         /\ AssignJob(jobs, k, p)[k].attrs = IF jobs[k] = Null THEN NoAttrs ELSE jobs[k].attrs
         /\ \A l \in Keys \ {k} : AssignJob(jobs, k, p)[l] = jobs[l]
<1> DEFINE a == IF jobs[k] = Null THEN NoAttrs ELSE jobs[k].attrs
<1>1. a \in Attrs
  BY JobIsNotNull DEF Job
<1>2. AssignJob(jobs, k, p) = [jobs EXCEPT ![k] = [parent |-> p, attrs |-> a]]
  BY DEF AssignJob
<1>3. [parent |-> p, attrs |-> a] \in Job
  BY <1>1 DEF Job
<1> QED
  BY <1>2, <1>3

\* No key names a cluster and a job, and a job's cluster is a key.
LEMMA KeysAreClustersAndJobs ==
  /\ \A k \in Keys : k \in Clusters \/ k \in Jobs
  /\ \A j \in Jobs : j \in Keys /\ ClusterOf[j] \in Clusters /\ ClusterOf[j] # j
  /\ \A c \in Clusters : c \in Keys /\ c \notin Jobs /\ c # Null
BY KeysAssumption, NullAssumption DEF Keys

\* What NewClassAd does to g_jobs: the ad is there afterwards, a job with its
\* cluster for a parent that is there too, and any other element is as it was.
LEMMA NewClassAdResult ==
  ASSUME QueueTypeOK, NEW k \in Keys, NewClassAd(k), UNCHANGED config
  PROVE  /\ QueueTypeOK'
         /\ Known(k)'
         /\ \A l \in Keys : Known(l) => Known(l)'
         /\ \A l \in Keys : Known(l)' => Known(l) \/ l = k \/ (k \in Jobs /\ l = ClusterOf[k])
         /\ \A l \in Keys : Known(l) /\ l \notin Jobs \cap {k} => g_jobs'[l] = g_jobs[l]
         /\ k \in Jobs => g_jobs'[k].parent = ClusterOf[k] /\ Known(ClusterOf[k])'
         /\ \A c \in Clusters : Known(c)' => Known(c) \/ g_jobs'[c].parent = Null
         /\ \A l \in Keys : Known(l)' =>
              g_jobs'[l].attrs = IF Known(l) THEN g_jobs[l].attrs ELSE NoAttrs
         /\ g_dirty_jobs \subseteq g_dirty_jobs'
         /\ g_dirty_jobs' \subseteq g_dirty_jobs \cup {k}
         /\ UNCHANGED g_delete_jobs
<1> USE KeysAreClustersAndJobs, JobIsNotNull
<1>1. CASE k \in Clusters /\ NewClusterAd(k)
  <2>1. /\ AssignJob(g_jobs, k, Null) \in [Keys -> Job \cup {Null}]
        /\ AssignJob(g_jobs, k, Null)[k] \in Job
        /\ AssignJob(g_jobs, k, Null)[k].parent = Null
        /\ AssignJob(g_jobs, k, Null)[k].attrs = IF g_jobs[k] = Null THEN NoAttrs ELSE g_jobs[k].attrs
        /\ \A l \in Keys \ {k} : AssignJob(g_jobs, k, Null)[l] = g_jobs[l]
    BY AssignJobResult DEF QueueTypeOK
  <2> QED
    BY <1>1, <2>1 DEF NewClusterAd, QueueTypeOK, Known
<1>2. CASE k \in Jobs /\ NewJobAd(k)
  <2> DEFINE c == ClusterOf[k]
             w == IF Known(c) THEN g_jobs ELSE AssignJob(g_jobs, c, Null)
             n == AssignJob(w, k, c)
  <2>1. /\ w \in [Keys -> Job \cup {Null}]
        /\ w[c] # Null
        /\ \A l \in Keys \ {c} : w[l] = g_jobs[l]
        /\ Known(c) => w[c] = g_jobs[c]
        /\ ~Known(c) => w[c].parent = Null /\ w[c].attrs = NoAttrs
    BY <1>2, AssignJobResult DEF QueueTypeOK, Known
  <2>2. /\ n \in [Keys -> Job \cup {Null}]
        /\ n[k] \in Job
        /\ n[k].parent = c
        /\ n[k].attrs = IF w[k] = Null THEN NoAttrs ELSE w[k].attrs
        /\ \A l \in Keys \ {k} : n[l] = w[l]
    BY <1>2, <2>1, AssignJobResult
  <2>3. /\ g_jobs' = n
        /\ g_dirty_jobs' = g_dirty_jobs \cup {k}
        /\ UNCHANGED g_delete_jobs
    BY <1>2 DEF NewJobAd
  <2>4. c \in Clusters /\ c \in Keys /\ c # k /\ k \notin Clusters
    BY <1>2
  <2> HIDE DEF c, w, n
  <2>5. QueueTypeOK'
    BY <2>2, <2>3 DEF QueueTypeOK
  <2>6. /\ Known(k)' /\ Known(c)' /\ g_jobs'[k].parent = c
        /\ \A l \in Keys \ {k, c} : g_jobs'[l] = g_jobs[l]
        /\ Known(c) => g_jobs'[c] = g_jobs[c]
        /\ ~Known(c) => g_jobs'[c].parent = Null /\ g_jobs'[c].attrs = NoAttrs
        /\ g_jobs'[k].attrs = IF Known(k) THEN g_jobs[k].attrs ELSE NoAttrs
    BY <2>1, <2>2, <2>3, <2>4 DEF Known
  <2>7. c = ClusterOf[k]
    BY DEF c
  <2> QED
    BY <1>2, <2>3, <2>4, <2>5, <2>6, <2>7 DEF Known
<1> QED
  BY <1>1, <1>2 DEF NewClassAd

\* What setting or deleting an attribute of a known ad does: the same ads are there,
\* with the same parents, and at most that ad becomes dirty.
LEMMA AttributeResult ==
  ASSUME QueueTypeOK, NEW k \in Keys, Known(k), NEW n \in Names, UNCHANGED config,
         DeleteAttribute(k, n) \/ \E v \in Values : SetAttribute(k, n, v)
  PROVE  /\ QueueTypeOK'
         /\ \A l \in Keys : Known(l)' <=> Known(l)
         /\ \A l \in Keys : Known(l) => g_jobs'[l].parent = g_jobs[l].parent
         /\ \A l \in Keys \ {k} : g_jobs'[l] = g_jobs[l]
         /\ DeleteAttribute(k, n) => g_jobs'[k].attrs = [g_jobs[k].attrs EXCEPT ![n] = Null]
         /\ \A v \in Values :
              SetAttribute(k, n, v) => g_jobs'[k].attrs = [g_jobs[k].attrs EXCEPT ![n] = v]
         /\ g_dirty_jobs \subseteq g_dirty_jobs'
         /\ g_dirty_jobs' \subseteq g_dirty_jobs \cup {k}
         /\ UNCHANGED g_delete_jobs
<1> USE JobIsNotNull
<1>1. g_jobs[k] \in Job
  BY DEF QueueTypeOK, Known
<1>2. PICK v \in Values \cup {Null} : g_jobs' = [g_jobs EXCEPT ![k].attrs[n] = v]
  BY DEF DeleteAttribute, SetAttribute
<1> DEFINE j == [g_jobs[k] EXCEPT !.attrs[n] = v]
<1>3. j \in Job /\ j.parent = g_jobs[k].parent
  BY <1>1 DEF Job, Attrs
<1>4. g_jobs' = [g_jobs EXCEPT ![k] = j]
  BY <1>2
<1>5. /\ g_dirty_jobs' \in SUBSET Keys
      /\ g_dirty_jobs \subseteq g_dirty_jobs'
      /\ g_dirty_jobs' \subseteq g_dirty_jobs \cup {k}
      /\ UNCHANGED g_delete_jobs
  BY DEF DeleteAttribute, SetAttribute, QueueTypeOK
<1>6. /\ DeleteAttribute(k, n) => g_jobs'[k].attrs = [g_jobs[k].attrs EXCEPT ![n] = Null]
      /\ \A u \in Values :
           SetAttribute(k, n, u) => g_jobs'[k].attrs = [g_jobs[k].attrs EXCEPT ![n] = u]
  BY <1>1 DEF DeleteAttribute, SetAttribute, QueueTypeOK, Job, Attrs
<1> HIDE DEF j
<1> QED
  BY <1>1, <1>3, <1>4, <1>5, <1>6 DEF QueueTypeOK, Known
==============================================================================
