------------------------------ MODULE JobQueue ------------------------------
(***************************************************************************)
(* The publisher's memory: the three global collections of Globals.h, the  *)
(* Job class, and JobQueuePublisherClassAdLogConsumer, whose callbacks the *)
(* log reader calls.  One action per callback; a module that extends this  *)
(* one decides when each is called.                                        *)
(***************************************************************************)
EXTENDS JobKeys

VARIABLES
  config,         \* the command line: triggers, address, dump
  g_jobs,         \* key -> Job, Null for a key the map does not hold
  g_dirty_jobs,   \* keys to publish at the end of the poll
  g_delete_jobs   \* keys to publish for the last time and erase

queue == <<g_jobs, g_dirty_jobs, g_delete_jobs>>

\* A Job: m_parent points to a node of g_jobs, named by its key.
Job == [parent : Clusters \cup {Null}, attrs : Attrs]

\* The part of parse_args that later decisions read.
Config == [triggers : SUBSET Names, address : BOOLEAN, dump : BOOLEAN]

QueueTypeOK ==
  /\ config \in Config
  /\ g_jobs \in [Keys -> Job \cup {Null}]
  /\ g_dirty_jobs \in SUBSET Keys
  /\ g_delete_jobs \in SUBSET Keys

QueueInit ==
  /\ config \in Config
  /\ g_jobs = [k \in Keys |-> Null]
  /\ g_dirty_jobs = {}
  /\ g_delete_jobs = {}

Known(k) == g_jobs[k] # Null

(***************************************************************************)
(* jobs[k] = Job(k, p).  The map creates a missing element with no         *)
(* attributes; Job::operator= assigns the key and the parent and leaves    *)
(* the attributes of an element that was there as they are.                *)
(***************************************************************************)
AssignJob(jobs, k, p) ==
  [jobs EXCEPT ![k] =
     [parent |-> p, attrs |-> IF jobs[k] = Null THEN NoAttrs ELSE jobs[k].attrs]]

(***************************************************************************)
(* What a reader of a job sees: its own attributes over its parent's.      *)
(* Job::Get answers one name so, PublishJob and Dump build the whole map.  *)
(***************************************************************************)
ParentAttrs(k) ==
  IF g_jobs[k].parent = Null THEN NoAttrs ELSE g_jobs[g_jobs[k].parent].attrs

Content(k) ==
  [n \in Names |-> IF g_jobs[k].attrs[n] # Null THEN g_jobs[k].attrs[n]
                                                ELSE ParentAttrs(k)[n]]

(***************************************************************************)
(* The consumer's callbacks.                                               *)
(***************************************************************************)
Reset ==
  /\ g_jobs' = [k \in Keys |-> Null]
  /\ UNCHANGED <<g_dirty_jobs, g_delete_jobs>>

NewClusterAd(c) ==
  /\ g_jobs' = IF Known(c) THEN g_jobs ELSE AssignJob(g_jobs, c, Null)
  /\ UNCHANGED <<g_dirty_jobs, g_delete_jobs>>

\* Mutated forms of NewJobAd: the job is its own parent; the job is not dirty.
NewJobAdOwnParent(j) ==
  /\ g_jobs' = AssignJob(g_jobs, j, j)
  /\ g_dirty_jobs' = g_dirty_jobs \cup {j}
  /\ UNCHANGED g_delete_jobs

NewJobAdClean(j) ==
  LET c == ClusterOf[j]
  IN /\ g_jobs' = AssignJob(IF Known(c) THEN g_jobs ELSE AssignJob(g_jobs, c, Null), j, c)
     /\ UNCHANGED <<g_dirty_jobs, g_delete_jobs>>

NewJobAd(j) ==
  LET c == ClusterOf[j]
      withCluster == IF Known(c) THEN g_jobs ELSE AssignJob(g_jobs, c, Null)
  IN /\ g_jobs' = AssignJob(withCluster, j, c)
     /\ g_dirty_jobs' = g_dirty_jobs \cup {j}
     /\ UNCHANGED g_delete_jobs

NewClassAd(k) ==
  \/ k \in Clusters /\ NewClusterAd(k)
  \/ k \in Jobs /\ NewJobAd(k)

\* A mutated form of DestroyClassAd: the element is erased at once.
DestroyClassAdAtOnce(k) ==
  /\ g_jobs' = [g_jobs EXCEPT ![k] = Null]
  /\ g_dirty_jobs' = g_dirty_jobs \ {k}
  /\ g_delete_jobs' = g_delete_jobs \cup {k}

\* Another: the job stays dirty.
DestroyClassAdStaysDirty(k) ==
  /\ g_delete_jobs' = g_delete_jobs \cup {k}
  /\ UNCHANGED <<g_jobs, g_dirty_jobs>>

DestroyClassAd(k) ==
  /\ g_dirty_jobs' = g_dirty_jobs \ {k}
  /\ g_delete_jobs' = g_delete_jobs \cup {k}
  /\ UNCHANGED g_jobs

\* A mutated form of the trigger test of SetAttribute: with no --trigger no
\* attribute is a trigger.
TriggersNothing(n) == n \in config.triggers

\* With no --trigger every attribute is a trigger.
IsTrigger(n) == config.triggers = {} \/ n \in config.triggers

\* SetAttribute and DeleteAttribute return false, changing nothing, for a key
\* they do not know; their callers look at Known(k) for the result.
SetAttribute(k, n, v) ==
  /\ g_jobs' = IF Known(k) THEN [g_jobs EXCEPT ![k].attrs[n] = v] ELSE g_jobs
  /\ g_dirty_jobs' = IF Known(k) /\ k \in Jobs /\ IsTrigger(n)
                     THEN g_dirty_jobs \cup {k} ELSE g_dirty_jobs
  /\ UNCHANGED g_delete_jobs

DeleteAttribute(k, n) ==
  /\ g_jobs' = IF Known(k) THEN [g_jobs EXCEPT ![k].attrs[n] = Null] ELSE g_jobs
  /\ g_dirty_jobs' = IF Known(k) /\ k \in Jobs
                     THEN g_dirty_jobs \cup {k} ELSE g_dirty_jobs
  /\ UNCHANGED g_delete_jobs
=============================================================================
