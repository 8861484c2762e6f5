----------------------- MODULE JobQueuePublisherProofs -----------------------
(***************************************************************************)
(* Proofs about JobQueuePublisher for any clusters, jobs, attributes and   *)
(* order of the keys that meet the assumptions of the modules it extends.  *)
(***************************************************************************)
EXTENDS JobQueuePublisher, JobQueueProofs

-----------------------------------------------------------------------------
\* What is published of a known job is an attribute map.
LEMMA ContentsAreAttrs ==
  ASSUME QueueTypeOK, NEW k \in Keys, Known(k)
  PROVE  Contents(k) \subseteq Attrs
<1>1. g_jobs[k] \in Job
  BY DEF QueueTypeOK, Known
<1>2. CASE g_jobs[k].parent # Null /\ ~Known(g_jobs[k].parent)
  BY <1>2 DEF Contents
<1>3. CASE ~(g_jobs[k].parent # Null /\ ~Known(g_jobs[k].parent))
  <2>1. ParentAttrs(k) \in Attrs
    <3>1. CASE g_jobs[k].parent = Null
      BY <3>1, JobIsNotNull DEF ParentAttrs
    <3>2. CASE g_jobs[k].parent # Null
      <4>1. g_jobs[k].parent \in Keys /\ Known(g_jobs[k].parent)
        BY <1>1, <1>3, <3>2 DEF Job, Keys
      <4>2. g_jobs[g_jobs[k].parent] \in Job
        BY <4>1 DEF QueueTypeOK, Known
      <4> QED
        BY <3>2, <4>2 DEF ParentAttrs, Job
    <3> QED
      BY <3>1, <3>2
  <2>2. Content(k) \in Attrs
    BY <1>1, <2>1 DEF Content, Attrs, Job
  <2> QED
    BY <1>3, <2>2 DEF Contents
<1> QED
  BY <1>2, <1>3

\* The end of an iteration of a publishing loop.
LEMMA FinishIterationType ==
  ASSUME QueueTypeOK, todo \in SUBSET Keys, NEW k \in Keys, UNCHANGED config,
         FinishIteration(k)
  PROVE  QueueTypeOK' /\ todo' \in SUBSET Keys
BY DEF QueueTypeOK, FinishIteration

-----------------------------------------------------------------------------
(***************************************************************************)
(* Type correctness.                                                       *)
(***************************************************************************)

\* The connection loops count their attempts up to MaxTries.
LEMMA TriesStep == TypeOK /\ TriesInv /\ [Next]_vars => TriesInv'
<1> SUFFICES ASSUME TypeOK, TriesInv, [Next]_vars PROVE TriesInv'
  OBVIOUS
<1> USE DEF TypeOK, TriesInv, Running, Final, MaxTries
<1>1. CASE OpenSucceeds \/ OpenFails
  BY <1>1 DEF OpenSucceeds, OpenFails
<1>2. CASE UNCHANGED numTries /\ (Running' => Running)
  BY <1>2
<1> QED
  BY <1>1, <1>2
  DEF Next, vars, Poll, Publish, PollFails, PollError, BulkLoad, IncrementalLoad, EndLoad,
      LoadAborts, LoadNew, LoadDestroy, LoadDelete, LoadSet, MessageSent, SendFails,
      SkipPublish, EndDirty, EndDelete, ConnectionLost, SendDone, Wake, Leave, Sigterm,
      Terminated, StartPublishing, broker

\* Main and the callbacks keep every variable in its type.
LEMMA TypeStep == TypeOK /\ TriesInv /\ [Next]_vars => TypeOK'
<1> SUFFICES ASSUME TypeOK, TriesInv, [Next]_vars PROVE TypeOK'
  OBVIOUS
<1> USE DEF TypeOK, Final
<1>1. CASE PollFails
  BY <1>1 DEF PollFails, StartPublishing, queue, broker, signals, source, QueueTypeOK
<1>2. CASE PollError
  BY <1>2 DEF PollError, queue, broker, signals, source, QueueTypeOK
<1>3. CASE BulkLoad
  BY <1>3 DEF BulkLoad, Reset, broker, signals, QueueTypeOK
<1>4. CASE IncrementalLoad
  BY <1>4 DEF IncrementalLoad, queue, broker, signals, source, QueueTypeOK
<1>5. CASE EndLoad
  BY <1>5 DEF EndLoad, StartPublishing, queue, broker, signals, source, QueueTypeOK
<1>6. CASE LoadAborts
  BY <1>6 DEF LoadAborts, queue, broker, signals, source, QueueTypeOK
<1>7. ASSUME NEW k \in Keys, LoadNew(k) PROVE TypeOK'
  <2>1. QueueTypeOK'
    BY <1>7, NewClassAdResult DEF LoadNew
  <2> QED
    BY <1>7, <2>1 DEF LoadNew, broker, signals
<1>8. ASSUME NEW k \in Keys, LoadDestroy(k) PROVE TypeOK'
  BY <1>8 DEF LoadDestroy, DestroyClassAd, broker, signals, QueueTypeOK
<1>9. ASSUME NEW k \in Keys, NEW n \in Names,
             LoadDelete(k, n) \/ \E v \in Values : LoadSet(k, n, v)
      PROVE  TypeOK'
  <2>1. CASE Known(k)
    <3>1. QueueTypeOK'
      BY <1>9, <2>1, AttributeResult DEF LoadDelete, LoadSet
    <3> QED
      BY <1>9, <3>1 DEF LoadDelete, LoadSet, broker, signals, source
  <2>2. CASE ~Known(k)
    BY <1>9, <2>2 DEF LoadDelete, LoadSet, DeleteAttribute, SetAttribute, broker, signals,
                      source, QueueTypeOK
  <2> QED
    BY <2>1, <2>2
<1>10. ASSUME NEW k \in Keys, MessageSent(k) PROVE TypeOK'
  <2>1. QueueTypeOK' /\ todo' \in SUBSET Keys
    BY <1>10, FinishIterationType DEF MessageSent
  <2>2. view' \in [Keys -> Attrs \cup {Null, Lost}]
    BY <1>10, ContentsAreAttrs DEF MessageSent
  <2> QED
    BY <1>10, <2>1, <2>2 DEF MessageSent, signals, source
<1>11. ASSUME NEW k \in Keys, SendFails(k) PROVE TypeOK'
  <2>1. QueueTypeOK' /\ todo' \in SUBSET Keys
    BY <1>11, FinishIterationType DEF SendFails, queue, QueueTypeOK
  <2> QED
    BY <1>11, <2>1 DEF SendFails, signals, source
<1>12. ASSUME NEW k \in Keys, SkipPublish(k) PROVE TypeOK'
  <2>1. QueueTypeOK' /\ todo' \in SUBSET Keys
    BY <1>12, FinishIterationType DEF SkipPublish
  <2> QED
    BY <1>12, <2>1 DEF SkipPublish, broker, signals, source
<1>13. CASE EndDirty
  BY <1>13 DEF EndDirty, broker, signals, source, QueueTypeOK
<1>14. CASE EndDelete
  BY <1>14 DEF EndDelete, broker, signals, source, QueueTypeOK
<1>15. CASE OpenSucceeds
  <2>1. QueueTypeOK' /\ todo' \in SUBSET Keys
    BY <1>15, FinishIterationType DEF OpenSucceeds, queue, QueueTypeOK
  <2> QED
    BY <1>15, <2>1 DEF OpenSucceeds, MaxTries, signals, source
<1>16. CASE OpenFails
  <2>1. numTries' \in 0..MaxTries
    BY <1>16 DEF OpenFails, MaxTries, TriesInv, Running
  <2> QED
    BY <1>16, <2>1 DEF OpenFails, queue, signals, source, QueueTypeOK
<1>17. CASE ConnectionLost
  BY <1>17 DEF ConnectionLost, queue, signals, source, QueueTypeOK
<1>18. CASE SendDone
  BY <1>18 DEF SendDone, queue, broker, signals, source, QueueTypeOK
<1>19. CASE Wake
  BY <1>19 DEF Wake, queue, broker, signals, source, QueueTypeOK
<1>20. CASE Leave
  BY <1>20 DEF Leave, Reset, signals, source, QueueTypeOK
<1>21. CASE Sigterm
  BY <1>21 DEF Sigterm, queue, broker, source, QueueTypeOK
<1>22. CASE Terminated \/ UNCHANGED vars
  BY <1>22 DEF Terminated, vars, queue, broker, signals, source, QueueTypeOK
<1> QED
  BY <1>1, <1>2, <1>3, <1>4, <1>5, <1>6, <1>7, <1>8, <1>9, <1>10, <1>11, <1>12, <1>13,
     <1>14, <1>15, <1>16, <1>17, <1>18, <1>19, <1>20, <1>21, <1>22 DEF Next, Poll, Publish

\* The initial state has the invariant.
LEMMA InitInv == Init => IInv
<1> SUFFICES ASSUME Init PROVE IInv
  OBVIOUS
<1> USE KeysAreClustersAndJobs DEF Init, QueueInit
<1>1. TypeOK /\ TriesInv
  <2>1. pc \in {"connect", "poll"} /\ numTries \in 0..MaxTries /\ numTries < MaxTries
    BY DEF MaxTries
  <2> QED
    BY <2>1 DEF TypeOK, QueueTypeOK, TriesInv
<1>2. LogInv /\ ParentInv /\ LoopInv /\ MemoryInv
  BY DEF LogInv, ParentInv, LoopInv, MemoryInv, Known, Publishing, Doomed
<1> QED
  BY <1>1, <1>2 DEF IInv

\* The type invariant of JobQueuePublisher, and that no connection loop makes more
\* than MaxTries attempts.
THEOREM TypeCorrect == Spec => []TypeOK
<1>1. Init => TypeOK /\ TriesInv
  BY InitInv DEF IInv
<1>2. TypeOK /\ TriesInv /\ [Next]_vars => (TypeOK /\ TriesInv)'
  BY TypeStep, TriesStep
<1> QED
  BY <1>1, <1>2, PTL DEF Spec

-----------------------------------------------------------------------------
(***************************************************************************)
(* The memory: the parts of the invariant that are not about types.        *)
(***************************************************************************)
Quiet == pc \in {"connect", "poll", "dump", "sleep", "leave"}

QueueInv == LogInv /\ ParentInv /\ LoopInv /\ (Running => MemoryInv)

\* The reason for the reverse order of the second loop: when the turn of a cluster
\* comes, none of its jobs is in g_jobs. A job that is there is alive in the log, so
\* that its cluster is not destroyed, or has its own turn first.
LEMMA NoChildLeft ==
  ASSUME IInv, Publishing, phase = "delete", NEW k \in Keys, Current(k)
  PROVE  \A j \in Jobs : Known(j) => ClusterOf[j] # k
<1> SUFFICES ASSUME NEW j \in Jobs, Known(j), ClusterOf[j] = k PROVE FALSE
  OBVIOUS
<1>1. k \in Clusters /\ j \in Keys
  BY KeysAreClustersAndJobs
<1>2. k \in todo /\ k \in dead
  BY DEF Current, IInv, LoopInv
<1>3. j \in live \cup todo
  BY DEF IInv, MemoryInv, Doomed, Running, Publishing, Final
<1>4. CASE j \in live
  BY <1>2, <1>4 DEF IInv, LogInv
<1>5. CASE j \in todo
  <2>1. KeyRank[j] <= KeyRank[k]
    BY <1>5 DEF Current
  <2>2. KeyRank[k] < KeyRank[j] /\ KeyRank[k] \in Nat /\ KeyRank[j] \in Nat
    BY <1>1, RankAssumption
  <2> QED
    BY <2>1, <2>2
<1> QED
  BY <1>3, <1>4, <1>5

\* An iteration of either loop, however it ends, keeps the memory consistent.
LEMMA IterationKeepsInv ==
  ASSUME IInv, Publishing, Publishing', NEW k \in Keys, Current(k), FinishIteration(k),
         UNCHANGED <<phase, live, dead>>
  PROVE  QueueInv'
<1> USE KeysAreClustersAndJobs
<1> USE DEF IInv, TypeOK, QueueTypeOK
<1>1. CASE phase = "dirty"
  <2>1. UNCHANGED <<g_jobs, g_dirty_jobs, g_delete_jobs, live, dead, phase>> /\ todo' \subseteq todo
    BY <1>1 DEF FinishIteration
  <2>2. Running /\ Doomed' = Doomed
    BY <1>1, <2>1 DEF Running, Publishing, Final, Doomed
  <2> QED
    BY <1>1, <2>1, <2>2 DEF QueueInv, LogInv, ParentInv, LoopInv, MemoryInv, Known, Publishing
<1>2. CASE phase = "delete"
  <2>1. /\ g_jobs' = [g_jobs EXCEPT ![k] = Null]
        /\ todo' = todo \ {k}
        /\ UNCHANGED <<g_dirty_jobs, g_delete_jobs, live, dead, phase>>
    BY <1>2 DEF FinishIteration
  <2>2. /\ Running
        /\ Doomed = todo
        /\ Doomed' = todo'
        /\ g_dirty_jobs = {}
        /\ todo \subseteq g_delete_jobs
        /\ g_delete_jobs \subseteq dead
        /\ k \in todo
    BY <1>2, <2>1 DEF Running, Publishing, Final, Doomed, LoopInv, Current
  <2>3. \A l \in Keys : Known(l)' <=> Known(l) /\ l # k
    BY <2>1 DEF Known
  <2>4. ParentInv'
    BY <1>2, <2>1, <2>3, NoChildLeft DEF ParentInv
  <2>5. LogInv' /\ LoopInv'
    BY <1>2, <2>1, <2>2 DEF LogInv, LoopInv, Publishing
  <2>6. MemoryInv'
    <3>1. MemoryInv /\ live \cap dead = {}
      BY <2>2 DEF LogInv
    <3> QED
      BY <2>1, <2>2, <2>3, <3>1 DEF MemoryInv
  <2> QED
    BY <2>4, <2>5, <2>6 DEF QueueInv
<1> QED
  BY <1>1, <1>2

\* A step of main that leaves the memory alone and enters no loop.
LEMMA OtherStepsKeepInv ==
  ASSUME IInv, UNCHANGED <<queue, phase, todo, live, dead>>,
         Publishing' => Publishing, Running' => Running /\ (Publishing' <=> Publishing),
         Quiet' => Quiet
  PROVE  QueueInv'
<1>1. Running' => Doomed' = Doomed
  BY DEF Doomed, queue
<1>2. LogInv' /\ ParentInv' /\ LoopInv'
  BY DEF IInv, LogInv, ParentInv, LoopInv, Known, queue, Quiet
<1>3. Running' => MemoryInv'
  BY <1>1 DEF IInv, MemoryInv, Known, queue
<1> QED
  BY <1>2, <1>3 DEF QueueInv

\* The end of a load, or a failed poll: the dirty loop begins.
LEMMA StartPublishingKeepsInv ==
  ASSUME IInv, pc \in {"poll", "load"}, StartPublishing, UNCHANGED <<queue, live, dead>>
  PROVE  QueueInv'
<1>1. Running /\ Doomed' = Doomed
  BY DEF StartPublishing, Doomed, Publishing, Running, Final, queue
<1> QED
  BY <1>1 DEF StartPublishing, IInv, QueueInv, LogInv, ParentInv, LoopInv, MemoryInv, Known,
              Publishing, queue

\* NewClassAd, called as a log's discipline allows: the ad and its cluster are there.
LEMMA LoadNewKeepsInv ==
  ASSUME IInv, NEW k \in Keys, LoadNew(k)
  PROVE  QueueInv'
<1> USE KeysAreClustersAndJobs
<1> DEFINE c == ClusterOf[k]
<1>1. /\ pc = "load" /\ pc' = "load" /\ k \notin live \cup dead
      /\ k \in Jobs => c \notin dead
      /\ live' = live \cup {k} /\ dead' = dead
      /\ MemoryInv /\ LogInv /\ ParentInv /\ LoopInv /\ QueueTypeOK
      /\ Doomed = g_delete_jobs /\ Doomed' = g_delete_jobs'
  BY DEF LoadNew, Creatable, IInv, Running, Final, Doomed, Publishing, TypeOK
<1>2. /\ Known(k)'
      /\ \A l \in Keys : Known(l) => Known(l)'
      /\ \A l \in Keys : Known(l)' => Known(l) \/ l = k \/ (k \in Jobs /\ l = c)
      /\ \A l \in Keys : Known(l) /\ l \notin Jobs \cap {k} => g_jobs'[l] = g_jobs[l]
      /\ k \in Jobs => g_jobs'[k].parent = c /\ Known(c)'
      /\ \A d \in Clusters : Known(d)' => Known(d) \/ g_jobs'[d].parent = Null
      /\ g_dirty_jobs' \subseteq g_dirty_jobs \cup {k}
      /\ g_delete_jobs' = g_delete_jobs
  BY <1>1, NewClassAdResult DEF LoadNew
<1>3. LogInv'
  BY <1>1 DEF LogInv
<1>4. ParentInv'
  <2>1. ASSUME NEW j \in Jobs, Known(j)' PROVE g_jobs'[j].parent = ClusterOf[j] /\ Known(ClusterOf[j])'
    <3>1. CASE j = k
      BY <1>2, <3>1
    <3>2. CASE j # k
      <4>1. Known(j) /\ g_jobs'[j] = g_jobs[j]
        BY <1>2, <2>1, <3>2
      <4> QED
        BY <1>1, <1>2, <4>1 DEF ParentInv
    <3> QED
      BY <3>1, <3>2
  <2>2. ASSUME NEW d \in Clusters, Known(d)' PROVE g_jobs'[d].parent = Null
    BY <1>1, <1>2, <2>2 DEF ParentInv
  <2> QED
    BY <2>1, <2>2 DEF ParentInv
<1>5. LoopInv'
  BY <1>1, <1>2 DEF LoopInv, Publishing
<1>6. MemoryInv'
  <2>1. \A l \in live' \cup Doomed' \cup g_dirty_jobs' : Known(l)'
    <3>1. live' \cup Doomed' \cup g_dirty_jobs' \subseteq (live \cup Doomed \cup g_dirty_jobs) \cup {k}
      BY <1>1, <1>2
    <3>2. live \cup Doomed \cup g_dirty_jobs \subseteq Keys
      BY <1>1 DEF IInv, TypeOK, QueueTypeOK
    <3> QED
      BY <1>1, <1>2, <3>1, <3>2 DEF MemoryInv
  <2>2. \A j \in Jobs : Known(j)' => j \in live' \cup Doomed'
    BY <1>1, <1>2 DEF MemoryInv
  <2>3. ASSUME NEW d \in Clusters, Known(d)'
        PROVE  \/ d \in live' \cup Doomed'
               \/ d \notin dead' /\ \E j \in Jobs \cap (live' \cup dead') : ClusterOf[j] = d
    <3>1. CASE Known(d)
      BY <1>1, <1>2, <3>1 DEF MemoryInv
    <3>2. CASE ~Known(d)
      BY <1>1, <1>2, <2>3, <3>2
    <3> QED
      BY <3>1, <3>2
  <2> QED
    BY <2>1, <2>2, <2>3 DEF MemoryInv
<1> QED
  BY <1>3, <1>4, <1>5, <1>6 DEF QueueInv

\* DestroyClassAd: an ad leaves the live ones for the doomed ones and stays in g_jobs.
LEMMA LoadDestroyKeepsInv ==
  ASSUME IInv, NEW k \in Keys, LoadDestroy(k)
  PROVE  QueueInv'
<1> USE KeysAreClustersAndJobs
<1>1. /\ pc = "load" /\ pc' = "load" /\ k \in live
      /\ k \in Clusters => \A j \in live \cap Jobs : ClusterOf[j] # k
      /\ live' = live \ {k} /\ dead' = dead \cup {k}
      /\ g_jobs' = g_jobs
      /\ g_dirty_jobs' = g_dirty_jobs \ {k}
      /\ g_delete_jobs' = g_delete_jobs \cup {k}
      /\ MemoryInv /\ LogInv /\ ParentInv /\ LoopInv
      /\ Doomed = g_delete_jobs /\ Doomed' = g_delete_jobs'
  BY DEF LoadDestroy, DestroyClassAd, Destroyable, IInv, Running, Final, Doomed, Publishing
<1>2. LogInv' /\ ParentInv' /\ LoopInv'
  BY <1>1 DEF LogInv, ParentInv, LoopInv, Known, Publishing
<1>3. MemoryInv'
  BY <1>1 DEF MemoryInv, Known
<1> QED
  BY <1>2, <1>3 DEF QueueInv

\* SetAttribute and DeleteAttribute: the same ads are there, one of them may be dirty.
LEMMA LoadAttributeKeepsInv ==
  ASSUME IInv, NEW k \in Keys, NEW n \in Names,
         LoadDelete(k, n) \/ \E v \in Values : LoadSet(k, n, v)
  PROVE  QueueInv'
<1> USE KeysAreClustersAndJobs
<1>1. /\ pc = "load" /\ pc' = "load" /\ k \in live
      /\ live' = live /\ dead' = dead
      /\ MemoryInv /\ LogInv /\ ParentInv /\ LoopInv /\ QueueTypeOK
      /\ Doomed = g_delete_jobs /\ Doomed' = g_delete_jobs'
  BY DEF LoadDelete, LoadSet, source, IInv, Running, Final, Doomed, Publishing, TypeOK
<1>2. Known(k)
  BY <1>1 DEF MemoryInv
<1>3. /\ \A l \in Keys : Known(l)' <=> Known(l)
      /\ \A l \in Keys : Known(l) => g_jobs'[l].parent = g_jobs[l].parent
      /\ g_dirty_jobs' \subseteq g_dirty_jobs \cup {k}
      /\ g_delete_jobs' = g_delete_jobs
  BY <1>1, <1>2, AttributeResult DEF LoadDelete, LoadSet
<1>4. LogInv' /\ ParentInv' /\ LoopInv'
  BY <1>1, <1>3 DEF LogInv, ParentInv, LoopInv, Publishing
<1>5. MemoryInv'
  <2>1. live \cup Doomed \cup g_dirty_jobs \subseteq Keys
    BY <1>1 DEF IInv, TypeOK, QueueTypeOK
  <2> QED
    BY <1>1, <1>3, <2>1 DEF MemoryInv
<1> QED
  BY <1>4, <1>5 DEF QueueInv

\* Every step of main keeps the memory consistent with the log and with itself.
LEMMA QueueStep == IInv /\ [Next]_vars => QueueInv'
<1> SUFFICES ASSUME IInv, [Next]_vars PROVE QueueInv'
  OBVIOUS
<1> USE KeysAreClustersAndJobs
<1>1. CASE PollFails \/ EndLoad
  BY <1>1, StartPublishingKeepsInv DEF PollFails, EndLoad, source
<1>2. CASE BulkLoad
  <2>1. /\ g_jobs' = [k \in Keys |-> Null]
        /\ g_dirty_jobs' = {} /\ g_delete_jobs' = {}
        /\ live' = {} /\ dead' = {} /\ pc' = "load"
    BY <1>2 DEF BulkLoad, Reset, IInv, LoopInv
  <2> QED
    BY <2>1 DEF QueueInv, LogInv, ParentInv, LoopInv, MemoryInv, Known, Doomed, Publishing
<1>3. ASSUME NEW k \in Keys, LoadNew(k) PROVE QueueInv'
  BY <1>3, LoadNewKeepsInv
<1>4. ASSUME NEW k \in Keys, LoadDestroy(k) PROVE QueueInv'
  BY <1>4, LoadDestroyKeepsInv
<1>5. ASSUME NEW k \in Keys, NEW n \in Names,
             LoadDelete(k, n) \/ \E v \in Values : LoadSet(k, n, v)
      PROVE  QueueInv'
  BY <1>5, LoadAttributeKeepsInv
<1>6. ASSUME NEW k \in Keys, Current(k), FinishIteration(k), Publishing, Publishing',
             UNCHANGED <<phase, live, dead>>
      PROVE  QueueInv'
  BY <1>6, IterationKeepsInv
<1>7. ASSUME NEW k \in Keys, MessageSent(k) \/ SkipPublish(k) PROVE QueueInv'
  BY <1>6, <1>7 DEF MessageSent, SkipPublish, Publishing, source
<1>8. ASSUME UNCHANGED <<queue, phase, todo, live, dead>>, Publishing' => Publishing,
             Running' => Running /\ (Publishing' <=> Publishing), Quiet' => Quiet
      PROVE  QueueInv'
  BY <1>8, OtherStepsKeepInv
<1>9. ASSUME NEW k \in Keys, SendFails(k) PROVE QueueInv'
  <2>1. CASE connected
    BY <1>6, <1>9, <2>1 DEF SendFails, Publishing, source
  <2>2. CASE ~connected
    BY <1>8, <1>9, <2>2 DEF SendFails, Publishing, Running, Final, Quiet, source
  <2> QED
    BY <2>1, <2>2
<1>10. CASE EndDirty
  <2>1. /\ UNCHANGED <<g_jobs, g_delete_jobs, live, dead, pc>>
        /\ g_dirty_jobs' = {} /\ phase' = "delete" /\ todo' = g_delete_jobs
        /\ pc = "publish" /\ phase = "dirty"
    BY <1>10 DEF EndDirty, source
  <2>2. Running /\ Doomed = g_delete_jobs /\ Doomed' = g_delete_jobs
    BY <2>1 DEF Running, Final, Doomed, Publishing
  <2> QED
    BY <2>1, <2>2 DEF IInv, QueueInv, LogInv, ParentInv, LoopInv, MemoryInv, Known, Publishing
<1>11. CASE EndDelete
  <2>1. /\ UNCHANGED <<g_jobs, g_dirty_jobs, live, dead>>
        /\ g_delete_jobs' = {} /\ todo = {}
        /\ pc = "publish" /\ phase = "delete" /\ pc' \in {"dump", "sleep"}
    BY <1>11 DEF EndDelete, source
  <2>2. Running /\ Doomed = {} /\ Doomed' = {} /\ g_dirty_jobs = {}
    BY <2>1 DEF Running, Final, Doomed, Publishing, IInv, LoopInv
  <2> QED
    BY <2>1, <2>2 DEF IInv, QueueInv, LogInv, ParentInv, LoopInv, MemoryInv, Known, Publishing
<1>12. CASE OpenSucceeds
  <2>1. CASE pc = "connect"
    BY <1>8, <1>12, <2>1 DEF OpenSucceeds, Publishing, Running, Final, Quiet, source
  <2>2. CASE pc = "reconnect"
    BY <1>6, <1>12, <2>2 DEF OpenSucceeds, Publishing, source
  <2> QED
    BY <1>12, <2>1, <2>2 DEF OpenSucceeds
<1>13. CASE Leave
  <2>1. /\ g_jobs' = [k \in Keys |-> Null]
        /\ UNCHANGED <<g_dirty_jobs, g_delete_jobs, live, dead>>
        /\ pc' \in Final
    BY <1>13 DEF Leave, Reset, Final, source
  <2> QED
    BY <2>1 DEF IInv, QueueInv, LogInv, ParentInv, LoopInv, Known, Publishing, Running, Final
<1>14. CASE \/ PollError \/ IncrementalLoad \/ LoadAborts \/ OpenFails \/ ConnectionLost
           \/ SendDone \/ Wake \/ Sigterm \/ Terminated \/ UNCHANGED vars
  <2>1. UNCHANGED <<queue, phase, todo, live, dead>>
    BY <1>14 DEF PollError, IncrementalLoad, LoadAborts, OpenFails, ConnectionLost,
                 SendDone, Wake, Sigterm, Terminated, vars, source
  <2>2. /\ Publishing' => Publishing
        /\ Running' => Running /\ (Publishing' <=> Publishing)
        /\ Quiet' => Quiet
    BY <1>14 DEF PollError, IncrementalLoad, LoadAborts, OpenFails, ConnectionLost,
                 SendDone, Wake, Sigterm, Terminated, vars, Publishing, Running, Final, Quiet
  <2> QED
    BY <1>8, <2>1, <2>2
<1> QED
  BY <1>1, <1>2, <1>3, <1>4, <1>5, <1>7, <1>9, <1>10, <1>11, <1>12, <1>13, <1>14
  DEF Next, Poll, Publish

\* The inductive invariant.
THEOREM Consistent == Spec => []IInv
<1>1. Init => IInv
  BY InitInv
<1>2. IInv /\ [Next]_vars => IInv'
  BY TypeStep, TriesStep, QueueStep DEF IInv, QueueInv
<1> QED
  BY <1>1, <1>2, PTL DEF Spec

\* The assertion of PublishJob (job_queue_publisher_main.cpp:420) never fails.
THEOREM PublishJobFindsJob == Spec => []AssertHolds
<1>1. IInv => AssertHolds
  <2> SUFFICES ASSUME IInv, Publishing, NEW k \in todo PROVE Known(k)
    BY DEF AssertHolds, Publishing
  <2>1. MemoryInv /\ phase \in {"dirty", "delete"}
    BY DEF IInv, TypeOK, Running, Final, Publishing
  <2> QED
    BY <2>1 DEF IInv, LoopInv, MemoryInv, Doomed
<1> QED
  BY <1>1, Consistent, PTL

\* No job's m_parent ever points to an erased element of g_jobs.
THEOREM NoDanglingParent == Spec => []ParentAlive
<1>1. IInv => ParentAlive
  BY KeysAreClustersAndJobs DEF IInv, ParentInv, ParentAlive
<1> QED
  BY <1>1, Consistent, PTL

\* Between polls the memory holds the ads of the log, and parents made for jobs.
THEOREM MemoryMatchesLog == Spec => []QueueMatchesLog
<1>1. IInv => QueueMatchesLog
  <2> SUFFICES ASSUME IInv, Settled PROVE QueueMatchesLog
    BY DEF QueueMatchesLog
  <2>1. MemoryInv /\ Doomed = {}
    BY DEF IInv, LoopInv, Doomed, Settled, Publishing, Running, Final
  <2> QED
    BY <2>1 DEF QueueMatchesLog, MemoryInv
<1> QED
  BY <1>1, Consistent, PTL

-----------------------------------------------------------------------------
(***************************************************************************)
(* What the messages say: the publisher implements JobFeed, and the last   *)
(* message about a job is up to date when it should be.  First, the        *)
(* attributes after each callback.                                         *)
(***************************************************************************)

\* AssignJob keeps the attributes of an element that is there (Job::operator=).
LEMMA AssignJobAttrs ==
  ASSUME NEW jobs \in [Keys -> Job \cup {Null}], NEW k \in Keys,
         NEW p \in Clusters \cup {Null}
  PROVE  AssignJob(jobs, k, p)[k].attrs = IF jobs[k] = Null THEN NoAttrs ELSE jobs[k].attrs
BY DEF AssignJob

\* NewClassAd brings in the ad, and the cluster of a job, without attributes where
\* they are missing, and leaves all attributes alone.
LEMMA NewClassAdAttrs ==
  ASSUME QueueTypeOK, NEW k \in Keys, NewClassAd(k), UNCHANGED config,
         NEW l \in Keys
  PROVE  /\ Known(l) => Known(l)' /\ g_jobs'[l].attrs = g_jobs[l].attrs
         /\ ~Known(l) /\ (l = k \/ (k \in Jobs /\ l = ClusterOf[k]))
              => Known(l)' /\ g_jobs'[l].attrs = NoAttrs
         /\ ~Known(l) /\ l # k /\ ~(k \in Jobs /\ l = ClusterOf[k]) => ~Known(l)'
<1> USE KeysAreClustersAndJobs
<1>1. CASE k \in Clusters /\ NewClusterAd(k)
  <2> DEFINE n == AssignJob(g_jobs, k, Null)
  <2>1. /\ n \in [Keys -> Job \cup {Null}]
        /\ n[k] \in Job
        /\ \A i \in Keys \ {k} : n[i] = g_jobs[i]
        /\ n[k].attrs = IF Known(k) THEN g_jobs[k].attrs ELSE NoAttrs
    BY AssignJobResult, AssignJobAttrs DEF QueueTypeOK, Known
  <2>2. g_jobs' = IF Known(k) THEN g_jobs ELSE n
    BY <1>1 DEF NewClusterAd
  <2> HIDE DEF n
  <2> QED
    BY <1>1, <2>1, <2>2, JobIsNotNull DEF Known
<1>2. CASE k \in Jobs /\ NewJobAd(k)
  <2> DEFINE c == ClusterOf[k]
             w == IF Known(c) THEN g_jobs ELSE AssignJob(g_jobs, c, Null)
             n == AssignJob(w, k, c)
  <2>1. /\ w \in [Keys -> Job \cup {Null}]
        /\ w[c] # Null
        /\ \A i \in Keys \ {c} : w[i] = g_jobs[i]
        /\ w[c].attrs = IF Known(c) THEN g_jobs[c].attrs ELSE NoAttrs
    BY <1>2, AssignJobResult, AssignJobAttrs, JobIsNotNull DEF QueueTypeOK, Known
  <2> HIDE DEF w
  <2>2. /\ n[k] \in Job
        /\ n[k].attrs = IF w[k] = Null THEN NoAttrs ELSE w[k].attrs
        /\ \A i \in Keys \ {k} : n[i] = w[i]
    BY <1>2, <2>1, AssignJobResult, AssignJobAttrs
  <2>3. g_jobs' = n
    BY <1>2 DEF NewJobAd, w
  <2>4. c \in Keys /\ c # k
    BY <1>2
  <2> HIDE DEF n
  <2>5. CASE l = k
    BY <2>1, <2>2, <2>3, <2>4, <2>5, JobIsNotNull DEF Known
  <2>6. CASE l = c
    BY <1>2, <2>1, <2>2, <2>3, <2>4, <2>6, JobIsNotNull DEF Known
  <2>7. CASE l # k /\ l # c
    BY <1>2, <2>1, <2>2, <2>3, <2>7 DEF Known
  <2> QED
    BY <2>5, <2>6, <2>7
<1> QED
  BY <1>1, <1>2 DEF NewClassAd

\* Setting or deleting an attribute changes that attribute of that ad and no other;
\* a trigger attribute of a job that gets a value makes the job dirty.
LEMMA AttributeAttrs ==
  ASSUME QueueTypeOK, NEW k \in Keys, Known(k), NEW n \in Names,
         DeleteAttribute(k, n) \/ \E v \in Values : SetAttribute(k, n, v)
  PROVE  \E v \in Values \cup {Null} :
           /\ g_jobs' = [g_jobs EXCEPT ![k].attrs[n] = v]
           /\ g_dirty_jobs \subseteq g_dirty_jobs'
           /\ v # Null /\ k \in Jobs /\ n \in TriggerNames => k \in g_dirty_jobs'
BY DEF DeleteAttribute, SetAttribute, IsTrigger, TriggerNames

\* While every parent is there, what is published is the job's Content.
LEMMA PublishedIsContent ==
  ASSUME QueueTypeOK, ParentInv, NEW k \in Keys, Known(k)
  PROVE  /\ Contents(k) = {Content(k)}
         /\ Content(k) \in Attrs
         /\ Content(k) = [n \in Names |->
              IF k \in Jobs /\ g_jobs[k].attrs[n] = Null
              THEN g_jobs[ClusterOf[k]].attrs[n] ELSE g_jobs[k].attrs[n]]
<1> USE KeysAreClustersAndJobs
<1>1. CASE k \in Jobs
  <2>1. g_jobs[k].parent = ClusterOf[k] /\ Known(ClusterOf[k]) /\ ClusterOf[k] # Null
    BY <1>1 DEF ParentInv
  <2>2. ParentAttrs(k) = g_jobs[ClusterOf[k]].attrs
    BY <2>1 DEF ParentAttrs
  <2>3. Contents(k) = {Content(k)}
    BY <2>1 DEF Contents
  <2>4. Content(k) = [n \in Names |-> IF g_jobs[k].attrs[n] = Null
                                        THEN g_jobs[ClusterOf[k]].attrs[n] ELSE g_jobs[k].attrs[n]]
    BY <2>2 DEF Content
  <2> QED
    BY <1>1, <2>3, <2>4, ContentsAreAttrs
<1>2. CASE k \in Clusters
  <2>1. g_jobs[k].parent = Null /\ k \notin Jobs
    BY <1>2 DEF ParentInv
  <2>2. ParentAttrs(k) = NoAttrs /\ Contents(k) = {Content(k)}
    BY <2>1 DEF ParentAttrs, Contents
  <2>3. Content(k) = [n \in Names |-> g_jobs[k].attrs[n]]
    BY <2>2 DEF Content, NoAttrs
  <2> QED
    BY <2>1, <2>2, <2>3, ContentsAreAttrs
<1> QED
  BY <1>1, <1>2

-----------------------------------------------------------------------------
(***************************************************************************)
(* MessageInv is inductive, given IInv.                                    *)
(***************************************************************************)
\* The keys are totally ordered, so that one key at a time has its turn.
LEMMA CurrentUnique ==
  ASSUME NEW k \in Keys, NEW l \in Keys, Current(k), Current(l)
  PROVE  k = l
<1>1. KeyRank[k] = KeyRank[l]
  BY RankAssumption DEF Current
<1> QED
  BY <1>1, RankAssumption

\* While a connection is tried again nothing else happens in the loop.
LEMMA ReconnectStep == IInv /\ ReconnectInv /\ [Next]_vars => ReconnectInv'
<1> SUFFICES ASSUME IInv, ReconnectInv, [Next]_vars, pc' = "reconnect" PROVE ReconnectInv'
  BY DEF ReconnectInv
<1>1. CASE \E k \in Keys : SendFails(k)
  <2>1. PICK k \in Keys : SendFails(k)
    BY <1>1
  <2>2. /\ config.address /\ UNCHANGED <<config, todo, phase>>
        /\ Current(k) /\ view' = [view EXCEPT ![k] = Lost]
    BY <2>1 DEF SendFails, FinishIteration
  <2>3. \A l \in Keys : Current(l)' => l = k
    BY <2>2, CurrentUnique DEF Current
  <2>4. view \in [Keys -> Attrs \cup {Null, Lost}]
    BY DEF IInv, TypeOK
  <2> QED
    BY <2>2, <2>3, <2>4 DEF ReconnectInv
<1>2. CASE pc = "reconnect" /\ UNCHANGED <<config, todo, phase, view>>
  BY <1>2 DEF ReconnectInv, Current
<1> QED
  BY <1>1, <1>2
  DEF Next, vars, Poll, Publish, PollFails, PollError, BulkLoad, IncrementalLoad, EndLoad,
      LoadAborts, LoadNew, LoadDestroy, LoadDelete, LoadSet, MessageSent, SkipPublish,
      EndDirty, EndDelete, OpenSucceeds, OpenFails, ConnectionLost, SendDone, Wake, Leave,
      Sigterm, Terminated, StartPublishing, broker

\* What a job that is alive in the log shows is not touched by an erasure.
LEMMA LiveJobsUntouched ==
  ASSUME IInv, Publishing, NEW k \in Keys, Current(k), FinishIteration(k),
         NEW j \in Jobs \cap live
  PROVE  /\ Known(j)
         /\ g_jobs'[j] = g_jobs[j]
         /\ Content(j)' = Content(j)
         /\ phase = "delete" => j # k
<1> USE KeysAreClustersAndJobs
<1>1. /\ Known(j) /\ g_jobs[j].parent = ClusterOf[j] /\ Known(ClusterOf[j])
      /\ j \notin dead /\ ClusterOf[j] \notin dead
      /\ g_jobs \in [Keys -> Job \cup {Null}]
  BY DEF IInv, MemoryInv, Running, Publishing, Final, ParentInv, LogInv, TypeOK, QueueTypeOK
<1>2. phase = "delete" => k \in dead
  BY DEF IInv, LoopInv, Current
<1>3. g_jobs'[j] = g_jobs[j] /\ g_jobs'[ClusterOf[j]] = g_jobs[ClusterOf[j]]
  BY <1>1, <1>2 DEF FinishIteration
<1> QED
  BY <1>1, <1>2, <1>3 DEF Content, ParentAttrs

\* An iteration that ends with a message leaves an up to date one, for a job that is
\* alive in the log, or a lost one.
LEMMA IterationKeepsMessages ==
  ASSUME IInv, Publishing, Publishing', pc' # "dump", config.address,
         NEW k \in Keys, Current(k), Known(k), FinishIteration(k),
         \E m \in {Content(k), Lost} : view' = [view EXCEPT ![k] = m],
         UNCHANGED <<config, phase, live>>
  PROVE  /\ FreshInv => FreshInv'
         /\ DumpInv => DumpInv'
<1> USE KeysAreClustersAndJobs
<1>1. /\ view \in [Keys -> Attrs \cup {Null, Lost}]
      /\ QueueTypeOK /\ ParentInv /\ phase \in {"dirty", "delete"}
      /\ TriggerNames \subseteq Names
      /\ Running
  BY DEF IInv, TypeOK, QueueTypeOK, Config, TriggerNames, Running, Publishing, Final
<1>2. \A j \in Keys \ {k} : view'[j] = view[j]
  BY <1>1
<1>3. view'[k] \in {Content(k), Lost}
  BY <1>1
<1>4. Content(k) \in Attrs
  BY <1>1, PublishedIsContent
<1>5. Due' = IF phase = "dirty" THEN Due \ {k} ELSE Due
  BY <1>1 DEF Due, FinishIteration
<1>6. \A j \in Jobs \cap live :
        /\ g_jobs'[j] = g_jobs[j] /\ Content(j)' = Content(j)
        /\ phase = "delete" => j # k
  BY LiveJobsUntouched
<1>7. ASSUME NEW j \in Jobs \cap live, j \notin Due', j # k PROVE j \notin Due
  BY <1>5, <1>7
<1>8. ASSUME FreshInv, NEW j \in (Jobs \cap live) \ Due' PROVE Fresh(j)'
  <2>1. CASE j # k
    BY <1>1, <1>2, <1>6, <1>7, <1>8, <2>1 DEF FreshInv, Fresh, TriggerNames
  <2>2. CASE j = k /\ view'[k] = Lost
    BY <2>2 DEF Fresh
  <2>3. CASE j = k /\ view'[k] = Content(k)
    <3>1. Content(k) # Null
      BY <1>4, JobIsNotNull
    <3>2. \A n \in Names : g_jobs[k].attrs[n] # Null => Content(k)[n] = g_jobs[k].attrs[n]
      BY DEF Content
    <3> QED
      BY <1>1, <1>6, <2>3, <3>1, <3>2 DEF Fresh, TriggerNames
  <2> QED
    BY <1>3, <2>1, <2>2, <2>3
<1>9. ASSUME DumpInv, config.dump, NEW j \in (Jobs \cap live) \ Due'
      PROVE  view'[j] \in {Content(j)', Lost}
  <2>1. CASE j # k
    BY <1>2, <1>6, <1>7, <1>9, <2>1 DEF DumpInv
  <2>2. CASE j = k
    BY <1>3, <1>6, <2>2
  <2> QED
    BY <2>1, <2>2
<1> QED
  BY <1>8, <1>9 DEF FreshInv, DumpInv, Publishing

\* parse_args is over when the main loop begins.
LEMMA ConfigIsFixed == [Next]_vars => UNCHANGED config
BY DEF Next, vars, Poll, Publish, PollFails, PollError, BulkLoad, IncrementalLoad, EndLoad,
  LoadAborts, LoadNew, LoadDestroy, LoadDelete, LoadSet, MessageSent, SendFails, SkipPublish,
  EndDirty, EndDelete, OpenSucceeds, OpenFails, ConnectionLost, SendDone, Wake, Leave,
  Sigterm, Terminated

\* A step of main that changes no ad and no message and forgets no job that is due.
LEMMA OtherStepsKeepFresh ==
  ASSUME FreshInv, UNCHANGED <<config, g_jobs, view>>, live' \subseteq live,
         Running' => Running /\ Due \cap live' \subseteq Due'
  PROVE  FreshInv'
BY DEF FreshInv, Fresh, TriggerNames

\* No step leaves a message that is out of date for a job that is not due.
LEMMA FreshStep == IInv /\ ReconnectInv /\ FreshInv /\ [Next]_vars => FreshInv'
<1> SUFFICES ASSUME IInv, ReconnectInv, FreshInv, [Next]_vars, config.address PROVE FreshInv'
  BY ConfigIsFixed DEF FreshInv
<1> USE KeysAreClustersAndJobs
<1>1. /\ QueueTypeOK /\ view \in [Keys -> Attrs \cup {Null, Lost}]
      /\ TriggerNames \subseteq Names
      /\ \A k \in live : Running => Known(k)
  BY DEF IInv, TypeOK, QueueTypeOK, Config, TriggerNames, MemoryInv
<1>2. CASE PollFails \/ EndLoad
  BY <1>2, OtherStepsKeepFresh
  DEF PollFails, EndLoad, StartPublishing, Due, Publishing, Running, Final, queue, broker, source
<1>3. CASE BulkLoad \/ Leave
  BY <1>3 DEF BulkLoad, Leave, FreshInv, Running, Final
<1>4. ASSUME NEW k \in Keys, LoadNew(k) PROVE FreshInv'
  <2>1. /\ Running /\ k \notin live /\ live' = live \cup {k}
        /\ UNCHANGED <<config, view>>
        /\ Due = g_dirty_jobs /\ Due' = g_dirty_jobs'
    BY <1>4 DEF LoadNew, Creatable, broker, Running, Final, Due, Publishing
  <2>2. /\ \A j \in Jobs \cap live : g_jobs'[j] = g_jobs[j]
        /\ g_dirty_jobs \subseteq g_dirty_jobs'
    BY <1>1, <1>4, <2>1, NewClassAdResult DEF LoadNew
  <2>3. k \in Jobs => k \in Due'
    BY <1>4, <2>1 DEF LoadNew, NewClassAd, NewJobAd
  <2> QED
    BY <2>1, <2>2, <2>3 DEF FreshInv, Fresh, TriggerNames
<1>5. ASSUME NEW k \in Keys, LoadDestroy(k) PROVE FreshInv'
  BY <1>5, OtherStepsKeepFresh
  DEF LoadDestroy, DestroyClassAd, broker, Due, Publishing, Running, Final
<1>6. ASSUME NEW k \in Keys, NEW n \in Names,
             LoadDelete(k, n) \/ \E v \in Values : LoadSet(k, n, v)
      PROVE  FreshInv'
  <2>1. /\ Running /\ k \in live /\ UNCHANGED <<config, view, live>>
        /\ Due = g_dirty_jobs /\ Due' = g_dirty_jobs'
        /\ DeleteAttribute(k, n) \/ \E v \in Values : SetAttribute(k, n, v)
    BY <1>6 DEF LoadDelete, LoadSet, broker, source, Running, Final, Due, Publishing
  <2>2. PICK v \in Values \cup {Null} :
          /\ g_jobs' = [g_jobs EXCEPT ![k].attrs[n] = v]
          /\ g_dirty_jobs \subseteq g_dirty_jobs'
          /\ v # Null /\ k \in Jobs /\ n \in TriggerNames => k \in g_dirty_jobs'
    BY <1>1, <2>1, AttributeAttrs
  <2>3. ASSUME NEW j \in (Jobs \cap live) \ Due' PROVE Fresh(j)'
    <3>1. Fresh(j)
      BY <2>1, <2>2, <2>3 DEF FreshInv
    <3>2. CASE j # k
      BY <1>1, <2>1, <2>2, <3>1, <3>2 DEF Fresh, TriggerNames, QueueTypeOK
    <3>3. CASE j = k
      <4>1. v = Null \/ n \notin TriggerNames
        BY <2>1, <2>2, <2>3, <3>3
      <4>2. g_jobs[k] \in Job
        BY <1>1, <2>1 DEF Known, QueueTypeOK
      <4>3. g_jobs'[k].attrs = [g_jobs[k].attrs EXCEPT ![n] = v]
        BY <1>1, <2>2, <4>2 DEF QueueTypeOK, Job
      <4>4. \A m \in Names \ {n} : g_jobs'[k].attrs[m] = g_jobs[k].attrs[m]
        BY <4>2, <4>3 DEF Job, Attrs
      <4>5. g_jobs'[k].attrs[n] = v
        BY <4>2, <4>3 DEF Job, Attrs
      <4> QED
        BY <1>1, <2>1, <3>1, <3>3, <4>1, <4>4, <4>5 DEF Fresh, TriggerNames
    <3> QED
      BY <3>2, <3>3
  <2> QED
    BY <2>1, <2>3 DEF FreshInv
<1>7. ASSUME NEW k \in Keys, MessageSent(k) PROVE FreshInv'
  <2>1. \E m \in {Content(k), Lost} : view' = [view EXCEPT ![k] = m]
    <3>1. Known(k) /\ ParentInv
      BY <1>7 DEF MessageSent, IInv
    <3>2. Contents(k) = {Content(k)}
      BY <1>1, <3>1, PublishedIsContent
    <3> QED
      BY <1>7, <3>2 DEF MessageSent
  <2> QED
    BY <1>7, <2>1, IterationKeepsMessages DEF MessageSent, Publishing, source
<1>8. ASSUME NEW k \in Keys, SendFails(k) PROVE FreshInv'
  <2>1. CASE connected
    BY <1>8, <2>1, IterationKeepsMessages DEF SendFails, Publishing, source
  <2>2. CASE ~connected
    <3>1. /\ UNCHANGED <<config, g_jobs, live>> /\ Due' = Due /\ Running
          /\ view' = [view EXCEPT ![k] = Lost]
      BY <1>8, <2>2 DEF SendFails, queue, source, Due, Publishing, Running, Final
    <3> QED
      BY <1>1, <3>1 DEF FreshInv, Fresh, TriggerNames
  <2> QED
    BY <2>1, <2>2
<1>9. CASE OpenSucceeds /\ pc = "reconnect"
  <2>1. PICK k \in Keys : Current(k) /\ FinishIteration(k)
    BY <1>9 DEF OpenSucceeds
  <2>2. Known(k) /\ view[k] = Lost
    BY <1>9, <2>1 DEF ReconnectInv, IInv, MemoryInv, LoopInv, Current, Doomed, Publishing,
                      Running, Final, TypeOK
  <2>3. view' = [view EXCEPT ![k] = Lost]
    BY <1>1, <1>9, <2>2 DEF OpenSucceeds
  <2> QED
    BY <1>9, <2>1, <2>2, <2>3, IterationKeepsMessages DEF OpenSucceeds, Publishing, source
<1>10. CASE EndDirty \/ EndDelete
  BY <1>10, OtherStepsKeepFresh
  DEF EndDirty, EndDelete, broker, source, Due, Publishing, Running, Final
<1>11. CASE \/ PollError \/ IncrementalLoad \/ LoadAborts \/ OpenFails \/ ConnectionLost
           \/ SendDone \/ Wake \/ Sigterm \/ Terminated \/ UNCHANGED vars
           \/ (OpenSucceeds /\ pc = "connect")
  <2>1. UNCHANGED <<config, queue, phase, todo, live, view>>
    BY <1>11 DEF PollError, IncrementalLoad, LoadAborts, OpenFails, OpenSucceeds,
      ConnectionLost, SendDone, Wake, Sigterm, Terminated, vars, source, broker
  <2>2. Running' => Running /\ (Publishing' <=> Publishing)
    BY <1>11 DEF PollError, IncrementalLoad, LoadAborts, OpenFails, OpenSucceeds,
      ConnectionLost, SendDone, Wake, Sigterm, Terminated, vars, Running, Final, Publishing
  <2> QED
    BY <2>1, <2>2, OtherStepsKeepFresh DEF Due, queue
<1>12. ASSUME NEW k \in Keys, SkipPublish(k) PROVE FALSE
  BY <1>12 DEF SkipPublish
<1> QED
  BY <1>2, <1>3, <1>4, <1>5, <1>6, <1>7, <1>8, <1>9, <1>10, <1>11, <1>12
  DEF Next, Poll, Publish, OpenSucceeds

\* With --dump no step leaves a message that is out of date in any attribute.
LEMMA DumpStep == IInv /\ ReconnectInv /\ DumpInv /\ [Next]_vars => DumpInv'
<1> SUFFICES ASSUME IInv, ReconnectInv, DumpInv, [Next]_vars, config.dump PROVE DumpInv'
  BY ConfigIsFixed DEF DumpInv
<1> USE KeysAreClustersAndJobs
<1>1. /\ QueueTypeOK /\ view \in [Keys -> Attrs \cup {Null, Lost}]
      /\ config' = config
  BY ConfigIsFixed DEF IInv, TypeOK
<1>2. CASE PollFails \/ EndLoad
  <2>1. /\ UNCHANGED <<live, view, g_jobs>> /\ Due' = g_dirty_jobs /\ pc' = "publish"
        /\ Jobs \cap live \subseteq g_dirty_jobs
    BY <1>2 DEF PollFails, EndLoad, StartPublishing, broker, source, queue, Due, Publishing, DumpInv
  <2> QED
    BY <1>1, <2>1 DEF DumpInv
<1>3. CASE BulkLoad \/ Leave
  BY <1>3 DEF BulkLoad, Leave, DumpInv, Publishing
<1>4. ASSUME NEW k \in Keys, LoadNew(k) PROVE DumpInv'
  <2>1. pc = "load" /\ pc' = "load" /\ live' = live \cup {k}
    BY <1>4 DEF LoadNew
  <2>2. g_dirty_jobs \subseteq g_dirty_jobs' /\ (k \in Jobs => k \in g_dirty_jobs')
    BY <1>1, <1>4, NewClassAdResult DEF LoadNew, NewClassAd, NewJobAd
  <2> QED
    BY <2>1, <2>2 DEF DumpInv, Publishing
<1>5. ASSUME NEW k \in Keys, LoadDestroy(k) PROVE DumpInv'
  BY <1>5 DEF LoadDestroy, DestroyClassAd, DumpInv, Publishing
<1>6. ASSUME NEW k \in Keys, NEW n \in Names,
             LoadDelete(k, n) \/ \E v \in Values : LoadSet(k, n, v)
      PROVE  DumpInv'
  <2>1. pc = "load" /\ pc' = "load" /\ live' = live /\ g_dirty_jobs \subseteq g_dirty_jobs'
    BY <1>6 DEF LoadDelete, LoadSet, DeleteAttribute, SetAttribute, source
  <2> QED
    BY <2>1 DEF DumpInv, Publishing
<1>7. ASSUME NEW k \in Keys, MessageSent(k) PROVE DumpInv'
  <2>1. \E m \in {Content(k), Lost} : view' = [view EXCEPT ![k] = m]
    <3>1. Known(k) /\ ParentInv
      BY <1>7 DEF MessageSent, IInv
    <3>2. Contents(k) = {Content(k)}
      BY <1>1, <3>1, PublishedIsContent
    <3> QED
      BY <1>7, <3>2 DEF MessageSent
  <2> QED
    BY <1>7, <2>1, IterationKeepsMessages DEF MessageSent, Publishing, source
<1>8. ASSUME NEW k \in Keys, SendFails(k) PROVE DumpInv'
  <2>1. CASE connected
    BY <1>8, <2>1, IterationKeepsMessages DEF SendFails, Publishing, source
  <2>2. CASE ~connected
    <3>1. /\ UNCHANGED <<config, g_jobs, live>> /\ Due' = Due /\ Publishing
          /\ view' = [view EXCEPT ![k] = Lost] /\ pc' = "reconnect" /\ config.address
      BY <1>8, <2>2 DEF SendFails, queue, source, Due, Publishing
    <3> QED
      BY <1>1, <3>1 DEF DumpInv, Content, ParentAttrs
  <2> QED
    BY <2>1, <2>2
<1>9. CASE OpenSucceeds /\ pc = "reconnect"
  <2>1. PICK k \in Keys : Current(k) /\ FinishIteration(k)
    BY <1>9 DEF OpenSucceeds
  <2>2. Known(k) /\ view[k] = Lost /\ config.address
    BY <1>9, <2>1 DEF ReconnectInv, IInv, MemoryInv, LoopInv, Current, Doomed, Publishing,
                      Running, Final, TypeOK
  <2>3. view' = [view EXCEPT ![k] = Lost]
    BY <1>1, <1>9, <2>2 DEF OpenSucceeds
  <2> QED
    BY <1>9, <2>1, <2>2, <2>3, IterationKeepsMessages DEF OpenSucceeds, Publishing, source
<1>10. CASE EndDirty \/ EndDelete
  <2>1. /\ UNCHANGED <<g_jobs, live, view>> /\ Due' = Due /\ Publishing
        /\ pc' \in {"publish", "dump"}
    BY <1>10 DEF EndDirty, EndDelete, broker, source, Due, Publishing
  <2> QED
    BY <1>1, <2>1 DEF DumpInv, Content, ParentAttrs
<1>11. CASE \/ PollError \/ IncrementalLoad \/ LoadAborts \/ OpenFails \/ ConnectionLost
           \/ SendDone \/ Wake \/ Sigterm \/ Terminated \/ UNCHANGED vars
           \/ (OpenSucceeds /\ pc = "connect")
  <2>1. UNCHANGED <<g_jobs, g_dirty_jobs, live, view>> /\ (Publishing' => Due' = Due)
    BY <1>11 DEF PollError, IncrementalLoad, LoadAborts, OpenFails, OpenSucceeds, queue,
      ConnectionLost, SendDone, Wake, Sigterm, Terminated, vars, source, broker, Due, Publishing
  <2>2. \/ pc' = pc
        \/ pc' \in {"exited", "aborted", "leave"}
        \/ pc = "connect" /\ pc' = "poll"
        \/ pc = "poll" /\ pc' = "load"
    BY <1>11 DEF PollError, IncrementalLoad, LoadAborts, OpenFails, OpenSucceeds,
      ConnectionLost, SendDone, Wake, Sigterm, Terminated, vars, DumpInv
  <2>3. pc = "dump" => Due' = Due \/ pc' # "dump"
    BY <1>11 DEF PollError, IncrementalLoad, LoadAborts, OpenFails, OpenSucceeds, queue,
      ConnectionLost, SendDone, Wake, Sigterm, Terminated, vars, source, broker, Due, Publishing
  <2> QED
    BY <1>1, <2>1, <2>2, <2>3 DEF DumpInv, Content, ParentAttrs, Publishing
<1>12. ASSUME NEW k \in Keys, SkipPublish(k) PROVE DumpInv'
  BY <1>1, <1>12 DEF SkipPublish, DumpInv, Publishing, source
<1> QED
  BY <1>2, <1>3, <1>4, <1>5, <1>6, <1>7, <1>8, <1>9, <1>10, <1>11, <1>12
  DEF Next, Poll, Publish, OpenSucceeds

\* The inductive invariant of what the messages say.
THEOREM MessagesConsistent == Spec => []MessageInv
<1>1. Init => MessageInv
  BY DEF Init, MessageInv, ReconnectInv, FreshInv, DumpInv, Publishing
<1>2. (pc = "dump" => config.dump) /\ [Next]_vars => (pc = "dump" => config.dump)'
  BY ConfigIsFixed
  DEF Next, vars, Poll, Publish, PollFails, PollError, BulkLoad, IncrementalLoad, EndLoad,
      LoadAborts, LoadNew, LoadDestroy, LoadDelete, LoadSet, MessageSent, SendFails, SkipPublish,
      EndDirty, EndDelete, OpenSucceeds, OpenFails, ConnectionLost, SendDone, Wake, Leave,
      Sigterm, Terminated, StartPublishing
<1>3. IInv /\ MessageInv /\ [Next]_vars => MessageInv'
  BY <1>2, ReconnectStep, FreshStep, DumpStep DEF MessageInv
<1> QED
  BY <1>1, <1>3, Consistent, PTL DEF Spec

\* Between polls every job that is alive in the log shows its own trigger attributes in
\* its last message, unless that message was lost.
THEOREM MessagesAreFresh == Spec => []OwnAttrsFresh
<1>1. IInv /\ MessageInv => OwnAttrsFresh
  BY DEF IInv, LoopInv, MessageInv, FreshInv, OwnAttrsFresh, Settled, Due, Publishing,
         Running, Final
<1> QED
  BY <1>1, Consistent, MessagesConsistent, PTL

\* With --dump the messages agree with the jobs on every attribute.
THEOREM SinkSeesTheDump == Spec => []SinkAgrees
<1>1. IInv /\ MessageInv => SinkAgrees
  <2> SUFFICES ASSUME IInv, MessageInv, pc = "dump", config.address,
                      NEW j \in Jobs \cap live
               PROVE  view[j] \in {Content(j), Lost}
    BY DEF SinkAgrees
  <2>1. Due = {}
    BY DEF Due, Publishing, IInv, LoopInv
  <2> QED
    BY <2>1 DEF MessageInv, DumpInv
<1> QED
  BY <1>1, Consistent, MessagesConsistent, PTL

-----------------------------------------------------------------------------
(***************************************************************************)
(* JobQueuePublisher implements JobFeed.                                   *)
(***************************************************************************)
\* The table of ads that the messages are about.
Table == [k \in Keys |-> IF Known(k) THEN g_jobs[k].attrs ELSE Null]

\* JobFeed speaks of the same keys and attributes.
LEMMA FeedData == Feed!Keys = Keys /\ Feed!NoAttrs = NoAttrs
BY DEF Feed!Keys, Keys, Feed!NoAttrs, NoAttrs

\* An ad is in the table when g_jobs holds it, and the message that JobFeed has for it
\* is what PublishJob sends.
LEMMA TableIsMemory ==
  ASSUME QueueTypeOK, ParentInv, NEW k \in Keys
  PROVE  /\ Feed!In(k) <=> Known(k)
         /\ Known(k) => Feed!Contents(k) = Content(k)
<1> USE KeysAreClustersAndJobs
<1>1. \A l \in Keys : Known(l) => g_jobs[l].attrs # Null
  BY JobIsNotNull DEF QueueTypeOK, Known, Job
<1>2. Feed!In(k) <=> Known(k)
  BY <1>1 DEF Feed!In
<1>3. ASSUME Known(k) PROVE Feed!Contents(k) = Content(k)
  <2>1. k \in Jobs => Known(ClusterOf[k]) /\ ClusterOf[k] \in Keys
    BY <1>3 DEF ParentInv
  <2>2. Content(k) = [n \in Names |->
              IF k \in Jobs /\ g_jobs[k].attrs[n] = Null
              THEN g_jobs[ClusterOf[k]].attrs[n] ELSE g_jobs[k].attrs[n]]
    BY <1>3, PublishedIsContent
  <2>3. Feed!Contents(k) = [n \in Names |->
              IF k \in Jobs /\ g_jobs[k].attrs[n] = Null
              THEN g_jobs[ClusterOf[k]].attrs[n] ELSE g_jobs[k].attrs[n]]
    BY <1>3, <2>1 DEF Feed!Contents
  <2> QED
    BY <2>2, <2>3
<1> QED
  BY <1>2, <1>3

\* Main starts with an empty table.
LEMMA InitIsFeedInit == Init => Feed!Init
BY FeedData DEF Init, QueueInit, Config, Feed!Init, Known

\* The end of an iteration with a message is an announcement, or an ad's last message.
LEMMA IterationIsFeedStep ==
  ASSUME IInv, Publishing, config.address, NEW k \in Keys, Current(k), Known(k),
         FinishIteration(k), UNCHANGED config,
         \E m \in {Content(k), Lost} : view' = [view EXCEPT ![k] = m]
  PROVE  Feed!Next
<1> USE KeysAreClustersAndJobs, FeedData
<1>1. QueueTypeOK /\ ParentInv
  BY DEF IInv, TypeOK
<1>2. Feed!Send(k) /\ Feed!In(k)
  BY <1>1, TableIsMemory DEF Feed!Send
<1>3. CASE phase # "delete"
  <2>1. g_jobs' = g_jobs
    BY <1>3 DEF FinishIteration
  <2> QED
    BY <1>2, <2>1 DEF Feed!Announce, Feed!Next, Known
<1>4. CASE phase = "delete"
  <2>1. \A j \in Jobs : Feed!In(j) => ClusterOf[j] # k
    BY <1>1, <1>4, NoChildLeft, TableIsMemory
  <2>2. Table' = [Table EXCEPT ![k] = Null]
    BY <1>1, <1>4 DEF FinishIteration, Table, Known, QueueTypeOK
  <2> QED
    BY <1>2, <2>1, <2>2 DEF Feed!Leave, Feed!Next, Table
<1> QED
  BY <1>3, <1>4

\* Every step of main is a step of JobFeed or leaves it as it is.
LEMMA StepIsFeedStep == IInv /\ ReconnectInv /\ [Next]_vars => [Feed!Next]_(Feed!feedVars)
<1> SUFFICES ASSUME IInv, ReconnectInv, [Next]_vars
             PROVE  Feed!Next \/ UNCHANGED <<Table, view, config>>
  BY DEF Feed!feedVars, Table
<1> USE KeysAreClustersAndJobs, FeedData
<1>1. /\ QueueTypeOK /\ ParentInv /\ view \in [Keys -> Attrs \cup {Null, Lost}]
      /\ config' = config
  BY ConfigIsFixed DEF IInv, TypeOK
<1>2. CASE BulkLoad \/ Leave
  <2>1. g_jobs' = [k \in Keys |-> Null] /\ view' = view
    BY <1>2 DEF BulkLoad, Leave, Reset, broker
  <2> QED
    BY <1>1, <2>1 DEF Feed!Drop, Feed!Next, Known
<1>3. ASSUME NEW k \in Keys, LoadNew(k) PROVE Feed!Next
  <2>1. view' = view /\ NewClassAd(k)
    BY <1>3 DEF LoadNew, broker
  <2> DEFINE new == {k} \cup {ClusterOf[j] : j \in Jobs \cap {k}}
  <2>2. ASSUME NEW l \in Keys
        PROVE  Table'[l] = IF l \in new /\ ~Feed!In(l) THEN NoAttrs ELSE Table[l]
    <3>1. l \in new <=> l = k \/ (k \in Jobs /\ l = ClusterOf[k])
      OBVIOUS
    <3>2. /\ Known(l) => Known(l)' /\ g_jobs'[l].attrs = g_jobs[l].attrs
          /\ ~Known(l) /\ l \in new => Known(l)' /\ g_jobs'[l].attrs = NoAttrs
          /\ ~Known(l) /\ l \notin new => ~Known(l)'
      BY <1>1, <2>1, <3>1, NewClassAdAttrs
    <3>3. Feed!In(l) <=> Known(l)
      BY <1>1, TableIsMemory
    <3> HIDE DEF new
    <3> QED
      BY <3>2, <3>3 DEF Table, Known
  <2>3. Feed!Enter(k)
    BY <2>1, <2>2 DEF Feed!Enter, Table
  <2> QED
    BY <1>1, <2>3 DEF Feed!Next
<1>4. ASSUME NEW k \in Keys, LoadDestroy(k) PROVE UNCHANGED <<Table, view, config>>
  BY <1>4 DEF LoadDestroy, DestroyClassAd, broker, Table, Known
<1>5. ASSUME NEW k \in Keys, NEW n \in Names,
             LoadDelete(k, n) \/ \E v \in Values : LoadSet(k, n, v)
      PROVE  Feed!Next
  <2>1. /\ Known(k) /\ view' = view
        /\ DeleteAttribute(k, n) \/ \E v \in Values : SetAttribute(k, n, v)
    BY <1>5 DEF LoadDelete, LoadSet, broker, IInv, MemoryInv, Running, Final
  <2>2. PICK v \in Values \cup {Null} : g_jobs' = [g_jobs EXCEPT ![k].attrs[n] = v]
    BY <1>1, <2>1, AttributeAttrs
  <2>3. g_jobs[k] \in Job
    BY <1>1, <2>1 DEF QueueTypeOK, Known
  <2>4. /\ g_jobs'[k].attrs = [g_jobs[k].attrs EXCEPT ![n] = v]
        /\ g_jobs'[k] \in Job
        /\ \A l \in Keys \ {k} : g_jobs'[l] = g_jobs[l]
    BY <1>1, <2>2, <2>3 DEF QueueTypeOK, Job, Attrs
  <2>5. Table' = [Table EXCEPT ![k][n] = v]
    BY <2>1, <2>3, <2>4, JobIsNotNull DEF Table, Known
  <2>6. Feed!In(k)
    BY <1>1, <2>1, TableIsMemory
  <2> QED
    BY <1>1, <2>1, <2>5, <2>6 DEF Feed!Change, Feed!Next, Table
<1>6. ASSUME NEW k \in Keys, MessageSent(k) PROVE Feed!Next
  <2>1. Contents(k) = {Content(k)}
    BY <1>1, <1>6, PublishedIsContent DEF MessageSent
  <2>2. \E m \in {Content(k), Lost} : view' = [view EXCEPT ![k] = m]
    BY <1>6, <2>1 DEF MessageSent
  <2> QED
    BY <1>6, <2>2, IterationIsFeedStep DEF MessageSent, Publishing
<1>7. ASSUME NEW k \in Keys, SendFails(k) PROVE Feed!Next
  <2>1. CASE connected
    BY <1>7, <2>1, IterationIsFeedStep DEF SendFails, Publishing
  <2>2. CASE ~connected
    <3>1. /\ g_jobs' = g_jobs /\ view' = [view EXCEPT ![k] = Lost]
          /\ config.address /\ Known(k)
      BY <1>7, <2>2 DEF SendFails, queue
    <3>2. Feed!Announce(k)
      BY <1>1, <3>1, TableIsMemory DEF Feed!Announce, Feed!Send, Known
    <3> QED
      BY <1>1, <3>2 DEF Feed!Next
  <2> QED
    BY <2>1, <2>2
<1>8. ASSUME NEW k \in Keys, SkipPublish(k) PROVE Feed!Next \/ UNCHANGED <<Table, view, config>>
  <2>1. /\ ~config.address /\ view' = view /\ pc = "publish"
        /\ Current(k) /\ FinishIteration(k)
    BY <1>8 DEF SkipPublish, broker
  <2>2. CASE phase # "delete"
    BY <1>1, <2>1, <2>2 DEF FinishIteration, Table, Known
  <2>3. CASE phase = "delete"
    <3>1. Known(k) /\ \A j \in Jobs : Known(j) => ClusterOf[j] # k
      BY <2>1, <2>3, NoChildLeft
      DEF Publishing, IInv, MemoryInv, Running, Final, Current, Doomed
    <3>2. Feed!In(k) /\ \A j \in Jobs : Feed!In(j) => ClusterOf[j] # k
      BY <1>1, <3>1, TableIsMemory
    <3>3. Table' = [Table EXCEPT ![k] = Null]
      BY <1>1, <2>1, <2>3 DEF FinishIteration, Table, Known, QueueTypeOK
    <3>4. Feed!Leave(k)
      BY <2>1, <3>2, <3>3 DEF Feed!Leave, Table
    <3> QED
      BY <1>1, <3>4 DEF Feed!Next
  <2> QED
    BY <2>2, <2>3
<1>9. CASE OpenSucceeds /\ pc = "reconnect"
  <2>1. PICK k \in Keys : Current(k) /\ FinishIteration(k)
    BY <1>9 DEF OpenSucceeds
  <2>2. Known(k) /\ view[k] = Lost /\ config.address
    BY <1>9, <2>1 DEF ReconnectInv, IInv, MemoryInv, LoopInv, Current, Doomed, Publishing,
                      Running, Final, TypeOK
  <2>3. view' = [view EXCEPT ![k] = Lost]
    BY <1>1, <1>9, <2>2 DEF OpenSucceeds
  <2> QED
    BY <1>1, <1>9, <2>1, <2>2, <2>3, IterationIsFeedStep DEF Publishing
<1>10. CASE \/ PollFails \/ PollError \/ IncrementalLoad \/ EndLoad \/ LoadAborts \/ EndDirty
            \/ EndDelete \/ OpenFails \/ ConnectionLost \/ SendDone \/ Wake \/ Sigterm
            \/ Terminated \/ UNCHANGED vars \/ (OpenSucceeds /\ pc = "connect")
  <2>1. g_jobs' = g_jobs /\ view' = view
    BY <1>10 DEF PollFails, PollError, IncrementalLoad, EndLoad, LoadAborts, EndDirty, EndDelete,
      OpenFails, ConnectionLost, SendDone, Wake, Sigterm, Terminated, OpenSucceeds, vars, queue,
      broker
  <2> QED
    BY <1>1, <2>1 DEF Table, Known
<1> QED
  BY <1>2, <1>3, <1>4, <1>5, <1>6, <1>7, <1>8, <1>9, <1>10
  DEF Next, Poll, Publish, OpenSucceeds

\* The publisher is a JobFeed for its receivers.
THEOREM PublisherIsJobFeed == Spec => ImplementsJobFeed
<1>1. IInv /\ MessageInv => ReconnectInv
  BY DEF MessageInv
<1> QED
  BY <1>1, InitIsFeedInit, StepIsFeedStep, Consistent, MessagesConsistent, PTL
  DEF Spec, ImplementsJobFeed, Feed!Spec
=============================================================================
