-------------------------- MODULE JobQueuePublisher --------------------------
(***************************************************************************)
(* The daemon's main loop: connect to the broker, then poll the log,       *)
(* publish the dirty jobs, publish and erase the destroyed ones, sleep,    *)
(* and again.  The log reader is abstract here: a poll delivers any calls  *)
(* that a log kept by a schedd can produce.  ClassAdLogReader says how the *)
(* calls come about.                                                       *)
(***************************************************************************)
EXTENDS JobQueue, Naturals

CONSTANTS
  KeyRank,   \* the order of std::set<std::string>, as numbers
  Lost       \* in place of a message that may never have reached the broker

(***************************************************************************)
(* The key of a cluster ad begins with '0' and that of a job ad with a     *)
(* digit that is not, so every cluster key sorts before every job key.     *)
(***************************************************************************)
ASSUME RankAssumption ==
  /\ KeyRank \in [Keys -> Nat]
  /\ \A k, l \in Keys : KeyRank[k] = KeyRank[l] => k = l
  /\ \A c \in Clusters, j \in Jobs : KeyRank[c] < KeyRank[j]

ASSUME LostAssumption == Lost \notin Attrs \cup {Null}

MaxTries == 5

VARIABLES
  pc,         \* where main is
  phase,      \* which of the two publishing loops it is in
  todo,       \* the keys that loop has not finished with
  numTries,   \* attempts of the connection loop it is in
  connected,  \* connection.isOpen()
  shutdownRequest,
  sigterm,    \* has SIGTERM been received?
  live,       \* ads of the log read since the last Reset, not destroyed in it
  dead,       \* ads destroyed in the log read since the last Reset
  view        \* the last message under each subject, Null if there is none

broker == <<numTries, connected, view>>
signals == <<shutdownRequest, sigterm>>
source == <<live, dead>>
vars == <<config, queue, pc, phase, todo, broker, signals, source>>

Final == {"exited", "aborted", "stopped"}
Running == pc \notin Final

TypeOK ==
  /\ QueueTypeOK
  /\ pc \in {"connect", "poll", "load", "publish", "reconnect", "dump", "sleep",
             "leave"} \cup Final
  /\ phase \in {"dirty", "delete"}
  /\ todo \in SUBSET Keys
  /\ numTries \in 0..MaxTries
  /\ connected \in BOOLEAN
  /\ shutdownRequest \in BOOLEAN
  /\ sigterm \in BOOLEAN
  /\ live \in SUBSET Keys
  /\ dead \in SUBSET Keys
  /\ view \in [Keys -> Attrs \cup {Null, Lost}]

Init ==
  /\ QueueInit
  /\ pc = IF config.address THEN "connect" ELSE "poll"
  /\ phase = "dirty"
  /\ todo = {}
  /\ numTries = 0
  /\ connected = FALSE
  /\ shutdownRequest = FALSE
  /\ sigterm = FALSE
  /\ live = {}
  /\ dead = {}
  /\ view = [k \in Keys |-> Null]

-----------------------------------------------------------------------------
(***************************************************************************)
(* Poll.  The calls it makes respect what job_queue.log.sh says of a log:  *)
(* a key is created once, only what exists is changed or destroyed, and a  *)
(* cluster goes after all of its jobs; a job may come before its cluster.  *)
(* A transaction that is wiped out unnoticed by the reader is left out.    *)
(***************************************************************************)
Creatable(k) ==
  /\ k \notin live \cup dead
  /\ k \in Jobs => ClusterOf[k] \notin dead

Destroyable(k) ==
  /\ k \in live
  /\ k \in Clusters => \A j \in live \cap Jobs : ClusterOf[j] # k

StartPublishing ==
  /\ pc' = "publish"
  /\ phase' = "dirty"
  /\ todo' = g_dirty_jobs

\* POLL_FAIL: the log could not be opened.
PollFails ==
  /\ pc = "poll"
  /\ StartPublishing
  /\ UNCHANGED <<config, queue, broker, signals, source>>

\* POLL_ERROR: main exits.
PollError ==
  /\ pc = "poll"
  /\ pc' = "exited"
  /\ UNCHANGED <<config, queue, phase, todo, broker, signals, source>>

\* The reader starts over: what it knew of the log no longer counts.
BulkLoad ==
  /\ pc = "poll"
  /\ pc' = "load"
  /\ Reset
  /\ live' = {}
  /\ dead' = {}
  /\ UNCHANGED <<config, phase, todo, broker, signals>>

IncrementalLoad ==
  /\ pc = "poll"
  /\ pc' = "load"
  /\ UNCHANGED <<config, queue, phase, todo, broker, signals, source>>

LoadNew(k) ==
  /\ pc = "load"
  /\ Creatable(k)
  /\ NewClassAd(k)
  /\ live' = live \cup {k}
  /\ UNCHANGED <<config, pc, phase, todo, broker, signals, dead>>

LoadDestroy(k) ==
  /\ pc = "load"
  /\ Destroyable(k)
  /\ DestroyClassAd(k)
  /\ live' = live \ {k}
  /\ dead' = dead \cup {k}
  /\ UNCHANGED <<config, pc, phase, todo, broker, signals>>

LoadSet(k, n, v) ==
  /\ pc = "load"
  /\ k \in live
  /\ SetAttribute(k, n, v)
  /\ UNCHANGED <<config, pc, phase, todo, broker, signals, source>>

LoadDelete(k, n) ==
  /\ pc = "load"
  /\ k \in live
  /\ DeleteAttribute(k, n)
  /\ UNCHANGED <<config, pc, phase, todo, broker, signals, source>>

\* The end of the file, or an entry that ends the load: Poll returns
\* POLL_SUCCESS in both cases.
EndLoad ==
  /\ pc = "load"
  /\ StartPublishing
  /\ UNCHANGED <<config, queue, broker, signals, source>>

\* The assertion in IncrementalLoad fails on a bad record in a transaction, or the
\* poll uses or closes a stream that its probe has closed.
LoadAborts ==
  /\ pc \in {"poll", "load"}
  /\ pc' = "aborted"
  /\ UNCHANGED <<config, queue, phase, todo, broker, signals, source>>

-----------------------------------------------------------------------------
(***************************************************************************)
(* The two publishing loops: the dirty keys in order, then the deleted     *)
(* keys in reverse order, each of those erased once its turn is over.      *)
(***************************************************************************)
\* A mutated form of Current: the second loop goes forward as well.
CurrentForward(k) == k \in todo /\ \A l \in todo : KeyRank[k] <= KeyRank[l]

Current(k) ==
  /\ k \in todo
  /\ \A l \in todo : IF phase = "dirty" THEN KeyRank[k] <= KeyRank[l]
                                        ELSE KeyRank[l] <= KeyRank[k]

\* A mutated form of FinishIteration: nothing is erased.
FinishIterationKeeps(k) == todo' = todo \ {k} /\ UNCHANGED queue

FinishIteration(k) ==
  /\ todo' = todo \ {k}
  /\ g_jobs' = IF phase = "delete" THEN [g_jobs EXCEPT ![k] = Null] ELSE g_jobs
  /\ UNCHANGED <<g_dirty_jobs, g_delete_jobs>>

\* A parent that has been erased is a pointer to freed memory: the attributes
\* read through it can be any.
Contents(k) ==
  IF g_jobs[k].parent # Null /\ ~Known(g_jobs[k].parent) THEN Attrs ELSE {Content(k)}

\* PublishJob asserts that the job is in g_jobs: the guard Known(k) here and in
\* SendFails.  AssertHolds below says that the assertion never fails.

\* send returned.  Nothing waits for the broker's receipt before the process
\* leaves, so the message may still be lost with the connection.
MessageSent(k) ==
  /\ pc = "publish"
  /\ config.address
  /\ connected
  /\ Current(k)
  /\ Known(k)
  /\ \E content \in Contents(k) \cup {Lost} : view' = [view EXCEPT ![k] = content]
  /\ FinishIteration(k)
  /\ UNCHANGED <<config, pc, phase, numTries, connected, signals, source>>

\* send threw.  The message is not sent again; only a connection found closed
\* is opened again before the loop goes on.
SendFails(k) ==
  /\ pc = "publish"
  /\ config.address
  /\ Current(k)
  /\ Known(k)
  /\ view' = [view EXCEPT ![k] = Lost]
  /\ \/ connected /\ UNCHANGED pc /\ FinishIteration(k)
     \/ ~connected /\ pc' = "reconnect" /\ UNCHANGED <<queue, todo>>
  /\ UNCHANGED <<config, phase, numTries, connected, signals, source>>

\* Without an address nothing is published, and deleted jobs are erased.
SkipPublish(k) ==
  /\ pc = "publish"
  /\ ~config.address
  /\ Current(k)
  /\ FinishIteration(k)
  /\ UNCHANGED <<config, pc, phase, broker, signals, source>>

\* A mutated form of EndDirty: the set is not cleared.
EndDirtyKeeps ==
  /\ pc = "publish"
  /\ phase = "dirty"
  /\ todo = {}
  /\ phase' = "delete"
  /\ todo' = g_delete_jobs
  /\ UNCHANGED <<config, queue, pc, broker, signals, source>>

EndDirty ==
  /\ pc = "publish"
  /\ phase = "dirty"
  /\ todo = {}
  /\ g_dirty_jobs' = {}
  /\ phase' = "delete"
  /\ todo' = g_delete_jobs
  /\ UNCHANGED <<config, g_jobs, g_delete_jobs, pc, broker, signals, source>>

EndDelete ==
  /\ pc = "publish"
  /\ phase = "delete"
  /\ todo = {}
  /\ g_delete_jobs' = {}
  /\ pc' = IF config.dump THEN "dump" ELSE "sleep"
  /\ UNCHANGED <<config, g_jobs, g_dirty_jobs, phase, todo, broker, signals, source>>

-----------------------------------------------------------------------------
\* A mutated form of OpenSucceeds: the message that failed is tried again.
OpenSucceedsRetries ==
  /\ pc \in {"connect", "reconnect"}
  /\ connected' = TRUE
  /\ numTries' = 0
  /\ pc' = IF pc = "connect" THEN "poll" ELSE "publish"
  /\ UNCHANGED <<config, queue, phase, todo, view, signals, source>>

(***************************************************************************)
(* The connection loop, at the start and after a failed send: at most      *)
(* MaxTries attempts, then exit(1).  After a reconnection the iteration    *)
(* that failed ends as it does after a send.                               *)
(***************************************************************************)
OpenSucceeds ==
  /\ pc \in {"connect", "reconnect"}
  /\ connected' = TRUE
  /\ numTries' = 0
  /\ \/ pc = "connect" /\ pc' = "poll" /\ UNCHANGED <<queue, todo>>
     \/ pc = "reconnect" /\ pc' = "publish" /\ \E k \in Keys : Current(k) /\ FinishIteration(k)
  /\ UNCHANGED <<config, phase, view, signals, source>>

\* open, createSession or createSender threw: the connection may be open or not.
OpenFails ==
  /\ pc \in {"connect", "reconnect"}
  /\ numTries' = numTries + 1
  /\ connected' \in BOOLEAN
  /\ pc' = IF numTries + 1 = MaxTries THEN "exited" ELSE pc
  /\ UNCHANGED <<config, queue, phase, todo, view, signals, source>>

ConnectionLost ==
  /\ Running
  /\ connected
  /\ connected' = FALSE
  /\ UNCHANGED <<config, queue, pc, phase, todo, numTries, view, signals, source>>

-----------------------------------------------------------------------------
\* --dump: Dump, then the DONE message, whose send is in no try block.
SendDone ==
  /\ pc = "dump"
  /\ \/ /\ config.address => connected
        /\ pc' = "leave"
     \/ /\ config.address
        /\ pc' = "aborted"
  /\ UNCHANGED <<config, queue, phase, todo, broker, signals, source>>

\* sleep, sendKeepAlive, and the test of the while loop.
Wake ==
  /\ pc = "sleep"
  /\ pc' = IF shutdownRequest THEN "leave" ELSE "poll"
  /\ UNCHANGED <<config, queue, phase, todo, broker, signals, source>>

\* After the loop: sync and close may throw, as they do on a connection that is
\* gone, which ends the process as well.
Leave ==
  /\ pc = "leave"
  /\ Reset
  /\ \/ /\ config.address => connected
        /\ pc' = "stopped"
        /\ connected' = FALSE
     \/ config.address /\ pc' = "aborted" /\ UNCHANGED connected
  /\ UNCHANGED <<config, phase, todo, numTries, view, signals, source>>

\* sigterm_handler, at any point of main; one signal is enough.
Sigterm ==
  /\ Running
  /\ ~sigterm
  /\ sigterm' = TRUE
  /\ shutdownRequest' = FALSE
  /\ UNCHANGED <<config, queue, pc, phase, todo, broker, source>>

\* The process is gone.
Terminated == ~Running /\ UNCHANGED vars

Poll ==
  \/ PollFails
  \/ PollError
  \/ BulkLoad
  \/ IncrementalLoad
  \/ EndLoad
  \/ LoadAborts
  \/ \E k \in Keys :
       \/ LoadNew(k)
       \/ LoadDestroy(k)
       \/ \E n \in Names : LoadDelete(k, n) \/ \E v \in Values : LoadSet(k, n, v)

Publish ==
  \/ EndDirty
  \/ EndDelete
  \/ \E k \in Keys : MessageSent(k) \/ SendFails(k) \/ SkipPublish(k)

Next ==
  \/ Poll
  \/ Publish
  \/ OpenSucceeds
  \/ OpenFails
  \/ ConnectionLost
  \/ SendDone
  \/ Wake
  \/ Leave
  \/ Sigterm
  \/ Terminated

Spec == Init /\ [][Next]_vars

(***************************************************************************)
(* The process runs: main never waits for anything but a sleep or a broker *)
(* call that returns or throws.  A load ends because the reader is faster  *)
(* than the schedd.  Nothing is assumed of the broker.                     *)
(***************************************************************************)
Fairness ==
  /\ WF_vars(pc # "load" /\ (Poll \/ Publish \/ OpenSucceeds \/ OpenFails \/ SendDone \/ Wake \/ Leave))
  /\ WF_vars(EndLoad)

FairSpec == Spec /\ Fairness

-----------------------------------------------------------------------------
(***************************************************************************)
(* Safety.                                                                 *)
(***************************************************************************)

\* The assertion in PublishJob (job_queue_publisher_main.cpp:420): a key whose
\* turn has come in either publishing loop is a key of g_jobs.
AssertHolds ==
  pc \in {"publish", "reconnect"} => \A k \in todo : Known(k)

\* What the reverse order of the second loop is for ("a hack to delete child
\* jobs before parent jobs", main.cpp:302-304): the parent of a job in g_jobs is
\* in g_jobs, so that no job's m_parent ever points to an erased element.
ParentAlive ==
  \A k \in Keys : Known(k) /\ g_jobs[k].parent # Null => Known(g_jobs[k].parent)

Settled == pc \in {"sleep", "dump"}

\* Between polls the memory holds the ads that the log read so far holds, and
\* beyond them only parents made for jobs that came before their cluster's ad
\* (the count that test_job_queue_publisher.sh:37 compares).
QueueMatchesLog ==
  Settled =>
    /\ \A k \in live : Known(k)
    /\ \A j \in Jobs : Known(j) => j \in live
    /\ \A c \in Clusters : Known(c) =>
         \/ c \in live
         \/ c \notin dead /\ \E j \in Jobs \cap (live \cup dead) : ClusterOf[j] = c

\* The attributes whose assignment makes a job dirty.
TriggerNames == IF config.triggers = {} THEN Names ELSE config.triggers

\* A job that holds a trigger attribute of its own shows it in its last message,
\* unless that message was lost.
Fresh(j) ==
  view[j] # Lost =>
    /\ view[j] # Null
    /\ \A n \in TriggerNames : g_jobs[j].attrs[n] # Null => view[j][n] = g_jobs[j].attrs[n]

\* Between polls the last message about a job agrees with the job on every
\* trigger attribute that the job itself holds, unless that message was lost.
\* Nothing of the kind holds of the attributes a job inherits: a change of the
\* cluster ad makes no job dirty.
OwnAttrsFresh ==
  Settled /\ config.address => \A j \in Jobs \cap live : Fresh(j)

\* With --dump, where one poll reads the whole log before anything is published,
\* the messages agree with the jobs on inherited attributes too, and whatever the
\* triggers are: "sink agrees with job_queue_publisher" (test script, line 75).
SinkAgrees ==
  pc = "dump" /\ config.address =>
    \A j \in Jobs \cap live : view[j] \in {Content(j), Lost}

\* Every dirty and every destroyed job has its turn: broker failures can delay
\* the two loops by five attempts per key at most, or end the process.
DirtyDrains ==
  \A k \in Keys :
    /\ k \in g_dirty_jobs ~> k \notin g_dirty_jobs \/ ~Running
    /\ k \in g_delete_jobs ~> k \notin g_delete_jobs \/ ~Running

\* "Shutting down." (the log line of sigterm_handler, main.cpp:108): SIGTERM ends
\* the process.
SigtermStops == sigterm ~> ~Running

\* What the receivers see is a JobFeed: however polls, failing sends, reconnections
\* and erasures follow each other, a message holds the attributes of an ad that is in
\* memory over those of its cluster, and no ad is erased without such a last message,
\* unless that is lost, or before its jobs; only Reset drops ads without a message.
Feed == INSTANCE JobFeed WITH
  ads <- [k \in Keys |-> IF Known(k) THEN g_jobs[k].attrs ELSE Null],
  feed <- view,
  talks <- config.address

ImplementsJobFeed == Feed!Spec

-----------------------------------------------------------------------------
(***************************************************************************)
(* Why the invariants hold: an inductive invariant.                        *)
(***************************************************************************)
Publishing == pc \in {"publish", "reconnect"}

\* The destroyed keys whose element is still in g_jobs.
Doomed == IF Publishing /\ phase = "delete" THEN todo ELSE g_delete_jobs

\* The attempt that is one too many ends the process.
TriesInv == Running => numTries < MaxTries

\* What is known of the log: no cluster is destroyed before its jobs.
LogInv ==
  /\ live \cap dead = {}
  /\ \A j \in Jobs \cap live : ClusterOf[j] \notin dead

ParentInv ==
  /\ \A j \in Jobs : Known(j) => g_jobs[j].parent = ClusterOf[j] /\ Known(ClusterOf[j])
  /\ \A c \in Clusters : Known(c) => g_jobs[c].parent = Null

\* Each loop's keys come from its set, and a set is empty outside the part of the
\* main loop that fills and empties it.
LoopInv ==
  /\ g_delete_jobs \subseteq dead
  /\ Publishing /\ phase = "dirty" => todo \subseteq g_dirty_jobs
  /\ Publishing /\ phase = "delete" => todo \subseteq g_delete_jobs /\ g_dirty_jobs = {}
  /\ pc \in {"connect", "poll", "dump", "sleep", "leave"} => g_dirty_jobs = {} /\ g_delete_jobs = {}

\* What is in g_jobs, while the process runs.
MemoryInv ==
  /\ \A k \in live \cup Doomed \cup g_dirty_jobs : Known(k)
  /\ \A j \in Jobs : Known(j) => j \in live \cup Doomed
  /\ \A c \in Clusters : Known(c) =>
       \/ c \in live \cup Doomed
       \/ c \notin dead /\ \E j \in Jobs \cap (live \cup dead) : ClusterOf[j] = c

\* The inductive invariant of the three properties above: together its parts say
\* that the two publishing loops only ever meet, and only ever erase, elements that
\* are there and that nothing else points to.
IInv ==
  /\ TypeOK
  /\ TriesInv
  /\ LogInv
  /\ ParentInv
  /\ LoopInv
  /\ Running => MemoryInv

\* The jobs whose message of this round is still to come.
Due == IF Publishing /\ phase = "dirty" THEN todo ELSE g_dirty_jobs

\* While the connection is tried again the message that failed counts as lost.
ReconnectInv ==
  pc = "reconnect" => config.address /\ \A k \in Keys : Current(k) => view[k] = Lost

\* A job whose last message is out of date is still to be published.
FreshInv ==
  Running /\ config.address => \A j \in (Jobs \cap live) \ Due : Fresh(j)

\* With --dump there is one poll, and every job it meets is new.
DumpInv ==
  config.dump =>
    /\ pc # "sleep"
    /\ pc \in {"connect", "poll"} => live = {}
    /\ pc = "load" => Jobs \cap live \subseteq g_dirty_jobs
    /\ (Publishing \/ pc = "dump") /\ config.address =>
         \A j \in (Jobs \cap live) \ Due : view[j] \in {Content(j), Lost}

\* What has to be added to IInv for what the messages say.
MessageInv ==
  /\ ReconnectInv
  /\ FreshInv
  /\ DumpInv
  /\ pc = "dump" => config.dump
=============================================================================
