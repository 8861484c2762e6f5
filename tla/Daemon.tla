------------------------------- MODULE Daemon -------------------------------
(***************************************************************************)
(* The whole daemon: the main loop of JobQueuePublisher with, in place of  *)
(* its arbitrary polls, those that ClassAdLogReader makes of a log that a  *)
(* schedd keeps writing, while main publishes as well.                     *)
(***************************************************************************)
EXTENDS ClassAdLogReader

CONSTANTS
  KeyRank,
  Lost,
  Address    \* is there an --address?

VARIABLES pc, phase, todo, numTries, connected, shutdownRequest, sigterm, live, dead, view

Main == INSTANCE JobQueuePublisher

loop == <<phase, todo>>
log_facts == <<live, dead>>
outside == <<numTries, connected, view, shutdownRequest, sigterm>>
daemon == <<vars, pc, loop, log_facts, outside>>

DaemonInit ==
  /\ Main!Init
  /\ config = [ReaderConfig EXCEPT !.address = Address]
  /\ ReaderInit

-----------------------------------------------------------------------------
(***************************************************************************)
(* The poll: the steps of the reader, and what main sees of each.          *)
(***************************************************************************)
\* The probe has decided, or Poll has ended the process.
After(decided) ==
  pc' = CASE rpc' = "exited" -> "exited"
          [] rpc' = "aborted" -> "aborted"
          [] OTHER -> decided

Probe ==
  /\ \/ BulkLoad /\ live' = {} /\ dead' = {}
     \/ (StartIncrementalLoad \/ NoChange \/ ProbeFatal) /\ UNCHANGED log_facts
  /\ After("load")

\* What the entries read so far say of the log.
Load ==
  /\ LoadEntry
  /\ LET entry == parser'.cur
     IN /\ live' = CASE entry.op = "NewClassAd" -> live \cup {entry.key}
                     [] entry.op = "DestroyClassAd" -> live \ {entry.key}
                     [] OTHER -> live
        /\ dead' = IF entry.op = "DestroyClassAd" THEN dead \cup {entry.key} ELSE dead
  /\ UNCHANGED pc

PollStep ==
  /\ pc \in {"poll", "load"}
  /\ \/ Probe /\ UNCHANGED loop
     \/ Load /\ UNCHANGED loop
     \/ OpenFile /\ UNCHANGED <<pc, loop, log_facts>>
     \/ (EndLoad \/ LoadDangling) /\ After(pc) /\ UNCHANGED <<loop, log_facts>>
     \/ (PollReturns \/ PollFails) /\ UNCHANGED <<queue, log_facts>> /\ Main!StartPublishing
  /\ UNCHANGED outside

-----------------------------------------------------------------------------
(***************************************************************************)
(* The rest of the main loop, and the schedd.  Signals are left out: their *)
(* handlers change nothing that the loop reads.                            *)
(***************************************************************************)
MainStep ==
  /\ \/ Main!Publish
     \/ Main!OpenSucceeds
     \/ Main!OpenFails
     \/ Main!ConnectionLost
     \/ Main!Wake
  /\ UNCHANGED <<writer, reader>>

DaemonNext ==
  \/ PollStep
  \/ MainStep
  \/ Main!Running /\ WriterStep /\ UNCHANGED <<config, queue, reader, pc, loop, log_facts, outside>>
  \/ Main!Terminated /\ UNCHANGED <<writer, reader>>

DaemonSpec == DaemonInit /\ [][DaemonNext]_daemon

-----------------------------------------------------------------------------
\* The polls that the reader makes are among those that JobQueuePublisher allows, so
\* that what is proved of that module is true of the daemon: a load delivers an ad
\* once, changes and destroys only what it has delivered, starts over only with an
\* empty memory, and destroys a cluster after its jobs, through compressions, torn
\* records and failed loads.
PollsAsAssumed == Main!Spec

\* "assert(g_jobs.end() != job)" (job_queue_publisher_main.cpp:420), with the reader's
\* own polls.
AssertHolds == Main!AssertHolds

-----------------------------------------------------------------------------
(***************************************************************************)
(* Why the polls are as assumed: what an inductive invariant has to say of *)
(* the daemon beyond the reader's own invariant.                           *)
(***************************************************************************)
\* Main is where Poll is.
PlaceInv ==
  /\ rpc = "probe" => pc = "poll"
  /\ rpc \in {"load", "loaded", "failed"} <=> pc = "load"
  /\ rpc = "exited" => pc = "exited"
  /\ rpc = "aborted" => pc = "aborted"

\* What main is told of the log is what the records read of it say.
KnownInv ==
  source = 0 \/ There(source) =>
    /\ live = {k \in Keys : Alive(k, ReadSoFar)}
    /\ dead = {k \in Keys : Destroyed(k, ReadSoFar)}

\* What is destroyed is erased in the second publishing loop, key by key, and all of it
\* before the next poll.
ErasedByMain ==
  /\ todo \subseteq Keys
  /\ Main!Publishing /\ phase = "delete" =>
       todo \subseteq g_delete_jobs /\ \A k \in g_delete_jobs \ todo : ~Known(k)
  /\ ~Main!Publishing /\ Main!Running /\ pc # "load" => g_delete_jobs = {}

\* What main is to publish or to erase is in memory until its turn has come, and so is
\* every ad of the log, which may be destroyed yet.
QueuedInv ==
  /\ phase \in {"dirty", "delete"}
  /\ Main!LoopInv
  /\ live \subseteq Keys \ dead
  /\ Main!Running => \A k \in live \cup Main!Doomed \cup g_dirty_jobs : Known(k)

\* The inductive invariant: ErasedInv, which is about a main that does all at once, has
\* no place in it.
DaemonInv ==
  /\ TypeOK
  /\ WriterInv
  /\ PollInv
  /\ SourceInv
  /\ PrefixInv
  /\ MemoryInv
  /\ SizeInv
  /\ CoverInv
  /\ PlaceInv
  /\ KnownInv
  /\ ErasedByMain
  /\ QueuedInv
=============================================================================
