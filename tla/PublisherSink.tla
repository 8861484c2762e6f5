---------------------------- MODULE PublisherSink ----------------------------
(***************************************************************************)
(* The publisher with --dump and its test receiver, sink: what main sends  *)
(* reaches a queue at the broker, from which sink fetches until it meets   *)
(* the DONE message.  This is what test_job_queue_publisher.sh compares:   *)
(* the lines of Dump with the lines of sink.                               *)
(***************************************************************************)
EXTENDS JobQueuePublisher, Sequences, SequencesExt

CONSTANT Done   \* the message with the subject DONE

Messages == [subject : Keys, content : Attrs]

ASSUME DoneAssumption == Done \notin Messages

VARIABLES
  wire,      \* the messages in the queue, kept for a run with --dump only
  dumped,    \* what Dump wrote about each key, Null for a key it did not list
  printed,   \* the messages sink has printed, in order
  sink       \* "fetch" or "closed"

channel == <<wire, dumped, printed, sink>>
sinkVars == <<vars, channel>>

SinkInit ==
  /\ Init
  /\ wire = <<>>
  /\ dumped = [k \in Keys |-> Null]
  /\ printed = <<>>
  /\ sink = "fetch"

Message(k, content) == [subject |-> k, content |-> content]

-----------------------------------------------------------------------------
(***************************************************************************)
(* The publisher's side.  Whether a message that was sent arrives or is    *)
(* lost with its connection is decided when it is sent.                    *)
(***************************************************************************)
Send(k) ==
  /\ MessageSent(k)
  /\ wire' = IF config.dump /\ view'[k] # Lost THEN Append(wire, Message(k, view'[k])) ELSE wire
  /\ UNCHANGED <<dumped, printed, sink>>

\* A mutated form of DumpAndSendDone: Dump leaves the parent's attributes out.
DumpOwn ==
  /\ SendDone
  /\ dumped' = [k \in Keys |-> IF Known(k) THEN g_jobs[k].attrs ELSE Null]
  /\ wire' \in {wire} \cup (IF config.address /\ pc' = "leave" THEN {Append(wire, Done)} ELSE {})
  /\ UNCHANGED <<printed, sink>>

DumpAndSendDone ==
  /\ SendDone
  /\ dumped' = [k \in Keys |-> IF Known(k) THEN Content(k) ELSE Null]
  /\ wire' \in {wire} \cup (IF config.address /\ pc' = "leave" THEN {Append(wire, Done)} ELSE {})
  /\ UNCHANGED <<printed, sink>>

Arrived(message) == message \in ToSet(wire) \/ sink = "closed"

\* A mutated form of LeaveInSync: nothing waits for the broker.
LeaveAtOnce == Leave /\ UNCHANGED channel

\* sync returns once the broker has what was sent, and throws when it cannot.
LeaveInSync ==
  /\ Leave
  /\ pc' = "stopped" /\ config.address => Arrived(Done)
  /\ UNCHANGED channel

OtherStep ==
  /\ \/ Poll
     \/ EndDirty
     \/ EndDelete
     \/ \E k \in Keys : SendFails(k) \/ SkipPublish(k)
     \/ OpenSucceeds
     \/ OpenFails
     \/ ConnectionLost
     \/ Wake
     \/ Sigterm
     \/ Terminated
  /\ UNCHANGED channel

-----------------------------------------------------------------------------
\* One round of the loop of sink: DONE ends it.  Acknowledgements are left out: no
\* message is fetched a second time by a sink that does not stop before DONE.
Fetch ==
  /\ sink = "fetch"
  /\ wire # <<>>
  /\ wire' = Tail(wire)
  /\ IF Head(wire) = Done
     THEN sink' = "closed" /\ UNCHANGED printed
     ELSE printed' = Append(printed, Head(wire)) /\ UNCHANGED sink
  /\ UNCHANGED <<vars, dumped>>

SinkNext ==
  \/ \E k \in Keys : Send(k)
  \/ DumpAndSendDone
  \/ LeaveInSync
  \/ OtherStep
  \/ Fetch

(***************************************************************************)
(* Main runs as in JobQueuePublisher, and sink fetches what there is.      *)
(***************************************************************************)
SinkSpec ==
  /\ SinkInit
  /\ [][SinkNext]_sinkVars
  /\ Fairness
  /\ WF_sinkVars(Fetch)

-----------------------------------------------------------------------------
\* What a sequence of messages says about a job: nothing, if its only message is missing
\* or lost, and otherwise that message, once.
Says(messages, j, content) ==
  LET about == {i \in 1..Len(messages) : messages[i] # Done /\ messages[i].subject = j}
  IN IF content \in {Null, Lost} THEN about = {}
     ELSE \E i \in about : about = {i} /\ messages[i].content = content

\* "sink agrees with job_queue_publisher" (test_job_queue_publisher.sh:63-75): once
\* sink has met DONE it has printed exactly one message about each job that Dump
\* listed, with what Dump wrote, unless that message was lost, and nothing about any
\* other job but those destroyed in the log, which the test takes out.
SinkAgreesWithDump ==
  sink = "closed" =>
    \A j \in Jobs \ dead : Says(printed, j, IF view[j] = Lost THEN Lost ELSE dumped[j])

\* A publisher that ends well releases sink, however the sends before went (the test
\* waits for both).  One that ends otherwise leaves sink waiting for DONE.
SinkReleased == pc = "stopped" /\ config.address ~> sink = "closed"

-----------------------------------------------------------------------------
(***************************************************************************)
(* Why sink agrees: what has to be added to IInv and MessageInv.           *)
(***************************************************************************)
\* What has been sent and not lost, in order; DONE is the last of it.
sent == printed \o wire

DoneSent == sink = "closed" \/ Done \in ToSet(wire)

WireInv ==
  /\ printed \in Seq(Messages)
  /\ wire \in Seq(Messages \cup {Done})
  /\ \A i \in 1..Len(wire) : wire[i] = Done => i = Len(wire)
  /\ sink \in {"fetch", "closed"}
  /\ sink = "closed" => wire = <<>>

\* With --dump there are no messages before the one poll has ended, and each key that is
\* dirty has its turn once.
FirstTurnInv ==
  /\ pc \in {"connect", "poll", "load"} => \A k \in Keys : view[k] = Null
  /\ Publishing /\ phase = "dirty" =>
       \A k \in todo : view[k] = Null \/ (pc = "reconnect" /\ Current(k))
  /\ \A j \in Jobs : view[j] # Null => j \in live \cup dead

\* The last message about a job that is not destroyed is the only one.
OneMessageInv ==
  /\ pc \in {"connect", "poll", "load"} => sent = <<>>
  /\ \A j \in Jobs \ dead : Says(sent, j, view[j])

\* After Dump neither the memory nor the messages change.
DumpedInv ==
  DoneSent =>
    /\ pc \in {"leave", "stopped", "aborted"}
    /\ \A j \in Jobs \ dead :
         IF dumped[j] = Null THEN view[j] = Null ELSE view[j] \in {dumped[j], Lost}

SinkInv ==
  /\ WireInv
  /\ config.dump => FirstTurnInv /\ OneMessageInv
  /\ ~config.dump => sent = <<>> /\ sink = "fetch"
  /\ DumpedInv
=============================================================================
