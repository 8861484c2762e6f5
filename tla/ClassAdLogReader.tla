-------------------------- MODULE ClassAdLogReader --------------------------
(***************************************************************************)
(* ClassAdLogReader::Poll over a log that a schedd keeps writing, with the *)
(* publisher as consumer.  A poll is an fstat, a probe and the reading of  *)
(* one entry after another; the schedd can write between any two of them.  *)
(* What main does after a poll is one step here: nothing in it touches the *)
(* log, and JobQueuePublisher has it in detail.                            *)
(***************************************************************************)
EXTENDS JobQueue, ScheddLog, ClassAdLogProber

VARIABLES
  rpc,       \* where Poll is
  dangling,  \* has the probe closed the parser's stream?
  parser,
  prober,
  source,    \* the file the memory comes from, 0 if it comes from none
  seen       \* readable records in the file when its size was taken

reader == <<rpc, fp, dangling, parser, prober, source, seen>>
vars == <<config, queue, writer, reader>>

LogTypeOK ==
  /\ gen \in 0..MaxGen
  /\ files \in [1..MaxGen -> Seq(Record)]
  /\ rpc \in {"idle", "probe", "load", "loaded", "failed", "exited", "aborted"}
  /\ fp \in 0..MaxGen
  /\ dangling \in BOOLEAN
  /\ parser.nextOffset \in 0..MaxLen
  /\ source \in 0..MaxGen
  /\ seen \in 0..MaxLen

TypeOK == QueueTypeOK /\ LogTypeOK

\* The command line does not matter here: only main looks at it, but for the
\* triggers, which decide what is dirty.
ReaderConfig == [triggers |-> {}, address |-> FALSE, dump |-> FALSE]

ReaderInit ==
  /\ WriterInit
  /\ rpc = "idle"
  /\ dangling = FALSE
  /\ parser = Parser0
  /\ prober = Prober0
  /\ source = 0
  /\ seen = 0

Init ==
  /\ QueueInit
  /\ config = ReaderConfig
  /\ ReaderInit

stream == files[fp]

-----------------------------------------------------------------------------
\* fopen, and the fstat at the start of the probe.
OpenFile ==
  /\ rpc = "idle"
  /\ gen > 0
  /\ rpc' = "probe"
  /\ fp' = gen
  /\ prober' = [prober EXCEPT !.cur_probed_size = Size(log)]
  /\ seen' = ReadableLen(log)
  /\ UNCHANGED <<config, queue, writer, dangling, parser, source>>

\* The rest of the probe: its result, and what it leaves behind.
Probed(result) ==
  /\ rpc = "probe"
  /\ result = probe(prober, stream, parser.last)
  /\ prober' = [prober EXCEPT !.cur_probed_seq_num = SeqNum(prober, stream)]
  /\ dangling' = ClosesStream(prober, stream, parser.last)
  /\ UNCHANGED <<config, writer, fp, seen>>

\* A mutated form of BulkLoad: the consumer is not reset.
BulkLoadKeeps ==
  /\ \E result \in {"INIT_QUILL", "COMPRESSED", "PROBE_ERROR"} : Probed(result)
  /\ parser' = setNextOffset(parser, 0)
  /\ UNCHANGED queue
  /\ source' = IF dangling' THEN 0 ELSE fp
  /\ rpc' = "load"

BulkLoad ==
  /\ \E result \in {"INIT_QUILL", "COMPRESSED", "PROBE_ERROR"} : Probed(result)
  /\ parser' = setNextOffset(parser, 0)
  /\ Reset
  /\ source' = IF dangling' THEN 0 ELSE fp
  /\ rpc' = "load"

StartIncrementalLoad ==
  /\ Probed("ADDITION")
  /\ rpc' = "load"
  /\ source' = IF source = 0 /\ ~dangling' THEN fp ELSE source
  /\ UNCHANGED <<queue, parser>>

\* Closing a stream that is closed already may end the process.
NoChange ==
  /\ Probed("NO_CHANGE")
  /\ rpc' \in {"loaded"} \cup (IF dangling' THEN {"aborted"} ELSE {})
  /\ UNCHANGED <<queue, parser, source>>

\* POLL_ERROR: main exits.
ProbeFatal ==
  /\ Probed("PROBE_FATAL_ERROR")
  /\ rpc' = "exited"
  /\ UNCHANGED <<queue, parser, source>>

-----------------------------------------------------------------------------
(***************************************************************************)
(* IncrementalLoad, one entry at a time.                                   *)
(***************************************************************************)
Reading ==
  /\ rpc = "load"
  /\ ~dangling
  /\ UNCHANGED <<config, writer, fp, dangling, prober, source, seen>>

read == readLogEntry(stream, parser)

\* ProcessLogEntry: false for an attribute of an unknown ad.
Processed(entry) ==
  entry.op \in {"SetAttribute", "DeleteAttribute"} => Known(entry.key)

ProcessLogEntry(entry) ==
  \/ entry.op = "NewClassAd" /\ NewClassAd(entry.key)
  \/ entry.op = "DestroyClassAd" /\ DestroyClassAd(entry.key)
  \/ entry.op = "SetAttribute" /\ SetAttribute(entry.key, entry.name, entry.value)
  \/ entry.op = "DeleteAttribute" /\ DeleteAttribute(entry.key, entry.name)
  \/ entry.op \in KnownOps \ AdOps /\ UNCHANGED queue

LoadEntry ==
  /\ Reading
  /\ read.err = "FILE_READ_SUCCESS"
  /\ parser' = read.parser
  /\ ProcessLogEntry(parser'.cur)
  /\ rpc' = IF Processed(parser'.cur) THEN "load" ELSE "failed"

\* The end of the file, or an entry of an unknown type, or the assertion.
EndLoad ==
  /\ Reading
  /\ read.err # "FILE_READ_SUCCESS"
  /\ parser' = read.parser
  /\ rpc' = CASE read.err = "FILE_READ_EOF" -> "loaded"
              [] read.err = "FILE_READ_ERROR" -> "failed"
              [] read.err = "FILE_FATAL_ERROR" -> "aborted"
  /\ UNCHANGED queue

\* The use of a closed stream: the seek fails, which reads as the end of the
\* file, or the process dies of it.
LoadDangling ==
  /\ rpc = "load"
  /\ dangling
  /\ rpc' \in {"loaded", "aborted"}
  /\ UNCHANGED <<config, queue, writer, fp, dangling, parser, prober, source, seen>>

\* Poll returns: what was probed is kept if the load did not fail.  A file that is
\* no longer the log is gone once it is closed.
PollReturns ==
  /\ rpc \in {"loaded", "failed"}
  /\ rpc' = "idle"
  /\ fp' = 0
  /\ files' = [files EXCEPT ![fp] = IF fp = gen THEN @ ELSE <<>>]
  /\ dangling' = FALSE
  /\ seen' = 0
  /\ prober' = IF rpc = "loaded" THEN incrementProbeInfo(prober) ELSE prober
  /\ UNCHANGED <<config, gen, wiped, parser, source>>

\* Poll returns, and main publishes what is dirty and erases what is destroyed.
EndPoll ==
  /\ PollReturns
  /\ g_jobs' = [k \in Keys |-> IF k \in g_delete_jobs THEN Null ELSE g_jobs[k]]
  /\ g_dirty_jobs' = {}
  /\ g_delete_jobs' = {}

\* A log that cannot be opened: POLL_FAIL.
PollFails == rpc = "idle" /\ gen = 0 /\ UNCHANGED vars

Poll ==
  \/ OpenFile
  \/ BulkLoad
  \/ StartIncrementalLoad
  \/ NoChange
  \/ ProbeFatal
  \/ LoadEntry
  \/ EndLoad
  \/ LoadDangling
  \/ EndPoll
  \/ PollFails

\* The daemon is gone, and what the schedd does now is of no interest.
Dead == rpc \in {"exited", "aborted"}

Terminated == Dead /\ UNCHANGED vars

Next ==
  \/ Poll
  \/ ~Dead /\ WriterStep /\ UNCHANGED <<config, queue, reader>>
  \/ Terminated

Spec == Init /\ [][Next]_vars

(***************************************************************************)
(* The reader polls again and again, and a schedd that has written part of *)
(* a record, or a new log without its first record, writes the rest.  It   *)
(* need never write anything else.                                         *)
(***************************************************************************)
Fairness ==
  /\ WF_vars(Poll)
  /\ WF_vars((Complete \/ FirstRecord) /\ UNCHANGED <<config, queue, reader>>)

FairSpec == Spec /\ Fairness

\* The same, with transactions that are wiped out only while no poll is under way.
CalmNext == Next /\ (fp # 0 => ~Backtrack)

CalmSpec == Init /\ [][CalmNext]_vars /\ Fairness

-----------------------------------------------------------------------------
(***************************************************************************)
(* What the memory of the consumer is worth.                               *)
(***************************************************************************)

\* A cluster known only from its jobs is an ad without attributes.
Holds(ads, records) ==
  \A k \in Keys :
    \/ /\ ads[k] # Null
       /\ Known(k)
       /\ k \notin g_delete_jobs
       /\ g_jobs[k].attrs = ads[k]
    \/ /\ ads[k] = Null
       /\ \/ ~Known(k)
          \/ k \in g_delete_jobs
          \/ /\ g_jobs[k].attrs = NoAttrs
             /\ \E j \in Jobs : ClusterOf[j] = k /\ Created(j, records)

ReadSoFar == IF source = 0 THEN <<>> ELSE SubSeq(files[source], 1, parser.nextOffset)

\* The memory is what the records before the next offset say, in the file they
\* were read from, as long as there is that file: none of them has been skipped,
\* applied twice or applied to what an earlier file left behind, and none of them
\* was unreadable.
MemoryIsPrefix ==
  source \in {0, gen, fp} =>
    /\ parser.nextOffset <= Len(IF source = 0 THEN <<>> ELSE files[source])
    /\ Holds(Replay(ReadSoFar), ReadSoFar)
    /\ \A i \in 1..Len(ReadSoFar) : ~Unreadable(ReadSoFar[i])

\* After a poll the memory comes from the file that was the log when the poll
\* began and holds every record that could be read from it then, whatever the
\* probe made of it.  Two polls are excepted: one whose probe has closed the stream
\* that the load needs, or whose memory an earlier such probe threw away; and one
\* that compares an entry left over from an earlier, longer file.  That entry may
\* agree with a torn record of this file, so that a poll that has read nothing
\* counts what was there as read: it is read when the log has grown again.
PollCovers ==
  rpc \in {"loaded", "failed"} /\ source # 0 /\ ~dangling /\ parser.last.offset < parser.nextOffset
    => source = fp /\ parser.nextOffset >= seen

\* "Useful for replicating the condor_schedd's state" (README): once the schedd
\* is quiet, the memory comes to hold the whole log.
Replicated ==
  gen > 0 =>
    /\ source = gen
    /\ parser.nextOffset >= ReadableLen(log)

CatchesUp == <>[](Dead \/ Replicated)

\* The same where the probe finds what it reads readable from some point on.
CatchesUpIfOpen == <>[]~dangling => CatchesUp

\* "This happens when the ClassAdLogReader encounters a problem in the log, on
\* startup, or when the log is compressed" (ClassAdLogReader.h:91-95): once a poll
\* that found something in a log has ended well, a memory read from that log, all
\* of it readable, is not thrown away.  A log of a single record is left out: no
\* entry comes before it, and the probe compares it with a blank one.  It holds
\* where no poll has met a half-written record ("tear"): the type of that record
\* stays in the entry that the next probe compares.
ResetOnlyForCause ==
  [][/\ rpc = "probe"
     /\ source = fp
     /\ prober.last_seq_num = fp
     /\ prober.last_size # 0
     /\ parser.nextOffset > 1
     /\ ReadableLen(stream) = Len(stream)
     => ~BulkLoad]_vars

\* The consumer holds no ad, and the next record to read is the first.
Forgotten == parser.nextOffset = 0 /\ \A k \in Keys : ~Known(k)

\* What is true of "the log writer will backtrack and wipe out the transaction, which will
\* cause us to do a bulk reload" (ClassAdLogReader.cpp:173-176), for a log that ends before
\* the entry that the probe compares: all that was read of it is forgotten at the next
\* probe, the records that were wiped out among it.  But it is not reloaded: if the log has
\* the number it had, the probe has met the end of the file and closed the stream, so that
\* this poll reads nothing or ends the process, and so do the next ones as long as the log
\* is no longer.
WipedOutForgotten ==
  [][rpc = "probe" /\ Len(stream) <= parser.last.offset /\ rpc' # "probe" => Forgotten']_vars

\* Once the schedd is quiet, and has left a log that goes on beyond the entry that the
\* probe compares, all of it gets behind the next offset: being too short is all that keeps
\* a log unread.  It holds where no transaction is wiped out during a poll (CalmSpec): a
\* poll counts as read the size that the log had when it began.  (And what was read may
\* have been what was there before: a transaction that is replaced by one of the same
\* looks goes unnoticed.)
WipedOutReloads ==
  /\ <>[][UNCHANGED writer]_vars
  /\ <>[](gen > 0 => Len(log) > parser.last.offset)
  => CatchesUp

\* "assert(err != FILE_FATAL_ERROR)" (ClassAdLogReader.cpp:122), for the stream that
\* a load reads: no bad record is followed by an EndTransaction.
NoFatalError == ~(rpc = "load" /\ ~dangling /\ read.err = "FILE_FATAL_ERROR")

-----------------------------------------------------------------------------
(***************************************************************************)
(* Why the invariants hold: an inductive invariant.                        *)
(***************************************************************************)
Entries == [op : KnownOps \cup {"unsupported", "none"}, key : Keys \cup Nat \cup {Null},
            name : Names \cup {Null}, value : Values \cup {Null}, offset : Nat]

Parsers == [nextOffset : Nat, cur : Entries, last : Entries]

Probers == [last_size : Nat, last_seq_num : Nat, cur_probed_size : Nat, cur_probed_seq_num : Nat]

\* The types of what TypeOK looks into, and that Poll has the file open that it reads.
PollInv ==
  /\ parser \in Parsers
  /\ prober \in Probers
  /\ rpc = "idle" => fp = 0 /\ ~dangling /\ seen = 0
  /\ rpc \in {"probe", "load", "loaded", "failed"} => fp # 0
  /\ rpc = "probe" => ~dangling

\* The file that the memory comes from is the one that is read, or an older one, and no
\* probe that has ended well found a newer one.
SourceInv ==
  /\ {source, prober.last_seq_num, prober.cur_probed_seq_num} \subseteq 0..gen
  /\ fp # 0 => {source, prober.last_seq_num, prober.cur_probed_seq_num} \subseteq 0..fp
  /\ source # 0 => prober.last_seq_num <= source
  /\ source # 0 /\ rpc \in {"load", "loaded", "failed"} => source = fp
  /\ source = 0 => parser.nextOffset = 0
  /\ rpc = "load" /\ source = 0 => dangling

\* The file is there as long as the reader or the schedd has it, and what was read of
\* it can be read.
There(g) == g \in {gen, fp} \ {0}

PrefixInv ==
  There(source) =>
    /\ parser.nextOffset <= Len(files[source])
    /\ \A i \in 1..parser.nextOffset : ~Unreadable(files[source][i])

\* The memory is what was read, and what is to be erased was destroyed by a record of it.
MemoryInv ==
  source = 0 \/ There(source) =>
    /\ Holds(Replay(ReadSoFar), ReadSoFar)
    /\ \A k \in g_delete_jobs : Created(k, ReadSoFar)

\* What is destroyed is erased when the poll ends, so that a Reset leaves nothing behind.
ErasedInv == rpc \in {"idle", "probe"} => g_delete_jobs = {}

\* What fstat said is still there, in the file and in the last file that was probed well.
SizeInv ==
  /\ fp # 0 => prober.cur_probed_size <= Size(stream) /\ seen <= ReadableLen(stream)
  /\ rpc \in {"load", "loaded", "failed"} =>
       prober.cur_probed_seq_num = fp \/ prober.cur_probed_size = 0
  /\ There(prober.last_seq_num) => prober.last_size <= Size(files[prober.last_seq_num])

\* The entry that the next probe compares is one of those read from this file.
Compared == There(source) /\ parser.last.offset < parser.nextOffset

\* What can be read has been read, or the size will tell.
Covered(size) ==
  ReadableLen(files[source]) <= parser.nextOffset \/ Size(files[source]) > size

CoverInv ==
  /\ Compared => ~dangling
  /\ Compared /\ rpc \in {"idle", "probe", "failed"} /\ prober.last_seq_num = source =>
       Covered(prober.last_size)
  /\ Compared /\ rpc = "probe" /\ source = fp /\ prober.last_seq_num = source =>
       seen <= parser.nextOffset \/ prober.cur_probed_size > prober.last_size
  /\ Compared /\ rpc = "loaded" => Covered(prober.cur_probed_size)
  /\ Compared /\ rpc \in {"loaded", "failed"} => seen <= parser.nextOffset

ReaderInv ==
  /\ TypeOK
  /\ WriterInv
  /\ PollInv
  /\ SourceInv
  /\ PrefixInv
  /\ MemoryInv
  /\ ErasedInv
  /\ SizeInv
  /\ CoverInv

(***************************************************************************)
(* Why the two action properties hold.                                     *)
(***************************************************************************)

\* An entry that looks like the first of a file is the first of a file.
SeqNumInv ==
  \A e \in {parser.cur, parser.last} : e.op = "LogHistoricalSequenceNumber" => e.offset = 0

\* In a file that nothing is wrong with, the parser's entries are the last two before
\* the next offset.
Intact(file) == \A i \in 1..Len(file) : ~Unreadable(file[i])

LastTwoInv ==
  LET n == parser.nextOffset
  IN There(source) /\ Intact(files[source]) =>
       /\ n > 0 => parser.cur = Entry(files[source][n], n - 1)
       /\ n > 1 => parser.last = Entry(files[source][n - 1], n - 2)

\* The file is no shorter than at the last probe that ended well.
LengthInv == rpc = "probe" /\ prober.last_seq_num = fp => prober.last_size <= prober.cur_probed_size

CauseInv == Untorn /\ LastTwoInv /\ LengthInv
=============================================================================
