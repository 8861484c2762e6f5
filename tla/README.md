# Verification of the condor job queue publisher

`condor_job_queue_publisher` tails the `job_queue.log` that a condor_schedd
writes, keeps the ads of the queue in memory and sends one AMQP message for each
job that changed or went. This directory holds TLA+ models of it, TLC runs that
check them on small instances, and TLAPS proofs. Paths below are relative to
`src/`.

    tlc -workers 2 -config publisher_order.cfg MCJobQueuePublisher
    tlc -workers 2 -config daemon_polls.cfg MCDaemon
    tlapm JobQueuePublisherProofs.tla

`PROJECT.json` is the index: the lines each definition stands for, the runs, the
mutated form of a definition that each property refutes, findings, hazards and
theorems.

## The system

| component | state | operations |
|---|---|---|
| job queue memory: `Globals`, `Job`, `JobQueuePublisherClassAdLogConsumer` | `g_jobs` (key to `Job`: a parent pointer and attributes), `g_dirty_jobs`, `g_delete_jobs` | the reader's callbacks `Reset`, `NewClassAd`, `DestroyClassAd`, `SetAttribute`, `DeleteAttribute` |
| main loop: `job_queue_publisher_main.cpp` | the connection, the position in the loop, `shutdownRequest` | connect, poll, publish the dirty jobs, publish and erase the destroyed ones, dump, sleep, keep-alive, end; signal handlers |
| configuration: `Config`, `parse_args` | triggers, address, dump, interval | set once |
| log reader: `lib/ClassAdLogReader` | a parser, a prober | `Poll` = open, probe, bulk or incremental load, close |
| log prober: `lib/ClassAdLogProber` | size and sequence number of the last successful poll and of this one | `probe`, `incrementProbeInfo` |
| log parser: `lib/ClassAdLogParser` | stream, next offset, current and last entry | `readLogEntry`, `setNextOffset`, `openFile`, `closeFile` |
| log entry: `lib/ClassAdLogEntry` | type, fields, offset | `init`, `operator=`, `equal` |
| tokenizer: `lib/log` | none | `readword`, `readline`, `Write` |
| keep-alive: `CondorKeepAlive` | a prepared datagram | `sendKeepAlive` |
| sink: `sink.cpp` | none | prints messages until `DONE`, acknowledges |

The daemon has one thread. `main` calls `Poll`; `Poll` calls the consumer, which
changes the three collections; `main` then goes through the two sets. What runs
at the same time is outside: the schedd, which appends to the log between any
two reads, may leave a record half written, wipes out an open transaction and
replaces the whole file by a compressed one; the broker, whose connection may go
at any time; and signals.

What is hard, and what makes each part correct:

* **Reader, prober, parser.** A poll is many reads of a file that changes.
  Whether a log is the same, longer or another one is decided from a size, a
  sequence number and one entry. A record may be torn, or damaged for good. The
  probe and the load share one stream, which a failing read closes. Correct: the
  memory is always what some prefix of one log file says; a poll reaches
  everything that was there when it began; the memory catches up; it is thrown
  away when, and only when, it has to be.
* **Memory and main loop.** Jobs point to the element of their cluster; jobs
  come before their cluster at times, and clusters are destroyed together with
  their jobs. Destroyed jobs stay until their last message. Sends fail, and are
  not repeated. Correct: no pointer to an erased element, no key without its
  element (the assertion of `PublishJob`), no ad lost or left over, messages that
  agree with the jobs, every job has its turn, SIGTERM ends the process.
* **Tokenizer.** A record is cut off at any character. Correct: nothing is taken
  for read before all of it is there, and what is read is what was written.
* **Publisher and sink.** Messages are lost, connections go before the broker has
  what was sent, and what comes after the loop is in no try block. Correct: sink
  prints what the publisher dumps, and ends.
* **Keep-alive.** It is sent by the loop that also waits for the broker. Correct:
  the time between two is bounded, and the message names the process.

## The modules

| module | models | extends |
|---|---|---|
| `JobKeys` | keys, names, values | |
| `JobQueue` | the three collections, `Job`, the callbacks | `JobKeys` |
| `JobQueuePublisher` | `main`, over any load that a log allows | `JobQueue` |
| `JobFeed` | abstract: what receivers of the messages can rely on | `JobKeys` |
| `PublisherSink` | `main` with `--dump`, the queue at the broker, `sink` | `JobQueuePublisher` |
| `KeepAlive` | `main` with time and the keep-alive message | `JobQueuePublisher` |
| `LogRecord` | `readword`, `readline`, `Write`: characters | |
| `ClassAdLogEntry`, `ClassAdLogParser`, `ClassAdLogProber` | the operations of these classes, as operators on records | each the one before |
| `ClassAdLogText` | `readLogEntry` on characters, against `ClassAdLogParser` | `LogRecord`, an instance of `ClassAdLogParser` |
| `ScheddLog` | the log and its writer (not in the repository) | `ClassAdLogParser` |
| `ClassAdLogReader` | `Poll` against that writer, with `JobQueue` as consumer | `JobQueue`, `ScheddLog`, `ClassAdLogProber` |
| `Daemon` | all of it: `main` with the polls of `ClassAdLogReader` | `ClassAdLogReader`, an instance of `JobQueuePublisher` |
| `JobQueueProofs`, `ScheddLogProofs` | lemmas: what the callbacks do, what a log says | the module named |
| `JobQueuePublisherProofs`, `PublisherSinkProofs`, `KeepAliveProofs` | theorems about `main`, its messages, sink and time | the module named, and the proofs it rests on |
| `ClassAdLogReaderProofs`, `DaemonProofs` | theorems about the reader and about the whole | the module named, and the proofs it rests on |
| `ClassAdLogTextProofs` | theorems about the text of a log | `ClassAdLogText` |
| `MC...` | values for TLC | the module named |

**JobKeys, JobQueue.** A key is a model value in `Clusters` or `Jobs` (the code
looks at the first character) and `ClusterOf` is the key that `NewClassAd` prints
from a job's. `g_jobs[k]` is `Null` for a key the map does not hold. A `Job`'s
`m_parent`, a pointer to a node of the map, is the key of that node: nodes of a
`std::map` do not move, and a node that is erased and made again counts as
erased because an erased parent is looked for in every state. `AssignJob` is `g_jobs[key] =
Job(...)`: `Job::operator=` leaves the attributes that are there. There is one
action per callback; `SetAttribute` and `DeleteAttribute` do nothing for an
unknown key, and the caller sees that in `Known`.

**JobQueuePublisher.** `pc` is where `main` is: `connect`, `poll`, `load` (in
`Poll`), `publish` and `reconnect` (in one of the two loops, `phase` says which),
`dump`, `sleep`, `leave`, and the three ends `exited` (`exit(1)`), `aborted` (an
assertion or an exception) and `stopped`. `todo` holds the keys a loop has not
finished; `Current` is the next in `std::set` order, or in reverse order. Cluster
keys begin with `0` and job keys do not, so that clusters sort first
(`RankAssumption`). A message is `view[k]`, the last one under subject `k`;
`Lost` stands for one that may not have arrived (`send` threw, or returned and the
connection went before the broker had it). `live` and `dead` are what the log read so far
says: they limit the calls of a load to those that a log can produce.

**JobFeed** is the abstract specification: a table of ads and the last message
under each subject. `JobQueuePublisher` implements it (`ImplementsJobFeed`) with
`g_jobs`, without the parents, as the table. It says what a receiver may conclude
from a message: it is the content of an ad that was in memory at that moment, over
that of its cluster; the last one about an ad comes as the ad goes, and a job goes
before its cluster. It also says what a receiver may not conclude: a reload drops
all ads without a message (`Drop`).

**PublisherSink** adds the queue at the broker (`wire`), what `Dump` listed and what
sink printed. Whether a message that was sent arrives or is lost with its
connection is decided when it is sent. `sync` returns when the broker has
everything, so that `LeaveInSync` waits for `DONE`, which is why a publisher that
ends well releases sink. Acknowledgements are left out: nothing is delivered
twice to a sink that does not stop before `DONE`.

**KeepAlive** adds time in seconds: `age` is the time since the last keep-alive,
with every step at its longest: `WorkTime` for a poll and the calls to the broker in
a round, five seconds for a failed attempt to connect, `Interval` for the sleep.
`kamessage` is the message as the code builds it, twelve 16-bit words with the
process id by way of a `short`, on a host that stores the low byte first;
`Number` is what the other end makes of four of them.

**ClassAdLogReader.** One step is `fopen` with `fstat` (`OpenFile`), the reads of
the probe with its decision (`BulkLoad`, `StartIncrementalLoad`, `NoChange`,
`ProbeFatal`), one `readLogEntry` with its callback (`LoadEntry`, `EndLoad`,
`LoadDangling`), and the return to `main` (`PollReturns`; `EndPoll` where `main` is
not modelled). `dangling` says that the probe closed the stream that the reader
still has a pointer to: the load then reads nothing, or the process dies. `source`
(the file the memory comes from) and `seen` (what could be read when the poll
began) are observed only.

**Daemon** puts the two together: the steps of the reader take the place of the
arbitrary polls of `JobQueuePublisher`, while the schedd writes and `main`
publishes. `PollsAsAssumed` is the refinement that justifies the arbitrary polls:
the whole is a behaviour of `JobQueuePublisher`, with `live` and `dead` computed
from the entries that the reader has read.

**LogRecord, ClassAdLogText.** A file is a sequence of characters. `readword` and
`readline` yield what they read and where they stopped: their loops are the search
for the first character that is, or is not, one of a set (`FirstIn`, `FirstNotIn`).
`readTextEntry` is `readLogEntry` with the bodies (`readBody`) and the search for an
`EndTransaction` (`Recovery`) built from them. The schedd begins a record of
`Lines` (`BeginRecord`), writes it one character at a time (`WriteChar`) and may do
nothing else; `ReadEntry` is one call of `readLogEntry`, at any moment, on the
characters and, in step, of `ClassAdLogParser` on the records. `records` is what the
latter reads: a record is there once its header is, and has a good body once all of
it is. `ReadsAsRecords` says that the two agree, which is what makes the records of
the other modules a faithful picture of the file.

**ScheddLog** is external: what the reader's comments, `job_queue.log.sh` and
`test_job_queue_publisher.sh` say of a schedd. A key is created once in a file,
what is changed or destroyed exists, a cluster goes after its jobs, a job may
come before its cluster, compression writes the ads that are left, in any order,
under the next sequence number. `Faults` lists what else it may do: leave the
log empty at first, tear a record, crash within one, wipe out a transaction.
What is written in place of wiped out records is as long as they were, one by
one (`Fits`), so that an offset never falls within a record.

`Replay` is what a log says, without going through it record by record: an ad is
there (`Alive`) if its `NewClassAd` has no `DestroyClassAd` after it, and an attribute
has the value of the last record that decides about it (`LastWord`): the ad's own
`NewClassAd` and a `DeleteAttribute` leave it unset. `Snapshots` are the compressed
logs of what is there, the records of each ad together, its `NewClassAd` first.

### Abstractions

* A file is a sequence of records and an offset counts records; a record has a
  flag for a body that cannot be read. Sizes are in half records, so that a torn
  record is longer than none and shorter than a whole one. A record whose header
  is not there yet is left out: it reads as the end of the file, as if it were not
  there, and changes the size only, which makes the next poll an `ADDITION` that
  reads nothing.
* The two reads of a probe are one step. The schedd could write between them, and
  the first read is of the first record, which is complete (or the probe ends
  there) and does not change; only the second read sees what was written.
* A torn record is followed by the search for an `EndTransaction` in the rest of
  the file, one step here: it is at the end of the file when the search finds
  nothing, and a stdio stream does not go on past an end it has seen.
* Modification and creation times are kept and printed by the prober and decide
  nothing. The type names of an ad follow from its key.
* What `main` does between two polls is the step `EndPoll` in
  `ClassAdLogReader`; nothing in it looks at the log, and `Daemon` has it in detail.
* `PollCovers` excepts a poll whose probe has closed the stream of the load
  (finding 4), and the polls after it until the memory has a source again. It also
  excepts a poll that compares an entry left from an earlier, longer file, where
  the code does miss records for a while: the log was compressed to one record and
  then got a torn record, at the offset of that entry and of its type. The probe
  closes the stream and calls it an addition, the load reads nothing and succeeds,
  and what was probed is stored; a poll whose probe sees the record completed after
  it took the size says that nothing has changed. The next poll finds the log
  grown and reads them.
* A send that throws has not arrived in `PublisherSink`, nor has one whose connection
  goes before the broker has it; a message that arrived although its send threw is not
  among the behaviours.
* The file that was the log is dropped when nobody has it open, and the keys of a
  compressed log may stand for other ads than before.
* `Poll` is arbitrary in `JobQueuePublisher`, within the log's discipline: any
  load may end at any point, fail, start with a reset, or abort. The discipline is
  that of a log whose wiped out transactions, if any, are noticed: `PollsAsAssumed`
  is checked without them, and finding 2 is what happens with one that is not.
* A log has no NUL characters (`lib/log.h:26-27` says there are none) and spaces and
  newlines are its only white space (`CharsAssumption`). Keys, names and types are
  words, and a value is the rest of a line, which is how the bodies are read back:
  `LinesAssumption` says that all of `Lines` are such records (`IsLine`). Only the
  value of an attribute may be empty.
* The recovery loop reads line after line; what it returns is decided by the first
  line that cannot be read or that ends a transaction, which `Recovery` finds among
  the lines that begin where a newline ends. `atoi` and `sscanf` of `%d` are their
  result on a word without a sign; numbers of four digits and more, which are no op
  codes, are all `1000`.

## The runs

| run | instance | checks | distinct states |
|---|---|---|---|
| `publisher_order` | 1 cluster, 2 jobs, 1 name, 1 value | `TypeOK`, `AssertHolds`, `ParentAlive`, `QueueMatchesLog`, `IInv`, `ImplementsJobFeed` | 544 k |
| `publisher_messages` | 1 cluster, 1 job, 1 name, 2 values, a sink | `OwnAttrsFresh`, `SinkAgrees`, `MessageInv`, `SinkAgreesWithDump`, `SinkInv`, `DirtyDrains`, `SinkReleased` | 74 k |
| `publisher_sigterm` | 1 cluster, 1 job, 1 name, 1 value | `SigtermStops`: violated | |
| `keepalive` | 1 cluster, 1 job; interval and work 15 s, process 40000 | `NamesProcess`, `SilenceBounded`, `KeepAliveInv` | 126 k |
| `daemon_polls` | 4 records, 2 files, ads and unsupported records | `TypeOK`, `MemoryIsPrefix`, `PollCovers`, `AssertHolds`, `DaemonInv`, `PollsAsAssumed`, `ResetOnlyForCause` | 241 k |
| `daemon_backtrack` | 2 clusters, 4 records, 1 file; backtrack | `AssertHolds`: violated | |
| `reader_torn` | 1 cluster, 4 records, 2 files, ads created, transactions; empty, torn, crash | `MemoryIsPrefix`, `PollCovers`, `ReaderInv` | 266 k |
| `reader_catches_up` | 3 records, 2 files, ads only; torn | `CatchesUpIfOpen` | 37 k |
| `reader_wiped_out` | 4 records, 1 file, transactions; backtrack, between polls | `WipedOutForgotten`, `WipedOutReloads` | 13 k |
| `reader_fatal` | 4 records, 1 file; torn, crash | `NoFatalError`: violated | |
| `reader_replicates` | 3 records, 2 files, no faults | `CatchesUp`: violated | |
| `log_text` | all logs of up to 3 records over 11, character by character | `EntriesAreWritten`, `ReadsAsRecords`, `TextInv` | 121 k |

What they show.

* `AssertHolds`, `ParentAlive`: the assertion of `PublishJob` and the reverse
  order of the second loop (`main.cpp:302-304`, "a hack to delete child jobs
  before parent jobs") hold for every order of creation and destruction that a
  log allows, through resets, failing sends and reconnections. Erasing in
  forward order, or erasing at once, breaks them. `daemon_polls` checks the
  assertion with the reader's own polls; `daemon_backtrack` shows what it needs.
* `QueueMatchesLog`: what the test script counts with `grep` (`:37`), and that an
  ad without a record of its own is the parent of some job.
* `OwnAttrsFresh`: after each iteration the last message about a job has the
  trigger attributes of the job itself. It is not so for what a job inherits.
  `SinkAgrees`: it is for everything with `--dump`.
* `ImplementsJobFeed`: what a receiver can rely on, in general.
* `SinkAgreesWithDump`: what the test script compares (`:63-75`), with the sink in
  the picture: one message about each job, before `DONE`. `SinkReleased`: sink ends
  if the publisher ends well. A publisher that a lost connection ends at `DONE`,
  `sync` or `close` leaves it waiting.
* `SilenceBounded`: a keep-alive comes after at most the interval, the work of a
  round and 20 s for each key, as a key is dirty or destroyed in a round and not
  both. That is more than the 30 s the message announces: with the default
  interval of 15 s the work may take 15 s, and no attempt to connect may fail.
  `NamesProcess`: the signed `short` does no harm up to 65535.
* `DirtyDrains`: the loops end. A broker that never answers costs five attempts
  per key and then the process; one that answers and fails costs the messages.
* `MemoryIsPrefix`, `PollCovers`: no record is skipped, applied twice, or applied
  to what an earlier file left, whatever the schedd does during a poll, and a
  poll reaches what was readable when it took the size.
* `CatchesUpIfOpen`: after the schedd is quiet, the memory comes to hold the log,
  provided that the probe's reads do not fail for ever. `reader_replicates` shows
  that the proviso is needed.
* `PollsAsAssumed`: the calls of the reader are those that a log allows: an ad is
  delivered once, only what was delivered is changed or destroyed, a load starts
  over only with an empty memory. All that is proved of `JobQueuePublisher` is
  therefore true of the daemon; `ReaderPollsAsAssumed` says so for every instance.
* `ResetOnlyForCause`: a log that is sound and longer than one record is not
  loaded again.
* `WipedOutForgotten`, `WipedOutReloads`: what holds of "wipe out the transaction,
  which will cause us to do a bulk reload" (`ClassAdLogReader.cpp:173-176`). A log that
  is cut back to before the entry the probe compares is forgotten at the next probe,
  the records that were wiped out included. It is not reloaded: the probe has closed
  the stream, so that this poll and those after it reset the consumer and read nothing,
  or end the process, while the log is that short (finding 4). Once it is longer, and
  the schedd quiet, everything gets behind the next offset, if no transaction is wiped
  out during a poll. What was read may then still be what was there before, as finding
  2 shows.
* `EntriesAreWritten`, `ReadsAsRecords`: wherever a log is cut off, an entry is read
  whole and as written, or not at all; an attribute that is set to nothing is a
  record that cannot be read.

### Findings

Four runs state what the repository says of the program and find it otherwise.
Each is described in `PROJECT.json` with its quotation.

1. `publisher_sigterm`: the handler of SIGTERM assigns `false` to
   `shutdownRequest`, its value already (`main.cpp:110`).
2. `daemon_backtrack`: a transaction that is wiped out and replaced by one of
   records as long goes unnoticed, and the assertion of `PublishJob`
   (`main.cpp:420`) ends the daemon when an ad of the second is destroyed.
3. `reader_fatal`: the assertion in `IncrementalLoad` (`ClassAdLogReader.cpp:122`)
   ends the daemon for a damaged record that a transaction's end follows. The damaged
   record is on a line of its own: a schedd that goes on behind one that was cut off
   without ending its line would run the two together.
4. `reader_replicates`: after a log of several records is compressed to one, every
   poll closes its own stream in the probe, resets the consumer and reads nothing. So
   it is after a transaction is wiped out, if the log that is left ends before the
   entry compared.

### Bounds

One cluster suffices for the order of a cluster and its jobs, which do not touch
other clusters; two jobs let one be destroyed, published or erased while another
stays. One name and two values distinguish an old attribute from a new one in the
messages; a reader that skips or repeats a record shows in which attributes there
are, so one value does there. A reader's file needs a first record, the entry that
a probe compares, the entry after it, and one more: four. A transaction that is
wiped out with an ad created in its place has room in four. A second file is a compression, and what it does to the reader does not depend
on how often it has happened: the prober compares two sequence numbers. `MaxTries`
is the code's own 5. The process id of `keepalive` is one that is negative as a
`short`. The logs of `log_text` are all those of three
records over one of each type, one that is not supported, an empty value, and values
with spaces or with the code of an `EndTransaction`: an unreadable record, what is
read again after it, and an `EndTransaction` with something before or after it. `ConnectionLost`,
resets, polls and crashes are not bounded, nor are sequences of calls: states
repeat. `CHECK_DEADLOCK` is on everywhere; an ended process is the action
`Terminated`.

### Fairness

`JobQueuePublisher`: `main` takes its next step (it waits for nothing but a sleep
or a call to the broker that returns or throws) and a load ends. Nothing is
assumed of the broker, so `OpenFails` for ever is allowed and ends in `exit(1)`.
`PublisherSink` adds that sink fetches what there is.
`ClassAdLogReader`: `Poll` takes its next step, since `main` calls it in a loop;
the schedd finishes a record or a first record it has begun, and is assumed to
do nothing else. `CalmSpec`, which `reader_wiped_out` runs under, is `FairSpec` with
transactions wiped out between polls only. During one, they make `WipedOutReloads`
false: a poll counts as read the size that the log had when it began, and a record
that is wiped out before it is loaded and then written again makes a log of that size,
which is `NO_CHANGE` for ever. No action has strong fairness.

## The proofs

The proofs hold for any sets of clusters, jobs, names and values
(also infinite ones, but for the keys of `KeepAlive`), any order of the keys, any
bound on the length and number of the log's files, any set of record types that the
schedd writes, and any behaviour of broker and log that the model allows.

| theorem | says |
|---|---|
| *`JobQueuePublisherProofs`* | |
| `TypeCorrect` | `TypeOK`, and that a loop that goes on has made fewer than `MaxTries` attempts |
| `Consistent` | `IInv`, the inductive invariant |
| `PublishJobFindsJob` | `AssertHolds` |
| `NoDanglingParent` | `ParentAlive` |
| `MemoryMatchesLog` | `QueueMatchesLog` |
| `MessagesConsistent` | `MessageInv`, what `IInv` lacks for the messages |
| `MessagesAreFresh` | `OwnAttrsFresh` |
| `SinkSeesTheDump` | `SinkAgrees` |
| `PublisherIsJobFeed` | `ImplementsJobFeed`, the refinement |
| *`PublisherSinkProofs`* | |
| `SinkWatchesMain` | the publisher with a sink is a `JobQueuePublisher` |
| `SinkInductive` | `SinkInv`, the inductive invariant of the channel |
| `SinkAgreesWithTheDump` | `SinkAgreesWithDump` |
| *`KeepAliveProofs`* | |
| `KeepAliveConsistent` | `IInv` and `KeepAliveInv`, with time |
| `MessageNamesProcess` | `NamesProcess`, for every 16-bit process id |
| `SilenceIsBounded` | `SilenceBounded` |
| *`ClassAdLogReaderProofs`* | |
| `TypeIsCorrect` | `TypeOK`, whatever goes wrong |
| `Inductive` | `ReaderInv`, if nothing is wiped out |
| `MemoryIsWhatWasRead` | `MemoryIsPrefix`, if nothing is wiped out |
| `PollsCover` | `PollCovers`, if nothing is wiped out |
| `ShorterLogsAreForgotten` | `WipedOutForgotten`, whatever goes wrong |
| `ResetsHaveACause` | `ResetOnlyForCause`, if nothing is wiped out or torn |
| *`DaemonProofs`* | |
| `ReaderPollsAsAssumed` | `PollsAsAssumed`, the refinement, if nothing is wiped out |
| `DaemonInductive` | `DaemonInv`, if nothing is wiped out |
| `DaemonAssertHolds` | `AssertHolds`, if nothing is wiped out |
| `DaemonTypeIsCorrect` | `TypeOK`, whatever goes wrong |
| `DaemonMemoryIsWhatWasRead` | `MemoryIsPrefix`, if nothing is wiped out |
| `DaemonPollsCover` | `PollCovers`, if nothing is wiped out |
| `DaemonForgetsShorterLogs` | `WipedOutForgotten`, whatever goes wrong |
| `DaemonResetsHaveACause` | `ResetOnlyForCause`, if nothing is wiped out or torn |
| *`ClassAdLogTextProofs`* | |
| `TextInductive` | `TextInv`, the inductive invariant of the text |
| `EntriesAreThoseWritten` | `EntriesAreWritten` |
| `TextReadsAsRecords` | `ReadsAsRecords` |

The assumptions are those of `JobKeys` and `JobQueuePublisher`: clusters and jobs
have different keys, `Null` and `Lost` are none of the data, no two keys have the
same place in the order, and clusters sort before jobs. `PublisherSink` adds that `DONE`
is no job's message, and `ScheddLog` that the faults are among those it names.
`LogRecord` assumes that a log may hold spaces, newlines and digits and no NUL, and
`ClassAdLogText` that what the schedd writes are records: see *Abstractions*.

"If nothing is wiped out" is `"backtrack" \notin Faults`, a hypothesis of the theorem
and no assumption of the module: the schedd may compress its log, leave it empty, tear
records and crash, but it does not take back a transaction that the reader may have
read. The hypothesis is needed. With it dropped the reader keeps the records of the
transaction and goes on in what replaces it, so that the memory is that of no log;
`daemon_backtrack` shows where that ends (finding 2). `ResetsHaveACause` needs `"tear"
\notin Faults` too: `operator=` leaves a mixture of two entries behind after a torn
record, which the next probe does not find in the file. The theorems about reader
and daemon without a hypothesis hold whatever goes wrong.

### Memory and main loop

None of `AssertHolds`, `ParentAlive` and `QueueMatchesLog` is inductive.
`ParentAlive` says nothing of why a parent that is about to be erased has no
children left: that follows from the order of the loop and from the fact that a
job that is in `g_jobs` when its cluster's turn comes is either alive in the log,
so that its cluster was not destroyed, or destroyed too, and so was before it in
the reverse order. `IInv` adds therefore:

* `LogInv`: in the log no cluster is destroyed before its jobs;
* `ParentInv`: a job's parent is its cluster, and is there; a cluster has none;
* `LoopInv`: what each loop has left comes from its set, the destroyed keys are
  destroyed in the log, and both sets are empty at the start of a poll;
* `MemoryInv`: every key of the log and of both sets has its element, a job with
  an element is alive or doomed (`Doomed`: destroyed, its turn not over), and a
  cluster with an element is alive, doomed or the parent of a job.

`NoChildLeft` is the argument about the order; `IterationKeepsInv` uses it for
the erasure; the lemmas `Load...KeepsInv` treat the callbacks.

`MessageInv` is inductive on top of `IInv`. `FreshInv` extends `Fresh`, which is
about the sleep, to every moment: a job whose last message is out of date is due,
that is, still to be published in this round. A lost message is no exception, as
`Lost` counts as fresh; `ReconnectInv` says so while the connection is tried
again, when the iteration that failed is not over. `DumpInv` says why inherited
attributes are right with `--dump`: there is one poll, every job is new in it, and
nothing changes once publishing has begun.

`PublisherIsJobFeed` goes through the actions: a callback enters or changes one
ad or leaves the table alone, a turn of the first loop announces an ad, a turn of
the second makes it leave, with its message or without one if there is no
receiver. That a cluster leaves after its jobs, that the job is in the table, and
that `Content` is what `JobFeed` calls the contents all rest on `IInv`.

`KeepAliveInv`: in a round, `TurnInv` says, the keys that have had a turn, those
still to come and the destroyed ones are kept apart, so that no key has two turns;
`TimeInv` counts at most four failed attempts for each key in `spent`, and five
seconds for each. `Cardinality` of the keys then bounds the time.

### Publisher and sink

`SinkAgreesWithDump` is about the moment at which sink closes and about what was
printed long before. `SinkInv` speaks of `sent`, what was printed followed by what is
on its way: `Fetch` moves a message from one part to the other and changes nothing of
it (`FetchResult`), so that only the publisher's steps matter.

* `WireInv`: `DONE` is the last thing in the queue, and nothing is after it.
* `FirstTurnInv`: with `--dump` no job has a message before its turn in the first
  loop, and each dirty key has one turn. A key whose send failed and whose connection
  is being opened again is the one exception; it has `Lost` already, and is not sent
  again.
* `OneMessageInv`: what `sent` says about a job that is not destroyed is `view`, its
  last message, in exactly one copy. That there is none before comes from
  `FirstTurnInv`; destroyed jobs may get two, one from each loop.
* `DumpedInv`: once `DONE` is sent, `dumped` and `view` agree and neither changes. This
  is where `DumpInv` of `MessageInv` enters: what was published is what `Dump`
  computes, because nothing changed in between.

`SinkWatchesMain` makes `IInv` and `MessageInv` available; `SinkAgreesWithTheDump` puts
the last two parts together at the moment when the queue is empty.

### Log and reader

`ScheddLogProofs` is about logs of any length. `Legal` says which record can follow
which others, and `WriterInv` that every file is `WellFormed`, that is, each of its
records is legal after those before it, and begins with its own sequence number. The
lemmas say what a legal record does to `Replay`, for instance that a `SetAttribute`
changes one attribute of one ad, that a prefix of a well-formed file is well-formed,
and that every snapshot is.

With these the parts of `ReaderInv` are:

* `PollInv`: the file is open where `Poll` reads it, and closed between polls;
* `SourceInv`: the file that the memory comes from is the one that is open, or an
  older one, and no probe that ended well has found a newer one;
* `PrefixInv`: all records before the next offset are in that file and can be read;
* `MemoryInv`: the memory is what they say (`Holds`), and what is marked for erasure was
  created by one of them, so that a key is not created again under a mark;
* `ErasedInv`: nothing is marked between polls, so that `Reset`, which leaves the marks
  alone, leaves nothing behind;
* `SizeInv`: what `fstat` and the last good probe have seen is still there: a file
  that nothing is wiped out of only grows, and another file has another number;
* `CoverInv`: either all that can be read has been read, or the file is longer than
  the size that the next probe compares with, so that it will be read. This holds as
  long as the entry compared is one of this file (`Compared`), which is the exception
  in `PollCovers`.

`MemoryIsPrefix` and `PollCovers` follow from it; neither is inductive. That a failed
load goes on from where it stopped, at a later poll and possibly after the schedd has
compressed the log, is what `SourceInv` and `SizeInv` are for.

`ShorterLogsAreForgotten` needs little of this, and no part of it that wiping out
destroys: an entry that looks like the first of a file is one (`SeqNumInv`), so
that the end of the file never compares equal to the entry that the probe looks
for (`ShorterIsReset`), and the reset leaves nothing of what was read
(`BulkLoadForgets`). It says nothing of what is read afterwards, which is nothing
until the log is longer. `ResetsHaveACause` adds `CauseInv`:
in a sound file the parser's two entries are the last two that were read
(`LastTwoInv`), so that the probe finds the one it looks for, and the file is no
shorter than it was (`LengthInv`).

### The daemon

Here main erases destroyed jobs key by key, so that `ErasedInv` does not hold between
steps; `ErasedByMain` takes its place: what the second loop has not come to yet is
marked, what it has come to is gone. `PlaceInv` says that main is in `Poll` when the
reader is, and `KnownInv` that `live` and `dead`, which limit the calls in
`JobQueuePublisher`, are what the records read say. `ReaderPollsAsAssumed` goes through
the steps of the reader: an entry that is read is a legal record after those before
it, so that its callback is one of `LoadNew`, `LoadDestroy`, `LoadSet` and `LoadDelete`
with its guard; all other steps of the reader are the start or end of a load, or
stutter.

`DaemonAssertHolds`: the assertion of `PublishJob` never fails in the daemon, if nothing
is wiped out. The prover cannot cite `PublishJobFindsJob` through the instance `Main`,
and the assertion says too little to be inductive: a key that is destroyed later, or
whose loop has not begun, has to be there as well. `QueuedInv`, a part of `DaemonInv`,
says that every ad of the log, every key marked for erasure whose turn is to come and
every dirty key has its element, that what a loop has left comes from its set
(`LoopInv`), and that no ad of the log has been destroyed (`live`, `dead`). The
callbacks keep it because they are those of a legal record (`LoadKeepsQueued`), and
the second loop because it erases the key whose turn it is, which nothing has made
dirty or alive since it was destroyed (`IterationKeepsQueued`).

### The text of a log

`EntriesAreWritten` is an invariant of every moment between two characters. To prove
that one more call of `readLogEntry` keeps it, one has to know what is in the file
behind the offset, and not only what has been read: `WrittenInv` says that each
record begun is there from where it begins, as far as the file goes (`At`: an
unfinished record is the beginning of its text), that records do not overlap, and
that all but the last are whole. `BeginKeepsWritten` and `WriteKeepsWritten` are the
writer's steps.

Reading is proved from the inside out. `WordRead` and `LineRead` say what `readword` and
`readline` make of a word or a line that stands at a position, whole or cut off:
cut off it is no word, and whole it is that word and ends behind its delimiter.
`WordStep` and `LineStep` read one field more of a record (`ReadTo`: the first `i`
fields were read, or the file ends within them), `BodyRead` puts the fields together
and `EntryRead` adds the header: an entry comes out if and only if all of the record
is there, its op is known and its value is not empty, it is the record, and the next offset is where
the record ends. `AtoiOfHeader` is the way from the op code to digits and back.

For `ReadsAsRecords` the error of a bad body matters as well: whether `Recovery` finds
an `EndTransaction`. It looks at lines, and nothing in `EntriesAreWritten` says that a
line of the file is a record. `WrittenInv` says so: a newline in the file is the end of
a record (`TextNewline`: a record has one, at its end), so that the lines behind a
record without a value are the records behind it (`LineStarts`, `LineBehind`), the op
that `sscanf` finds in each is that of the record (`RecordLine`), and the search ends as
that of `ClassAdLogParser` does (`RecoveryIs`). A record that is cut off is the last one,
and after it the search is at the end of the file at once (`RecoveryAtEnd`). `Reading`
puts both readers next to each other.

No induction over the text is needed because no definition in `LogRecord` recurs: a loop
that reads up to a character is the least index with that character, and `MinIs`, from
the well-foundedness of the natural numbers, is all that is used of it.

### Only model-checked

* `DirtyDrains`, `SinkReleased`, `CatchesUpIfOpen`, `WipedOutReloads`: liveness
  under fairness, for which `ENABLED` would have to be reasoned about.
* That the four findings are reachable: a theorem can only say that something is not.

Every invariant and every action property of the runs that find no violation is a
theorem.

## Not modelled

* The command line and its errors, `--daemon`, the log output, SIGHUP (its handler
  changes nothing), the caseless comparison of triggers, key buffers and `sscanf`.
* The file with the master's address, which is read once, and `sendto`, whose
  result nothing looks at.
* Acknowledgements, and a sink that is started again.
* `LogRecord::Read`, `ReadLogEntry`, the `getXxxBody` copies and the file descriptor
  accessors of the parser: nothing calls them.
* NUL characters in a log, and an offset within a record after a transaction has
  been wiped out and something of another length written in its place.
* Tests, measurements, build files: no part of the daemon.

## Plan

What could be added: `LogRecord::Read` and the `getXxxBody` copies once
something calls them; what remains true of the memory when a transaction is wiped out
(that every ad in it was in some file, for one); and a log with NUL characters, whose
recovery ends the daemon.
