---------------------------- MODULE DaemonProofs ----------------------------
(***************************************************************************)
(* Proofs about Daemon: the polls that the reader makes are among those    *)
(* that JobQueuePublisher allows, where no records are wiped out.          *)
(***************************************************************************)
EXTENDS Daemon, ClassAdLogReaderProofs

-----------------------------------------------------------------------------
(***************************************************************************)
(* What a step of the daemon is to the log, and where main is.             *)
(***************************************************************************)

\* A step of the daemon is one of the reader, of the schedd, or of neither.
LEMMA DaemonStepIsLogStep ==
  ASSUME [DaemonNext]_daemon
  PROVE  LogStep /\ UNCHANGED config
<1>1. CASE PollStep
  BY <1>1 DEF PollStep, Probe, Load, LogStep, OpenFile, BulkLoad, StartIncrementalLoad, NoChange,
    ProbeFatal, Probed, LoadEntry, EndLoad, Reading, LoadDangling, PollReturns, PollFails, vars
<1>2. CASE MainStep
  BY <1>2 DEF MainStep, LogStep, Main!Publish, Main!EndDirty, Main!EndDelete, Main!MessageSent,
    Main!SendFails, Main!SkipPublish, Main!OpenSucceeds, Main!OpenFails, Main!ConnectionLost, Main!Wake
<1>3. CASE Main!Running /\ WriterStep /\ UNCHANGED <<config, queue, reader, pc, loop, log_facts, outside>>
  BY <1>3 DEF LogStep
<1>4. CASE Main!Terminated /\ UNCHANGED <<writer, reader>>
  BY <1>4 DEF LogStep, Main!Terminated, Main!vars
<1>5. CASE UNCHANGED daemon
  BY <1>5 DEF LogStep, daemon, vars
<1> QED
  BY <1>1, <1>2, <1>3, <1>4, <1>5 DEF DaemonNext

\* What JobQueuePublisher says of its memory is what JobQueue says.
LEMMA MainHasTheQueue ==
  /\ Main!Reset <=> Reset
  /\ \A k \in Keys : Main!NewClassAd(k) <=> NewClassAd(k)
  /\ \A k \in Keys : Main!DestroyClassAd(k) <=> DestroyClassAd(k)
  /\ \A k \in Keys, n \in Names : Main!DeleteAttribute(k, n) <=> DeleteAttribute(k, n)
  /\ \A k \in Keys, n \in Names, v \in Values : Main!SetAttribute(k, n, v) <=> SetAttribute(k, n, v)
  /\ Main!queue = queue /\ Main!Keys = Keys
BY DEF Main!Reset, Reset, Main!queue, queue, Main!Keys, Keys,
  Main!NewClassAd, NewClassAd, Main!NewClusterAd, NewClusterAd, Main!NewJobAd, NewJobAd,
  Main!AssignJob, AssignJob, Main!Known, Known, Main!NoAttrs, NoAttrs,
  Main!DestroyClassAd, DestroyClassAd, Main!DeleteAttribute, DeleteAttribute,
  Main!SetAttribute, SetAttribute, Main!IsTrigger, IsTrigger

\* Main is where Poll is.
LEMMA PlaceStep ==
  ASSUME LogInv, PlaceInv, [DaemonNext]_daemon
  PROVE  PlaceInv'
<1>1. ASSUME PollStep PROVE PlaceInv'
  <2>1. CASE Probe
    <3>1. BulkLoad \/ StartIncrementalLoad \/ NoChange \/ ProbeFatal
      BY <2>1 DEF Probe
    <3>2. rpc' \in {"load", "loaded", "aborted", "exited"}
      BY <3>1, AfterProbeResult
    <3> QED
      BY <2>1, <3>2 DEF Probe, After, PlaceInv
  <2>2. CASE Load
    <3>1. rpc = "load" /\ rpc' \in {"load", "failed"} /\ pc' = pc
      BY <2>2, LoadEntryResult DEF Load
    <3> QED
      BY <3>1 DEF PlaceInv
  <2>3. CASE OpenFile /\ UNCHANGED <<pc, loop, log_facts>>
    BY <1>1, <2>3 DEF PollStep, OpenFile, PlaceInv
  <2>4. CASE (EndLoad \/ LoadDangling) /\ After(pc)
    <3>1. rpc = "load" /\ rpc' \in {"loaded", "failed", "aborted"}
      BY <2>4, EndLoadResult DEF LoadDangling
    <3> QED
      BY <2>4, <3>1 DEF After, PlaceInv
  <2>5. CASE (PollReturns \/ PollFails) /\ Main!StartPublishing
    <3>1. rpc' = "idle" /\ pc' = "publish"
      BY <2>5 DEF PollReturns, PollFails, vars, reader, Main!StartPublishing
    <3> QED
      BY <3>1 DEF PlaceInv
  <2> QED
    BY <1>1, <2>1, <2>2, <2>3, <2>4, <2>5 DEF PollStep
<1>2. ASSUME MainStep PROVE PlaceInv'
  <2>1. rpc' = rpc
    BY <1>2 DEF MainStep, reader
  <2>2. \/ pc \notin {"load", "exited", "aborted"} /\ pc' # "load" /\ (pc = "poll" => pc' = "poll")
        \/ pc' = pc
    BY <1>2 DEF MainStep, Main!Publish, Main!EndDirty, Main!EndDelete, Main!MessageSent,
      Main!SendFails, Main!SkipPublish, Main!OpenSucceeds, Main!OpenFails, Main!ConnectionLost, Main!Wake
  <2> QED
    BY <2>1, <2>2 DEF PlaceInv
<1>3. CASE UNCHANGED <<rpc, pc>>
  BY <1>3 DEF PlaceInv
<1> QED
  BY <1>1, <1>2, <1>3 DEF DaemonNext, reader, daemon, vars, Main!Terminated, Main!vars

\* An ad is destroyed only after it was created.
LEMMA DestroyedIsCreated ==
  ASSUME NEW s, WellFormed(s), NEW k, Destroyed(k, s)
  PROVE  Created(k, s)
<1>1. PICK i \in 1..Len(s) : s[i].op = "DestroyClassAd" /\ s[i].key = k
  BY DEF Destroyed
<1>2. s \in Seq(Record) /\ Len(s) \in Nat /\ Alive(k, Before(s, i))
  BY <1>1, LenProperties DEF WellFormed, Legal
<1>3. i - 1 \in 0..Len(s) /\ Before(s, i) = SubSeq(s, 1, i - 1)
  BY <1>2 DEF Before
<1>4. /\ Len(Before(s, i)) = i - 1
      /\ \A m \in 1..i - 1 : Before(s, i)[m] = s[m]
  BY <1>2, <1>3, Prefix
<1>5. PICK m \in 1..i - 1 : Before(s, i)[m].op = "NewClassAd" /\ Before(s, i)[m].key = k
  BY <1>2, <1>4, AliveIsCreated DEF Created
<1>6. m \in 1..Len(s) /\ s[m].op = "NewClassAd" /\ s[m].key = k
  BY <1>2, <1>4, <1>5
<1> QED
  BY <1>6 DEF Created

-----------------------------------------------------------------------------
(***************************************************************************)
(* What main is told of the log, where no records are wiped out.           *)
(***************************************************************************)

\* It stays what the records read say as long as none is read and the memory is kept.
LEMMA KnownStays ==
  ASSUME LogInv, SourceInv, PrefixInv, KnownInv, LogStep, "backtrack" \notin Faults,
         UNCHANGED log_facts,
         parser'.nextOffset = parser.nextOffset, source' = source \/ source = 0
  PROVE  KnownInv'
<1> SUFFICES ASSUME (source = 0 \/ There(source))'
             PROVE  /\ live' = {k \in Keys : Alive(k, ReadSoFar')}
                    /\ dead' = {k \in Keys : Destroyed(k, ReadSoFar')}
  BY DEF KnownInv
<1>1. (source = 0 \/ There(source)) /\ ReadSoFar' = ReadSoFar
  BY ReadStays
<1> QED
  BY <1>1 DEF KnownInv, log_facts

\* A bulk load begins with nothing known.
LEMMA KnownBulkLoad ==
  ASSUME LogInv, SourceInv, PrefixInv, BulkLoad, live' = {}, dead' = {}, "backtrack" \notin Faults
  PROVE  KnownInv'
<1>1. parser'.nextOffset = 0
  BY AfterProbeResult
<1>2. LogInv' /\ SourceInv' /\ PrefixInv'
  BY LogStepKeepsLogInv, SourceStep, PrefixStep DEF LogStep
<1>3. source' = 0 \/ There(source)' => ReadSoFar' = <<>>
  <2>1. source' # 0 => files'[source'] \in Seq(Record)
    <3>1. files' \in [1..MaxGen -> Seq(Record)] /\ source' \in 0..MaxGen /\ MaxGen \in Nat
      BY <1>2, LogInvFacts DEF LogInv, LogTypeOK
    <3> QED
      BY <3>1
  <2>2. \A f \in Seq(Record) : SubSeq(f, 1, 0) = <<>>
    BY LenProperties, Prefix, EmptySeq
  <2> QED
    BY <1>1, <2>1, <2>2 DEF ReadSoFar
<1>4. \A k \in Keys : ~Alive(k, <<>>) /\ ~Destroyed(k, <<>>)
  BY EmptySeq DEF Alive, Destroyed
<1> QED
  BY <1>3, <1>4 DEF KnownInv

\* The call that the reader makes of an entry is one that JobQueuePublisher allows, and
\* tells main what the record says.
LEMMA LoadIsMainStep ==
  ASSUME LogInv, SourceInv, PrefixInv, PlaceInv, KnownInv, Load, UNCHANGED <<loop, outside>>
  PROVE  [Main!Next]_(Main!vars) /\ KnownInv'
<1>1. LoadEntry /\ pc' = pc
  BY DEF Load
<1>2. PICK rec :
        /\ Legal(rec, ReadSoFar) /\ ~Unreadable(rec)
        /\ parser'.cur = Entry(rec, parser.nextOffset)
        /\ ReadSoFar' = Append(ReadSoFar, rec)
        /\ There(source) /\ source = fp
  BY <1>1, ReadGrows
<1>3. /\ rpc = "load" /\ pc = "load" /\ parser.nextOffset \in Nat /\ UNCHANGED config
      /\ ProcessLogEntry(parser'.cur)
  BY <1>1, LoadEntryResult, LogInvFacts DEF PlaceInv
<1>4. PICK e, s, k : e = parser'.cur /\ s = ReadSoFar /\ k = rec.key
  OBVIOUS
<1>5. /\ s \in Seq(Record) /\ WellFormed(s) /\ Legal(rec, s) /\ rec \in Record /\ rec.ok
      /\ e.op = rec.op /\ e.key = k /\ e.name = rec.name /\ e.value = rec.value
      /\ e.op \in AdOps => k \in Keys
      /\ e.op = "SetAttribute" => e.name \in Names /\ e.value \in Values
      /\ e.op = "DeleteAttribute" => e.name \in Names
      /\ e.op \in KnownOps
  <2>1. PICK n : n = parser.nextOffset
    OBVIOUS
  <2>2. Legal(rec, s) /\ n \in Nat /\ e = Entry(rec, n)
    BY <1>2, <1>3, <1>4, <2>1
  <2>3. s \in Seq(Record) /\ WellFormed(s)
    BY <1>2, <1>4, ReadSoFarResult
  <2>4. /\ e.op = rec.op /\ e.key = k /\ e.name = rec.name /\ e.value = rec.value
        /\ e.op \in AdOps => k \in Keys
        /\ e.op = "SetAttribute" => e.name \in Names /\ e.value \in Values
        /\ e.op = "DeleteAttribute" => e.name \in Names
    BY <1>4, <2>2, EntryResult
  <2>5. rec \in Record /\ rec.ok /\ rec.op \in KnownOps
    BY <1>2, <2>2 DEF Legal, Unreadable, Record
  <2> QED
    BY <2>2, <2>3, <2>4, <2>5
<1>6. /\ live = {l \in Keys : Alive(l, s)}
      /\ dead = {l \in Keys : Destroyed(l, s)}
  BY <1>2, <1>4 DEF KnownInv
<1>7. /\ live' = CASE e.op = "NewClassAd" -> live \cup {k}
                   [] e.op = "DestroyClassAd" -> live \ {k}
                   [] OTHER -> live
      /\ dead' = IF e.op = "DestroyClassAd" THEN dead \cup {k} ELSE dead
  BY <1>4, <1>5 DEF Load
<1>8. KnownInv'
  <2>1. \A l \in Keys : /\ Alive(l, Append(s, rec)) <=>
                             \/ Tells(rec, "NewClassAd", l)
                             \/ Alive(l, s) /\ ~Tells(rec, "DestroyClassAd", l)
                        /\ Destroyed(l, Append(s, rec)) <=>
                             Destroyed(l, s) \/ (rec.op = "DestroyClassAd" /\ rec.key = l)
    BY <1>5, AliveAppend, CreatedAppend
  <2>2. rec.op \in {"NewClassAd", "DestroyClassAd"} => k \in Keys
    BY <1>5 DEF AdOps
  <2>3. live' = {l \in Keys : Alive(l, Append(s, rec))}
    BY <1>4, <1>5, <1>6, <1>7, <2>1, <2>2 DEF Tells
  <2>4. dead' = {l \in Keys : Destroyed(l, Append(s, rec))}
    BY <1>4, <1>5, <1>6, <1>7, <2>1, <2>2
  <2> QED
    BY <1>2, <1>4, <2>3, <2>4 DEF KnownInv
<1>9. [Main!Next]_(Main!vars)
  <2>0. UNCHANGED <<config, pc, phase, todo>> /\ UNCHANGED Main!broker /\ UNCHANGED Main!signals
        /\ ProcessLogEntry(e)
    BY <1>1, <1>3, <1>4 DEF loop, outside, Main!broker, Main!signals
  <2>1. CASE e.op = "NewClassAd"
    <3>1. k \in Keys /\ ~Created(k, s) /\ (k \in Jobs => ~Destroyed(ClusterOf[k], s))
      BY <1>4, <1>5, <2>1 DEF Legal
    <3>2. Main!Creatable(k)
      BY <1>5, <1>6, <3>1, AliveIsCreated, DestroyedIsCreated DEF Main!Creatable
    <3>3. NewClassAd(k)
      BY <1>5, <2>0, <2>1 DEF ProcessLogEntry, AdOps
    <3>4. Main!LoadNew(k)
      BY <1>3, <1>7, <2>0, <2>1, <3>1, <3>2, <3>3, MainHasTheQueue DEF Main!LoadNew
    <3> QED
      BY <3>1, <3>4, MainHasTheQueue DEF Main!Next, Main!Poll
  <2>2. CASE e.op = "DestroyClassAd"
    <3>1. k \in Keys /\ Alive(k, s) /\ \A j \in Jobs : Alive(j, s) => ClusterOf[j] # k
      BY <1>4, <1>5, <2>2 DEF Legal
    <3>2. Main!Destroyable(k)
      BY <1>6, <3>1 DEF Main!Destroyable
    <3>3. DestroyClassAd(k)
      BY <1>5, <2>0, <2>2 DEF ProcessLogEntry, AdOps
    <3>4. Main!LoadDestroy(k)
      BY <1>3, <1>7, <2>0, <2>2, <3>1, <3>2, <3>3, MainHasTheQueue DEF Main!LoadDestroy
    <3> QED
      BY <3>1, <3>4, MainHasTheQueue DEF Main!Next, Main!Poll
  <2>3. CASE e.op = "SetAttribute"
    <3>1. k \in Keys /\ Alive(k, s) /\ e.name \in Names /\ e.value \in Values
      BY <1>4, <1>5, <2>3 DEF Legal
    <3>2. SetAttribute(k, e.name, e.value)
      BY <1>5, <2>0, <2>3 DEF ProcessLogEntry, AdOps
    <3>3. Main!LoadSet(k, e.name, e.value)
      BY <1>3, <1>6, <1>7, <2>0, <2>3, <3>1, <3>2, MainHasTheQueue DEF Main!LoadSet, Main!source
    <3> QED
      BY <3>1, <3>3, MainHasTheQueue DEF Main!Next, Main!Poll
  <2>4. CASE e.op = "DeleteAttribute"
    <3>1. k \in Keys /\ Alive(k, s) /\ e.name \in Names
      BY <1>4, <1>5, <2>4 DEF Legal
    <3>2. DeleteAttribute(k, e.name)
      BY <1>5, <2>0, <2>4 DEF ProcessLogEntry, AdOps
    <3>3. Main!LoadDelete(k, e.name)
      BY <1>3, <1>6, <1>7, <2>0, <2>4, <3>1, <3>2, MainHasTheQueue DEF Main!LoadDelete, Main!source
    <3> QED
      BY <3>1, <3>3, MainHasTheQueue DEF Main!Next, Main!Poll
  <2>5. CASE e.op \notin AdOps
    <3>1. UNCHANGED queue /\ live' = live /\ dead' = dead
      BY <1>7, <2>0, <2>5 DEF ProcessLogEntry, AdOps
    <3> QED
      BY <2>0, <3>1 DEF Main!vars, Main!source, Main!queue, queue
  <2> QED
    BY <2>1, <2>2, <2>3, <2>4, <2>5 DEF AdOps
<1> QED
  BY <1>8, <1>9

\* The result of a probe is one of the polls of JobQueuePublisher, or the daemon's end.
LEMMA ProbeIsMainStep ==
  ASSUME LogInv, SourceInv, PrefixInv, PlaceInv, KnownInv, Probe, UNCHANGED <<loop, outside>>,
         "backtrack" \notin Faults
  PROVE  [Main!Next]_(Main!vars) /\ KnownInv'
<1>1. rpc = "probe" /\ pc = "poll"
  BY DEF Probe, BulkLoad, StartIncrementalLoad, NoChange, ProbeFatal, Probed, PlaceInv
<1>2. UNCHANGED <<config, phase, todo>> /\ UNCHANGED Main!broker /\ UNCHANGED Main!signals
  BY AfterProbeResult DEF Probe, loop, outside, Main!broker, Main!signals
<1>3. CASE BulkLoad /\ live' = {} /\ dead' = {}
  <2>1. Reset /\ rpc' = "load" /\ pc' = "load"
    BY <1>3, AfterProbeResult DEF Probe, After
  <2>2. Main!BulkLoad
    BY <1>1, <1>2, <1>3, <2>1, MainHasTheQueue DEF Main!BulkLoad
  <2> QED
    BY <1>3, <2>2, KnownBulkLoad DEF Main!Next, Main!Poll
<1>4. CASE ~BulkLoad /\ (StartIncrementalLoad \/ NoChange \/ ProbeFatal) /\ UNCHANGED log_facts
  <2>1. /\ UNCHANGED queue /\ UNCHANGED parser /\ (source' = source \/ source = 0)
        /\ rpc' \in {"load", "loaded", "aborted", "exited"}
    BY <1>4, AfterProbeResult
  <2>2. KnownInv'
    BY <1>4, <2>1, KnownStays DEF LogStep
  <2>3. /\ pc' = IF rpc' \in {"aborted", "exited"} THEN rpc' ELSE "load"
        /\ UNCHANGED Main!queue /\ UNCHANGED Main!source
    BY <1>4, <2>1 DEF Probe, After, Main!queue, queue, Main!source, log_facts
  <2>4. Main!IncrementalLoad \/ Main!PollError \/ Main!LoadAborts
    BY <1>1, <1>2, <2>1, <2>3 DEF Main!IncrementalLoad, Main!PollError, Main!LoadAborts
  <2> QED
    BY <2>2, <2>4 DEF Main!Next, Main!Poll
<1>5. StartIncrementalLoad \/ NoChange \/ ProbeFatal => ~BulkLoad
  <2>1. ASSUME BulkLoad PROVE probe(prober, stream, parser.last) \in {"INIT_QUILL", "COMPRESSED", "PROBE_ERROR"}
    BY <2>1 DEF BulkLoad, Probed
  <2>2. ASSUME StartIncrementalLoad \/ NoChange \/ ProbeFatal
        PROVE  probe(prober, stream, parser.last) \in {"ADDITION", "NO_CHANGE", "PROBE_FATAL_ERROR"}
    BY <2>2 DEF StartIncrementalLoad, NoChange, ProbeFatal, Probed
  <2> QED
    BY <2>1, <2>2
<1> QED
  BY <1>3, <1>4, <1>5 DEF Probe

\* Every step of the daemon is one that JobQueuePublisher allows, or changes nothing in it.
LEMMA DaemonStepIsMainStep ==
  ASSUME LogInv, SourceInv, PrefixInv, PlaceInv, KnownInv, [DaemonNext]_daemon,
         "backtrack" \notin Faults
  PROVE  [Main!Next]_(Main!vars) /\ KnownInv'
<1>0. LogStep /\ UNCHANGED config
  BY DaemonStepIsLogStep
<1>1. ASSUME PollStep PROVE [Main!Next]_(Main!vars) /\ KnownInv'
  <2>1. UNCHANGED outside /\ UNCHANGED Main!broker /\ UNCHANGED Main!signals
    BY <1>1 DEF PollStep, outside, Main!broker, Main!signals
  <2>2. CASE Probe /\ UNCHANGED loop
    BY <2>1, <2>2, ProbeIsMainStep
  <2>3. CASE Load /\ UNCHANGED loop
    BY <2>1, <2>3, LoadIsMainStep
  <2>4. CASE OpenFile /\ UNCHANGED <<pc, loop, log_facts>>
    <3>1. UNCHANGED queue /\ UNCHANGED parser /\ UNCHANGED source
      BY <2>4 DEF OpenFile
    <3>2. UNCHANGED Main!vars
      BY <1>0, <2>1, <2>4, <3>1 DEF Main!vars, Main!queue, queue, Main!source, log_facts, loop
    <3> QED
      BY <1>0, <2>4, <3>1, <3>2, KnownStays
  <2>5. CASE (EndLoad \/ LoadDangling) /\ After(pc) /\ UNCHANGED <<loop, log_facts>>
    <3>1. /\ rpc = "load" /\ rpc' \in {"loaded", "failed", "aborted"} /\ UNCHANGED queue
          /\ parser'.nextOffset = parser.nextOffset /\ source' = source
      BY <2>5, EndLoadResult DEF LoadDangling
    <3>2. pc = "load" /\ pc' = IF rpc' = "aborted" THEN "aborted" ELSE pc
      BY <2>5, <3>1 DEF After, PlaceInv
    <3>3. UNCHANGED Main!queue /\ UNCHANGED Main!source /\ UNCHANGED <<phase, todo>>
      BY <2>5, <3>1 DEF Main!queue, queue, Main!source, log_facts, loop
    <3>4. Main!LoadAborts \/ UNCHANGED Main!vars
      BY <1>0, <2>1, <3>2, <3>3 DEF Main!LoadAborts, Main!vars
    <3> QED
      BY <1>0, <2>5, <3>1, <3>4, KnownStays DEF Main!Next, Main!Poll
  <2>6. CASE (PollReturns \/ PollFails) /\ UNCHANGED <<queue, log_facts>> /\ Main!StartPublishing
    <3>1. UNCHANGED parser /\ UNCHANGED source
      BY <2>6 DEF PollReturns, PollFails, vars, reader
    <3>2. UNCHANGED Main!queue /\ UNCHANGED Main!source
      BY <2>6 DEF Main!queue, queue, Main!source, log_facts
    <3>3. PollReturns => pc = "load"
      BY DEF PollReturns, PlaceInv
    <3>4. PollFails => pc = "poll"
      BY <1>1 DEF PollFails, PlaceInv, PollStep
    <3>5. Main!EndLoad \/ Main!PollFails
      BY <1>0, <2>1, <2>6, <3>2, <3>3, <3>4 DEF Main!EndLoad, Main!PollFails
    <3> QED
      BY <1>0, <2>6, <3>1, <3>5, KnownStays DEF Main!Next, Main!Poll
  <2> QED
    BY <1>1, <2>2, <2>3, <2>4, <2>5, <2>6 DEF PollStep
<1>2. CASE MainStep
  <2>1. Main!Next
    BY <1>2 DEF MainStep, Main!Next
  <2>2. UNCHANGED log_facts
    BY <1>2 DEF MainStep, log_facts, Main!source, Main!Publish, Main!EndDirty, Main!EndDelete, Main!MessageSent,
      Main!SendFails, Main!SkipPublish, Main!OpenSucceeds, Main!OpenFails, Main!ConnectionLost, Main!Wake
  <2>3. UNCHANGED parser /\ UNCHANGED source
    BY <1>2 DEF MainStep, reader
  <2> QED
    BY <1>0, <2>1, <2>2, <2>3, KnownStays
<1>3. ASSUME UNCHANGED <<config, queue, pc, loop, log_facts, outside>>,
             UNCHANGED parser, UNCHANGED source
      PROVE  [Main!Next]_(Main!vars) /\ KnownInv'
  <2>1. UNCHANGED Main!vars
    BY <1>3 DEF Main!vars, Main!queue, queue, Main!source, log_facts, loop, outside, Main!broker, Main!signals
  <2> QED
    BY <1>0, <1>3, <2>1, KnownStays
<1>4. CASE Main!Running /\ WriterStep /\ UNCHANGED <<config, queue, reader, pc, loop, log_facts, outside>>
  BY <1>3, <1>4 DEF reader
<1>5. CASE Main!Terminated /\ UNCHANGED <<writer, reader>>
  BY <1>3, <1>5 DEF reader, Main!Terminated, Main!vars, Main!queue, queue, Main!source, log_facts, loop, outside,
    Main!broker, Main!signals
<1>6. CASE UNCHANGED daemon
  BY <1>3, <1>6 DEF daemon, vars, reader
<1> QED
  BY <1>1, <1>2, <1>4, <1>5, <1>6 DEF DaemonNext

\* The initial state.
LEMMA DaemonInitInv ==
  ASSUME DaemonInit
  PROVE  /\ QueueTypeOK /\ LogInv /\ SourceInv /\ PrefixInv /\ MemoryInv /\ SizeInv /\ CoverInv
         /\ PlaceInv /\ KnownInv /\ ErasedByMain /\ QueuedInv
<1>1. /\ LogInv /\ source = 0 /\ fp = 0 /\ gen = 0 /\ gen \in Nat /\ rpc = "idle"
      /\ parser = Parser0 /\ prober = Prober0
  BY InitIsLogInv DEF DaemonInit, ReaderInit, WriterInit
<1>2. /\ Main!Init /\ live = {} /\ dead = {} /\ todo = {} /\ phase = "dirty" /\ pc \in {"connect", "poll"}
      /\ g_delete_jobs = {} /\ g_dirty_jobs = {} /\ g_jobs = [k \in Keys |-> Null] /\ config \in Config
  BY DEF DaemonInit, Main!Init, Main!QueueInit, Main!Keys, Keys, Main!Config, Config
<1>3. SourceInv
  BY <1>1, Parser0Result DEF SourceInv, Prober0
<1>4. PrefixInv /\ SizeInv /\ CoverInv
  BY <1>1, <1>3 DEF PrefixInv, SizeInv, CoverInv, Compared, There, Prober0
<1>5. ReadSoFar = <<>>
  BY <1>1 DEF ReadSoFar
<1>6. MemoryInv
  BY <1>2, <1>5, ReplayNothing DEF MemoryInv, Holds, Known
<1>7. KnownInv
  <2>1. \A k \in Keys : ~Alive(k, <<>>) /\ ~Destroyed(k, <<>>)
    BY EmptySeq DEF Alive, Destroyed
  <2> QED
    BY <1>2, <1>5, <2>1 DEF KnownInv
<1>8. PlaceInv /\ ErasedByMain
  BY <1>1, <1>2 DEF PlaceInv, ErasedByMain
<1>9. QueueTypeOK
  BY <1>2 DEF QueueTypeOK, Job
<1>10. QueuedInv
  BY <1>2 DEF QueuedInv, Main!LoopInv, Main!Doomed, Main!Publishing
<1> QED
  BY <1>1, <1>3, <1>4, <1>6, <1>7, <1>8, <1>9, <1>10

\* The polls of the reader are among those that JobQueuePublisher allows.
THEOREM ReaderPollsAsAssumed == ASSUME "backtrack" \notin Faults PROVE DaemonSpec => PollsAsAssumed
<1> DEFINE Inv == LogInv /\ SourceInv /\ PrefixInv /\ PlaceInv /\ KnownInv
<1>1. DaemonInit => Inv /\ Main!Init
  BY DaemonInitInv DEF DaemonInit
<1>2. Inv /\ [DaemonNext]_daemon => Inv'
  BY DaemonStepIsLogStep, LogStepKeepsLogInv, SourceStep, PrefixStep, PlaceStep, DaemonStepIsMainStep
<1>3. Inv /\ [DaemonNext]_daemon => [Main!Next]_(Main!vars)
  BY DaemonStepIsMainStep
<1> QED
  BY <1>1, <1>2, <1>3, PTL DEF DaemonSpec, PollsAsAssumed, Main!Spec

-----------------------------------------------------------------------------
(***************************************************************************)
(* The memory, with a main that erases what is destroyed one key at a      *)
(* time, between polls.                                                    *)
(***************************************************************************)

\* A step of the main loop outside Poll: the end of an iteration, the end of the second
\* loop, or one that leaves the destroyed jobs alone.
LEMMA MainStepCases ==
  ASSUME MainStep
  PROVE  /\ UNCHANGED <<config, live, dead>> /\ UNCHANGED writer /\ UNCHANGED reader
         /\ \/ Main!EndDirty
            \/ Main!EndDelete
            \/ /\ Main!Publishing /\ pc' = "publish" /\ phase' = phase
               /\ \E k \in Keys : Main!Current(k) /\ Main!FinishIteration(k)
            \/ /\ UNCHANGED queue /\ UNCHANGED <<phase, todo>>
               /\ \/ pc' = pc
                  \/ pc = "publish" /\ pc' = "reconnect"
                  \/ pc \in {"connect", "sleep"} /\ pc' \in {"poll", "leave"}
                  \/ pc' = "exited"
BY DEF MainStep, Main!Publish, Main!EndDirty, Main!EndDelete, Main!MessageSent, Main!SendFails,
  Main!SkipPublish, Main!OpenSucceeds, Main!OpenFails, Main!ConnectionLost, Main!Wake, Main!Publishing,
  Main!source, Main!queue, queue, Main!Keys, Keys

\* An element is erased only if it was destroyed, and the set of what was destroyed is
\* emptied only when all of it is erased.
LEMMA MainStepErases ==
  ASSUME QueueTypeOK, ErasedByMain, MainStep
  PROVE  /\ QueueTypeOK' /\ ErasedByMain'
         /\ \A k \in Keys : g_jobs'[k] = g_jobs[k] \/ (k \in g_delete_jobs /\ ~Known(k)')
         /\ \A k \in Keys : k \in g_delete_jobs' => k \in g_delete_jobs
         /\ \A k \in Keys : k \in g_delete_jobs /\ k \notin g_delete_jobs' => ~Known(k)'
<1> USE DEF QueueTypeOK, ErasedByMain, Main!Publishing, Main!Running, Main!Final, Known
<1>0. UNCHANGED config
  BY MainStepCases
<1>1. CASE Main!EndDirty
  BY <1>0, <1>1 DEF Main!EndDirty
<1>2. CASE Main!EndDelete
  BY <1>0, <1>2 DEF Main!EndDelete
<1>3. CASE /\ Main!Publishing /\ pc' = "publish" /\ phase' = phase
           /\ \E k \in Keys : Main!Current(k) /\ Main!FinishIteration(k)
  <2>1. PICK k \in Keys : Main!Current(k) /\ Main!FinishIteration(k)
    BY <1>3
  <2>2. /\ k \in todo /\ todo' = todo \ {k}
        /\ g_jobs' = IF phase = "delete" THEN [g_jobs EXCEPT ![k] = Null] ELSE g_jobs
        /\ g_dirty_jobs' = g_dirty_jobs /\ g_delete_jobs' = g_delete_jobs
    BY <2>1 DEF Main!Current, Main!FinishIteration
  <2>3. CASE phase = "delete"
    <3>1. k \in g_delete_jobs /\ g_jobs' = [g_jobs EXCEPT ![k] = Null]
      BY <1>3, <2>2, <2>3
    <3> QED
      BY <1>0, <1>3, <2>2, <2>3, <3>1
  <2>4. CASE phase # "delete"
    BY <1>0, <1>3, <2>2, <2>4
  <2> QED
    BY <2>3, <2>4
<1>4. CASE /\ UNCHANGED queue /\ UNCHANGED <<phase, todo>>
           /\ \/ pc' = pc
              \/ pc = "publish" /\ pc' = "reconnect"
              \/ pc \in {"connect", "sleep"} /\ pc' \in {"poll", "leave"}
              \/ pc' = "exited"
  BY <1>0, <1>4 DEF queue
<1> QED
  BY <1>1, <1>2, <1>3, <1>4, MainStepCases

\* Erasing what was destroyed leaves the memory what was read.
LEMMA MemoryErases ==
  ASSUME QueueTypeOK, MemoryInv, UNCHANGED writer, UNCHANGED reader,
         \A k \in Keys : g_jobs'[k] = g_jobs[k] \/ (k \in g_delete_jobs /\ ~Known(k)'),
         \A k \in Keys : k \in g_delete_jobs' => k \in g_delete_jobs,
         \A k \in Keys : k \in g_delete_jobs /\ k \notin g_delete_jobs' => ~Known(k)',
         g_delete_jobs' \subseteq Keys
  PROVE  MemoryInv'
<1>1. ReadSoFar' = ReadSoFar /\ ((source = 0 \/ There(source))' <=> (source = 0 \/ There(source)))
  BY DEF ReadSoFar, There, writer, reader
<1> SUFFICES ASSUME source = 0 \/ There(source)
             PROVE  /\ Holds(Replay(ReadSoFar), ReadSoFar)'
                    /\ \A k \in g_delete_jobs' : Created(k, ReadSoFar')
  BY <1>1 DEF MemoryInv
<1>2. PICK s : s = ReadSoFar
  OBVIOUS
<1>3. Holds(Replay(s), s) /\ \A k \in g_delete_jobs : Created(k, s)
  BY <1>2 DEF MemoryInv
<1>4. Holds(Replay(s), s)'
  <2> SUFFICES ASSUME NEW k \in Keys
               PROVE  \/ /\ Replay(s)[k] # Null
                         /\ Known(k)'
                         /\ k \notin g_delete_jobs'
                         /\ g_jobs'[k].attrs = Replay(s)[k]
                      \/ /\ Replay(s)[k] = Null
                         /\ \/ ~Known(k)'
                            \/ k \in g_delete_jobs'
                            \/ /\ g_jobs'[k].attrs = NoAttrs
                               /\ \E j \in Jobs : ClusterOf[j] = k /\ Created(j, s)
    BY DEF Holds
  <2>1. \/ /\ Replay(s)[k] # Null
           /\ Known(k)
           /\ k \notin g_delete_jobs
           /\ g_jobs[k].attrs = Replay(s)[k]
        \/ /\ Replay(s)[k] = Null
           /\ \/ ~Known(k)
              \/ k \in g_delete_jobs
              \/ /\ g_jobs[k].attrs = NoAttrs
                 /\ \E j \in Jobs : ClusterOf[j] = k /\ Created(j, s)
    BY <1>3 DEF Holds
  <2>2. CASE k \in g_delete_jobs
    BY <2>1, <2>2
  <2>3. CASE k \notin g_delete_jobs
    <3>1. g_jobs'[k] = g_jobs[k] /\ k \notin g_delete_jobs'
      BY <2>3
    <3> QED
      BY <2>1, <2>3, <3>1 DEF Known
  <2> QED
    BY <2>2, <2>3
<1>5. \A k \in g_delete_jobs' : Created(k, s)
  BY <1>3
<1> QED
  BY <1>1, <1>2, <1>4, <1>5

\* A step within Poll leaves what is destroyed to the publishing loops.
LEMMA PollStepKeepsMemory ==
  ASSUME QueueTypeOK, LogInv, SourceInv, PrefixInv, MemoryInv, PlaceInv, ErasedByMain, PollStep,
         "backtrack" \notin Faults
  PROVE  QueueTypeOK' /\ MemoryInv' /\ ErasedByMain'
<1> USE DEF Main!Publishing, Main!Running, Main!Final
<1>0. LogStep /\ UNCHANGED config /\ pc \in {"poll", "load"}
  BY DaemonStepIsLogStep DEF DaemonNext, PollStep
<1>1. CASE Probe /\ UNCHANGED loop
  <2>1. rpc = "probe" /\ pc = "poll" /\ g_delete_jobs = {}
    BY <1>1 DEF Probe, BulkLoad, StartIncrementalLoad, NoChange, ProbeFatal, Probed, PlaceInv, ErasedByMain
  <2>2. pc' \in {"load", "exited", "aborted"} /\ todo' = todo
    BY <1>1 DEF Probe, After, loop
  <2>3. CASE BulkLoad
    <3>1. Reset
      BY <2>3, AfterProbeResult
    <3> QED
      BY <1>0, <2>1, <2>2, <2>3, <3>1, MemoryBulkLoad DEF Reset, QueueTypeOK, ErasedByMain
  <2>4. CASE ~BulkLoad
    <3>1. UNCHANGED queue /\ UNCHANGED parser /\ (source' = source \/ source = 0)
      BY <1>1, <2>4, AfterProbeResult DEF Probe
    <3> QED
      BY <1>0, <2>2, <3>1, MemoryStays DEF QueueTypeOK, ErasedByMain, queue
  <2> QED
    BY <2>3, <2>4
<1>2. CASE Load /\ UNCHANGED loop
  <2>1. LoadEntry /\ rpc = "load" /\ pc = "load" /\ pc' = pc /\ todo' = todo
    BY <1>2, LoadEntryResult DEF Load, PlaceInv, loop
  <2>2. PICK rec, s : Legal(rec, s) /\ parser'.cur = Entry(rec, parser.nextOffset)
    BY <2>1, LoadEntryResult
  <2>3. ProcessLogEntry(parser'.cur) /\ parser.nextOffset \in Nat
    BY <2>1, LoadEntryResult, LogInvFacts
  <2>4. PICK e, n : e = parser'.cur /\ n = parser.nextOffset
    OBVIOUS
  <2>5. QueueTypeOK'
    BY <1>0, <2>2, <2>3, <2>4, EntryResult, EntryKeepsType
  <2>6. MemoryInv'
    BY <2>1, MemoryLoadEntry
  <2> QED
    BY <2>1, <2>5, <2>6 DEF ErasedByMain
<1>3. CASE OpenFile /\ UNCHANGED <<pc, loop, log_facts>>
  <2>1. UNCHANGED queue /\ UNCHANGED parser /\ UNCHANGED source /\ UNCHANGED <<pc, phase, todo>>
    BY <1>3 DEF OpenFile, loop
  <2>2. QueueTypeOK' /\ ErasedByMain'
    BY <1>0, <2>1 DEF QueueTypeOK, ErasedByMain, Known, queue
  <2> QED
    BY <1>0, <2>1, <2>2, MemoryStays
<1>4. CASE (EndLoad \/ LoadDangling) /\ After(pc) /\ UNCHANGED <<loop, log_facts>>
  <2>1. /\ rpc = "load" /\ UNCHANGED queue
        /\ parser'.nextOffset = parser.nextOffset /\ source' = source
    BY <1>4, EndLoadResult DEF LoadDangling
  <2>2. pc = "load" /\ pc' \in {"load", "exited", "aborted"} /\ todo' = todo
    BY <1>4, <2>1 DEF After, PlaceInv, loop
  <2>3. QueueTypeOK' /\ ErasedByMain'
    BY <1>0, <2>1, <2>2 DEF QueueTypeOK, ErasedByMain, queue
  <2> QED
    BY <1>0, <2>1, <2>3, MemoryStays
<1>5. CASE (PollReturns \/ PollFails) /\ UNCHANGED <<queue, log_facts>> /\ Main!StartPublishing
  <2>1. UNCHANGED queue /\ UNCHANGED parser /\ UNCHANGED source
    BY <1>5 DEF PollReturns, PollFails, vars, reader
  <2>2. pc' = "publish" /\ phase' = "dirty" /\ todo' = g_dirty_jobs
    BY <1>5 DEF Main!StartPublishing
  <2>3. QueueTypeOK' /\ ErasedByMain'
    BY <1>0, <2>1, <2>2 DEF QueueTypeOK, ErasedByMain, queue
  <2> QED
    BY <1>0, <2>1, <2>3, MemoryStays
<1> QED
  BY <1>1, <1>2, <1>3, <1>4, <1>5 DEF PollStep

\* Every step of the daemon keeps the memory what was read.
LEMMA DaemonKeepsMemory ==
  ASSUME QueueTypeOK, LogInv, SourceInv, PrefixInv, MemoryInv, PlaceInv, ErasedByMain,
         [DaemonNext]_daemon, "backtrack" \notin Faults
  PROVE  QueueTypeOK' /\ MemoryInv' /\ ErasedByMain'
<1>1. CASE PollStep
  BY <1>1, PollStepKeepsMemory
<1>2. CASE MainStep
  <2>1. g_delete_jobs' \subseteq Keys
    BY <1>2, MainStepErases DEF QueueTypeOK
  <2> QED
    BY <1>2, <2>1, MainStepCases, MainStepErases, MemoryErases
<1>3. ASSUME UNCHANGED <<config, g_jobs, g_dirty_jobs, g_delete_jobs>>, UNCHANGED <<pc, phase, todo>>,
             UNCHANGED parser, UNCHANGED source
      PROVE  QueueTypeOK' /\ MemoryInv' /\ ErasedByMain'
  <2>1. LogStep /\ UNCHANGED queue
    BY <1>3, DaemonStepIsLogStep DEF queue
  <2>2. QueueTypeOK' /\ ErasedByMain'
    BY <1>3 DEF QueueTypeOK, ErasedByMain, Known, Main!Publishing, Main!Running, Main!Final
  <2> QED
    BY <1>3, <2>1, <2>2, MemoryStays
<1>4. CASE Main!Running /\ WriterStep /\ UNCHANGED <<config, queue, reader, pc, loop, log_facts, outside>>
  BY <1>3, <1>4 DEF reader, queue, loop
<1>5. CASE Main!Terminated /\ UNCHANGED <<writer, reader>>
  BY <1>3, <1>5 DEF reader, Main!Terminated, Main!vars, Main!queue
<1>6. CASE UNCHANGED daemon
  BY <1>3, <1>6 DEF daemon, vars, queue, reader, loop
<1> QED
  BY <1>1, <1>2, <1>4, <1>5, <1>6 DEF DaemonNext

-----------------------------------------------------------------------------
(***************************************************************************)
(* What main is to publish or to erase.                                    *)
(***************************************************************************)

\* The end of an iteration: what the second loop erases is no ad of the log, and its
\* turn is over.
LEMMA IterationKeepsQueued ==
  ASSUME QueueTypeOK, QueuedInv, Main!Publishing, Main!Publishing', NEW k \in Keys,
         Main!Current(k), Main!FinishIteration(k), UNCHANGED <<phase, live, dead>>
  PROVE  QueuedInv'
<1> USE DEF Main!Publishing, Main!Running, Main!Final, Main!Doomed
<1>1. /\ Main!LoopInv /\ live \subseteq Keys \ dead /\ Main!Running /\ k \in todo
      /\ \A l \in live \cup Main!Doomed \cup g_dirty_jobs : Known(l)
      /\ UNCHANGED <<g_dirty_jobs, g_delete_jobs>> /\ todo' = todo \ {k}
  BY DEF QueuedInv, Main!Current, Main!FinishIteration
<1>2. Main!LoopInv'
  BY <1>1 DEF Main!LoopInv
<1>3. CASE phase = "delete"
  <2>1. g_jobs' = [g_jobs EXCEPT ![k] = Null] /\ g_dirty_jobs = {} /\ todo \subseteq Keys /\ k \in dead
    BY <1>1, <1>3 DEF Main!FinishIteration, Main!LoopInv, QueueTypeOK
  <2>2. \A l \in Keys \ {k} : g_jobs'[l] = g_jobs[l]
    BY <2>1 DEF QueueTypeOK
  <2> QED
    BY <1>1, <1>2, <1>3, <2>1, <2>2 DEF QueuedInv, Known
<1>4. CASE phase # "delete"
  BY <1>1, <1>2, <1>4 DEF QueuedInv, Known, Main!FinishIteration
<1> QED
  BY <1>3, <1>4

\* A call of the reader: what it creates is in memory, what it changes or destroys was
\* an ad of the log.
LEMMA LoadKeepsQueued ==
  ASSUME QueueTypeOK, QueuedInv, NEW k \in Keys,
         \/ Main!LoadNew(k)
         \/ Main!LoadDestroy(k)
         \/ \E n \in Names : Main!LoadDelete(k, n) \/ \E v \in Values : Main!LoadSet(k, n, v)
  PROVE  QueuedInv'
<1> USE DEF Main!Publishing, Main!Running, Main!Final, Main!Doomed
<1>1. /\ pc = "load" /\ pc' = "load" /\ UNCHANGED <<config, phase>>
      /\ phase \in {"dirty", "delete"}
      /\ g_delete_jobs \subseteq dead /\ live \subseteq Keys \ dead
      /\ live \cup g_delete_jobs \cup g_dirty_jobs \subseteq Keys
      /\ \A l \in live \cup g_delete_jobs \cup g_dirty_jobs : Known(l)
  BY DEF QueuedInv, QueueTypeOK, Main!LoopInv, Main!LoadNew, Main!LoadDestroy, Main!LoadDelete, Main!LoadSet
<1>2. SUFFICES /\ g_delete_jobs' \subseteq dead' /\ live' \subseteq Keys \ dead'
               /\ \A l \in live' \cup g_delete_jobs' \cup g_dirty_jobs' : Known(l)'
  BY <1>1, <1>2 DEF QueuedInv, Main!LoopInv
<1>3. CASE Main!LoadNew(k)
  <2>1. /\ NewClassAd(k) /\ k \notin live \cup dead /\ live' = live \cup {k} /\ dead' = dead
    BY <1>3, MainHasTheQueue DEF Main!LoadNew, Main!Creatable
  <2> QED
    BY <1>1, <2>1, NewClassAdResult
<1>4. CASE Main!LoadDestroy(k)
  <2>1. /\ DestroyClassAd(k) /\ k \in live /\ live' = live \ {k} /\ dead' = dead \cup {k}
    BY <1>4, MainHasTheQueue DEF Main!LoadDestroy, Main!Destroyable
  <2> QED
    BY <1>1, <2>1 DEF DestroyClassAd, Known
<1>5. ASSUME NEW n \in Names, Main!LoadDelete(k, n) \/ \E v \in Values : Main!LoadSet(k, n, v)
      PROVE  /\ g_delete_jobs' \subseteq dead' /\ live' \subseteq Keys \ dead'
             /\ \A l \in live' \cup g_delete_jobs' \cup g_dirty_jobs' : Known(l)'
  <2>1. /\ DeleteAttribute(k, n) \/ \E v \in Values : SetAttribute(k, n, v)
        /\ Known(k) /\ live' = live /\ dead' = dead
    BY <1>1, <1>5, MainHasTheQueue DEF Main!LoadDelete, Main!LoadSet, Main!source
  <2> QED
    BY <1>1, <2>1, AttributeResult
<1> QED
  BY <1>3, <1>4, <1>5

\* Every step that JobQueuePublisher allows.
LEMMA QueuedStep ==
  ASSUME QueueTypeOK, QueuedInv, [Main!Next]_(Main!vars)
  PROVE  QueuedInv'
<1> USE DEF Main!Publishing, Main!Running, Main!Final, Main!Doomed
<1>1. ASSUME NEW k \in Keys, Main!MessageSent(k) \/ Main!SkipPublish(k) PROVE QueuedInv'
  BY <1>1, IterationKeepsQueued DEF Main!MessageSent, Main!SkipPublish, Main!source
<1>2. ASSUME UNCHANGED queue, UNCHANGED <<phase, todo, live, dead>>,
             Main!Running' => Main!Running /\ (Main!Publishing' <=> Main!Publishing),
             Main!Publishing' => Main!Publishing,
             pc' \in {"connect", "poll", "dump", "sleep", "leave"} =>
               pc \in {"connect", "poll", "dump", "sleep", "leave"}
      PROVE  QueuedInv'
  <2>1. Main!LoopInv'
    BY <1>2 DEF QueuedInv, Main!LoopInv, queue
  <2>2. Main!Running' => \A k \in live' \cup Main!Doomed' \cup g_dirty_jobs' : Known(k)'
    BY <1>2 DEF QueuedInv, Known, queue
  <2> QED
    BY <1>2, <2>1, <2>2 DEF QueuedInv
<1>3. ASSUME NEW k \in Keys, Main!SendFails(k) PROVE QueuedInv'
  <2>1. CASE connected
    BY <1>3, <2>1, IterationKeepsQueued DEF Main!SendFails, Main!source
  <2>2. CASE ~connected
    BY <1>2, <1>3, <2>2 DEF Main!SendFails, Main!source, Main!queue, queue
  <2> QED
    BY <2>1, <2>2
<1>4. CASE Main!OpenSucceeds
  <2>1. CASE pc = "connect"
    BY <1>2, <1>4, <2>1 DEF Main!OpenSucceeds, Main!source, Main!queue, queue
  <2>2. CASE pc = "reconnect"
    BY <1>4, <2>2, IterationKeepsQueued, MainHasTheQueue DEF Main!OpenSucceeds, Main!source
  <2> QED
    BY <1>4, <2>1, <2>2 DEF Main!OpenSucceeds
<1>5. CASE Main!EndDirty
  BY <1>5 DEF Main!EndDirty, QueuedInv, Main!LoopInv, Known, Main!source
<1>6. CASE Main!EndDelete
  BY <1>6 DEF Main!EndDelete, QueuedInv, Main!LoopInv, Known, Main!source
<1>7. CASE Main!PollFails \/ Main!EndLoad
  BY <1>7
  DEF Main!PollFails, Main!EndLoad, Main!StartPublishing, QueuedInv, Main!LoopInv, Known, Main!queue, Main!source
<1>8. CASE Main!BulkLoad
  BY <1>8 DEF Main!BulkLoad, Main!Reset, QueuedInv, Main!LoopInv
<1>9. CASE Main!Leave
  BY <1>9 DEF Main!Leave, Main!Reset, QueuedInv, Main!LoopInv, Main!source
<1>10. CASE \/ Main!PollError \/ Main!IncrementalLoad \/ Main!LoadAborts \/ Main!OpenFails
            \/ Main!ConnectionLost \/ Main!SendDone \/ Main!Wake \/ Main!Sigterm \/ Main!Terminated
            \/ UNCHANGED Main!vars
  <2>1. UNCHANGED queue /\ UNCHANGED <<phase, todo, live, dead>>
    BY <1>10
    DEF Main!PollError, Main!IncrementalLoad, Main!LoadAborts, Main!OpenFails, Main!ConnectionLost, Main!SendDone,
      Main!Wake, Main!Sigterm, Main!Terminated, Main!vars, Main!source, Main!queue, queue
  <2>2. \/ pc' = pc
        \/ pc' \in {"exited", "aborted"}
        \/ (pc = "poll" /\ pc' = "load")
        \/ (pc = "dump" /\ pc' = "leave")
        \/ (pc = "sleep" /\ pc' \in {"leave", "poll"})
    BY <1>10
    DEF Main!PollError, Main!IncrementalLoad, Main!LoadAborts, Main!OpenFails, Main!ConnectionLost, Main!SendDone,
      Main!Wake, Main!Sigterm, Main!Terminated, Main!vars
  <2> QED
    BY <1>2, <2>1, <2>2
<1>11. ASSUME NEW k \in Keys,
              \/ Main!LoadNew(k)
              \/ Main!LoadDestroy(k)
              \/ \E n \in Names : Main!LoadDelete(k, n) \/ \E v \in Values : Main!LoadSet(k, n, v)
       PROVE  QueuedInv'
  BY <1>11, LoadKeepsQueued
<1> QED
  BY <1>1, <1>3, <1>4, <1>5, <1>6, <1>7, <1>8, <1>9, <1>10, <1>11, MainHasTheQueue
  DEF Main!Next, Main!Poll, Main!Publish

\* The inductive invariant of the whole daemon.
THEOREM DaemonInductive == ASSUME "backtrack" \notin Faults PROVE DaemonSpec => []DaemonInv
<1> DEFINE Inv == /\ QueueTypeOK /\ LogInv /\ SourceInv /\ PrefixInv /\ MemoryInv /\ SizeInv
                  /\ CoverInv /\ PlaceInv /\ KnownInv /\ ErasedByMain /\ QueuedInv
<1>1. DaemonInit => Inv
  BY DaemonInitInv
<1>2. Inv /\ [DaemonNext]_daemon => Inv'
  BY DaemonStepIsLogStep, LogStepKeepsLogInv, SourceStep, PrefixStep, SizeStep, EntryIsTaken, CoverStep,
     PlaceStep, DaemonStepIsMainStep, DaemonKeepsMemory, QueuedStep
<1>3. Inv => DaemonInv
  BY DEF DaemonInv, LogInv, TypeOK
<1> QED
  BY <1>1, <1>2, <1>3, PTL DEF DaemonSpec

\* The assertion of PublishJob (job_queue_publisher_main.cpp:420) holds in the daemon, with
\* the reader's own polls of a log that the schedd keeps writing and compressing.
THEOREM DaemonAssertHolds ==
  ASSUME "backtrack" \notin Faults PROVE DaemonSpec => []AssertHolds
<1>1. DaemonInv => AssertHolds
  <2> SUFFICES ASSUME QueuedInv, pc \in {"publish", "reconnect"}, NEW k \in todo PROVE Main!Known(k)
    BY DEF AssertHolds, Main!AssertHolds, DaemonInv
  <2>1. Main!Publishing /\ Main!Running
    BY DEF Main!Publishing, Main!Running, Main!Final
  <2>2. k \in Main!Doomed \cup g_dirty_jobs
    BY <2>1 DEF QueuedInv, Main!LoopInv, Main!Doomed
  <2> QED
    BY <2>1, <2>2 DEF QueuedInv, Known, Main!Known
<1> QED
  BY <1>1, DaemonInductive, PTL

\* The memory of the daemon holds jobs, whatever is read and whatever goes wrong.
LEMMA DaemonKeepsQueueType == QueueTypeOK /\ LogInv /\ [DaemonNext]_daemon => QueueTypeOK'
<1> SUFFICES ASSUME QueueTypeOK, LogInv, [DaemonNext]_daemon PROVE QueueTypeOK'
  OBVIOUS
<1>1. LogStep /\ UNCHANGED config
  BY DaemonStepIsLogStep
<1>2. CASE UNCHANGED queue
  BY <1>1, <1>2 DEF QueueTypeOK, queue
<1>3. CASE BulkLoad
  BY <1>1, <1>3 DEF BulkLoad, Reset, QueueTypeOK
<1>4. CASE LoadEntry
  <2>1. PICK rec, s : Legal(rec, s) /\ parser'.cur = Entry(rec, parser.nextOffset)
    BY <1>4, LoadEntryResult
  <2>2. ProcessLogEntry(parser'.cur) /\ parser.nextOffset \in Nat
    BY <1>4, LoadEntryResult, LogInvFacts
  <2>3. PICK e : e = parser'.cur
    OBVIOUS
  <2> QED
    BY <1>1, <2>1, <2>2, <2>3, EntryResult, EntryKeepsType
<1>5. CASE Main!EndDirty \/ Main!EndDelete
  BY <1>1, <1>5 DEF Main!EndDirty, Main!EndDelete, QueueTypeOK
<1>6. CASE \E k \in Keys : Main!FinishIteration(k)
  BY <1>1, <1>6 DEF Main!FinishIteration, QueueTypeOK
<1>7. CASE PollStep
  BY <1>2, <1>3, <1>4, <1>7 DEF PollStep, Probe, Load, OpenFile, StartIncrementalLoad, NoChange, ProbeFatal,
    EndLoad, LoadDangling
<1>8. CASE MainStep
  BY <1>2, <1>5, <1>6, <1>8, MainStepCases
<1>9. CASE UNCHANGED daemon
  BY <1>2, <1>9 DEF daemon, vars
<1> QED
  BY <1>2, <1>7, <1>8, <1>9 DEF DaemonNext, Main!Terminated, Main!vars, Main!queue, queue

\* The types, whatever main and the schedd do between two steps of the reader, and
\* whatever goes wrong.
THEOREM DaemonTypeIsCorrect == DaemonSpec => []TypeOK
<1>1. DaemonInit => QueueTypeOK /\ LogInv
  BY DaemonInitInv
<1>2. QueueTypeOK /\ LogInv /\ [DaemonNext]_daemon => (QueueTypeOK /\ LogInv)'
  BY DaemonStepIsLogStep, DaemonKeepsQueueType, LogStepKeepsLogInv
<1>3. QueueTypeOK /\ LogInv => TypeOK
  BY DEF TypeOK, LogInv
<1> QED
  BY <1>1, <1>2, <1>3, PTL DEF DaemonSpec

\* The memory of the daemon is what the records read say, at every step of the publishing
\* loops too, where it is erased key by key, and while the schedd goes on writing.
THEOREM DaemonMemoryIsWhatWasRead ==
  ASSUME "backtrack" \notin Faults PROVE DaemonSpec => []MemoryIsPrefix
<1>1. DaemonInv => MemoryIsPrefix
  BY MemoryIsRight DEF DaemonInv, LogInv, TypeOK
<1> QED
  BY <1>1, DaemonInductive, PTL

\* A poll of the daemon holds every record that could be read when it began.
THEOREM DaemonPollsCover == ASSUME "backtrack" \notin Faults PROVE DaemonSpec => []PollCovers
<1>1. DaemonInv => PollCovers
  BY PollIsRight DEF DaemonInv, LogInv, TypeOK
<1> QED
  BY <1>1, DaemonInductive, PTL

\* The reload of a log that nothing is wrong with has no cause in the daemon either.
THEOREM DaemonResetsHaveACause ==
  ASSUME "tear" \notin Faults, "backtrack" \notin Faults
  PROVE  DaemonSpec => ResetOnlyForCause
<1>1. DaemonInit => CauseInv
  BY InitIsCause DEF DaemonInit
<1>2. DaemonInv /\ CauseInv /\ [DaemonNext]_daemon => CauseInv'
  BY CauseStep, DaemonStepIsLogStep DEF DaemonInv, LogInv, TypeOK
<1>3. DaemonInv /\ CauseInv /\ [DaemonNext]_daemon =>
        [/\ rpc = "probe"
         /\ source = fp
         /\ prober.last_seq_num = fp
         /\ prober.last_size # 0
         /\ parser.nextOffset > 1
         /\ ReadableLen(stream) = Len(stream)
         => ~BulkLoad]_vars
  BY NoCauseNoReset DEF DaemonInv, LogInv, TypeOK
<1> QED
  BY <1>1, <1>2, <1>3, DaemonInductive, PTL DEF DaemonSpec, ResetOnlyForCause

\* A log that ends before the entry to compare is read from its start by the daemon too.
LEMMA DaemonShorterIsReset ==
  ASSUME LogInv, SeqNumInv, [DaemonNext]_daemon, rpc = "probe", Len(stream) <= parser.last.offset,
         rpc' # "probe"
  PROVE  BulkLoad
<1>1. PollStep
  BY MainStepCases DEF DaemonNext, daemon, vars, reader, Main!Terminated
<1>2. BulkLoad \/ StartIncrementalLoad \/ NoChange \/ ProbeFatal
  BY <1>1 DEF PollStep, Probe, Load, OpenFile, LoadEntry, EndLoad, Reading, LoadDangling, PollReturns,
    PollFails
<1>3. [Next]_vars
  BY <1>2 DEF Next, Poll
<1> QED
  BY <1>3, ShorterIsReset

\* Whatever goes wrong, the daemon forgets, at the next probe, all that it has read of a log
\* that ends before the entry that the probe compares.
THEOREM DaemonForgetsShorterLogs == DaemonSpec => WipedOutForgotten
<1>1. DaemonInit => LogInv /\ SeqNumInv
  BY DaemonInitInv, InitIsCause DEF DaemonInit
<1>2. LogInv /\ SeqNumInv /\ [DaemonNext]_daemon => (LogInv /\ SeqNumInv)'
  BY DaemonStepIsLogStep, LogStepKeepsLogInv, SeqNumStep
<1>3. LogInv /\ SeqNumInv /\ [DaemonNext]_daemon =>
        [rpc = "probe" /\ Len(stream) <= parser.last.offset /\ rpc' # "probe" => Forgotten']_vars
  BY DaemonShorterIsReset, BulkLoadForgets
<1> QED
  BY <1>1, <1>2, <1>3, PTL DEF DaemonSpec, WipedOutForgotten
=============================================================================
