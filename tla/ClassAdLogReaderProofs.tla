------------------------ MODULE ClassAdLogReaderProofs ------------------------
(***************************************************************************)
(* Proofs about ClassAdLogReader, for any keys and attributes, any bounds  *)
(* on the log and any set of record types.                                 *)
(***************************************************************************)
EXTENDS ClassAdLogReader, ScheddLogProofs, JobQueueProofs

-----------------------------------------------------------------------------
(***************************************************************************)
(* Reading an entry, and the probe.                                        *)
(***************************************************************************)

\* The entries that the parser makes up.
LEMMA EntriesMade ==
  /\ \A op \in KnownOps \cup {"unsupported", "none"} : Init0(op) \in Entries
  /\ \A a, b \in Entries : Assign(a, b) \in Entries
  /\ \A e \in Entries, n \in Nat : [e EXCEPT !.offset = n] \in Entries
  /\ \A rec \in Record, n \in Nat : Entry(rec, n) \in Entries
BY DEF Init0, Assign, Entry, Entries, Record

\* readLogEntry: it goes on by one record if that can be read, and stays otherwise.
LEMMA ReadResult ==
  ASSUME NEW file \in Seq(Record), NEW p \in Parsers
  PROVE  LET r == readLogEntry(file, p)
             n == p.nextOffset
         IN /\ r.err \in {"FILE_READ_SUCCESS", "FILE_READ_EOF", "FILE_READ_ERROR", "FILE_FATAL_ERROR"}
            /\ r.parser \in Parsers
            /\ r.err = "FILE_READ_SUCCESS" <=> n < Len(file) /\ ~Unreadable(file[n + 1])
            /\ r.err = "FILE_READ_SUCCESS" =>
                 /\ r.parser.nextOffset = n + 1
                 /\ r.parser.cur = Entry(file[n + 1], n)
            /\ r.err # "FILE_READ_SUCCESS" => r.parser.nextOffset = n
            /\ n >= Len(file) => r.err = "FILE_READ_EOF"
<1> DEFINE n == p.nextOffset
           rec == file[n + 1]
           last == Assign(Init0(p.cur.op), p.cur)
           cur == [Init0(rec.op) EXCEPT !.offset = n]
           begun == [p EXCEPT !.last = last, !.cur = cur]
           r == readLogEntry(file, p)
<1>1. n \in Nat /\ Len(file) \in Nat /\ p.cur \in Entries /\ p.last \in Entries
  BY LenProperties DEF Parsers
<1>2. last \in Entries
  BY <1>1, EntriesMade DEF Entries
<1>3. CASE n >= Len(file)
  <2>1. r = [err |-> "FILE_READ_EOF", parser |-> p]
    BY <1>1, <1>3 DEF readLogEntry
  <2> QED
    BY <1>1, <1>3, <2>1
<1>4. CASE n < Len(file)
  <2>1. n + 1 \in 1..Len(file)
    BY <1>1, <1>4
  <2>2. rec \in Record
    BY <2>1, ElementOfSeq
  <2>3. rec.op \in KnownOps \cup {"unsupported"} /\ rec.ok \in BOOLEAN
    <3> HIDE DEF rec
    <3> QED
      BY <2>2 DEF Record
  <2>4. cur \in Entries
    <3>1. Init0(rec.op) \in Entries
      BY <2>3, EntriesMade
    <3> QED
      BY <1>1, <3>1, EntriesMade
  <2>5. begun \in Parsers /\ begun.nextOffset = n /\ begun.cur = cur /\ begun.last = last
    <3> HIDE DEF cur, last, rec, n
    <3> QED
      BY <1>2, <2>4 DEF Parsers, n
  <2>6. r = CASE rec.op \notin KnownOps -> [err |-> "FILE_READ_ERROR", parser |-> begun]
              [] rec.op \in KnownOps /\ rec.ok ->
                   [err |-> "FILE_READ_SUCCESS",
                    parser |-> [begun EXCEPT !.cur = Entry(rec, n), !.nextOffset = n + 1]]
              [] rec.op \in KnownOps /\ ~rec.ok ->
                   IF Bracketed(file, n) THEN [err |-> "FILE_FATAL_ERROR", parser |-> begun]
                   ELSE [err |-> "FILE_READ_EOF", parser |-> Rewound(begun, n)]
    BY <1>1, <1>4 DEF readLogEntry
  <2> HIDE DEF begun, cur, last, r, rec
  <2>7. CASE rec.op \notin KnownOps
    <3>1. r = [err |-> "FILE_READ_ERROR", parser |-> begun] /\ rec.op = "unsupported"
      BY <2>3, <2>6, <2>7
    <3> QED
      BY <1>1, <1>4, <2>5, <3>1 DEF Unreadable, r, rec
  <2>8. CASE rec.op \in KnownOps /\ rec.ok
    <3> DEFINE q == [begun EXCEPT !.cur = Entry(rec, n), !.nextOffset = n + 1]
    <3>1. r = [err |-> "FILE_READ_SUCCESS", parser |-> q]
      BY <2>6, <2>8
    <3>2. Entry(rec, n) \in Entries /\ n + 1 \in Nat
      BY <1>1, <2>2, EntriesMade
    <3>3. q \in Parsers /\ q.nextOffset = n + 1 /\ q.cur = Entry(rec, n)
      <4> HIDE DEF n
      <4> QED
        BY <2>5, <3>2 DEF Parsers
    <3>4. ~Unreadable(rec)
      BY <2>8 DEF KnownOps, AdOps, Unreadable
    <3> HIDE DEF q
    <3> QED
      BY <1>1, <1>4, <3>1, <3>3, <3>4 DEF r, rec
  <2>9. CASE rec.op \in KnownOps /\ ~rec.ok
    <3>1. \/ r = [err |-> "FILE_FATAL_ERROR", parser |-> begun]
          \/ r = [err |-> "FILE_READ_EOF", parser |-> Rewound(begun, n)]
      BY <2>6, <2>9
    <3> DEFINE c == [Assign(begun.cur, begun.last) EXCEPT !.offset = n]
    <3>2. c \in Entries
      <4>1. Assign(begun.cur, begun.last) \in Entries
        BY <1>2, <2>4, <2>5, EntriesMade
      <4> QED
        BY <1>1, <4>1, EntriesMade
    <3>3. Rewound(begun, n) \in Parsers /\ Rewound(begun, n).nextOffset = n
      <4>1. Rewound(begun, n) = [begun EXCEPT !.cur = c]
        BY DEF Rewound
      <4> HIDE DEF c, n
      <4> QED
        BY <2>5, <3>2, <4>1 DEF Parsers
    <3> HIDE DEF c
    <3>4. Unreadable(rec)
      BY <2>9 DEF Unreadable
    <3> QED
      BY <1>1, <1>4, <2>5, <3>1, <3>3, <3>4 DEF r, rec
  <2> QED
    BY <2>3, <2>7, <2>8, <2>9
<1> QED
  BY <1>1, <1>3, <1>4

\* setNextOffset changes nothing else.
LEMMA SetNextOffsetResult ==
  ASSUME NEW p \in Parsers, NEW n \in Nat
  PROVE  /\ setNextOffset(p, n) \in Parsers
         /\ setNextOffset(p, n).nextOffset = n
         /\ setNextOffset(p, n).cur = p.cur
         /\ setNextOffset(p, n).last = p.last
BY DEF setNextOffset, Parsers

\* The parser as it is constructed.
LEMMA Parser0Result == Parser0 \in Parsers /\ Parser0.nextOffset = 0 /\ Parser0.last.offset = 0
<1>1. Blank \in Entries /\ Blank.offset = 0
  BY EntriesMade DEF Blank, Init0
<1> QED
  BY <1>1 DEF Parser0, Parsers

\* The first read of a probe: it fails if the file is empty, and finds the number of the
\* file otherwise.
LEMMA FirstReadResult ==
  ASSUME NEW file \in Seq(Record), NEW g \in Nat, Numbered(file, g)
  PROVE  /\ FirstRead(file).parser \in Parsers
         /\ file = <<>> => FirstRead(file).err = "FILE_READ_EOF"
         /\ file # <<>> =>
              /\ FirstRead(file).err = "FILE_READ_SUCCESS"
              /\ FirstRead(file).parser.cur.op = "LogHistoricalSequenceNumber"
              /\ FirstRead(file).parser.cur.key = g
<1> DEFINE r == readLogEntry(file, Parser0)
<1>1. Parser0 \in Parsers /\ Parser0.nextOffset = 0 /\ Len(file) \in Nat
  BY Parser0Result, LenProperties
<1>2. /\ r.parser \in Parsers
      /\ r.err = "FILE_READ_SUCCESS" <=> 0 < Len(file) /\ ~Unreadable(file[0 + 1])
      /\ r.err = "FILE_READ_SUCCESS" => r.parser.cur = Entry(file[0 + 1], 0)
      /\ 0 >= Len(file) => r.err = "FILE_READ_EOF"
  BY <1>1, ReadResult
<1> HIDE DEF r
<1>3. ASSUME file # <<>>
      PROVE  r.err = "FILE_READ_SUCCESS" /\ r.parser.cur.op = "LogHistoricalSequenceNumber"
             /\ r.parser.cur.key = g
  <2>1. 0 < Len(file) /\ file[1] = SeqNumRecord(g)
    BY <1>1, <1>3, EmptySeq DEF Numbered
  <2>2. ~Unreadable(file[1]) /\ Entry(file[1], 0).op = "LogHistoricalSequenceNumber"
        /\ Entry(file[1], 0).key = g
    BY <2>1, SeqNumIsLegal DEF Unreadable, Entry
  <2> QED
    BY <1>2, <2>1, <2>2
<1>4. file = <<>> => Len(file) = 0
  BY EmptySeq
<1> QED
  BY <1>2, <1>3, <1>4 DEF r, FirstRead

\* What the probe finds, and what it leaves behind.
LEMMA ProbeResult ==
  ASSUME NEW file \in Seq(Record), NEW g \in Nat, Numbered(file, g),
         NEW pr \in Probers, NEW entry \in Entries
  PROVE  LET twice == ReadsTwice(pr, file)
             result == probe(pr, file, entry)
         IN /\ file = <<>> =>
                 SeqNum(pr, file) = pr.cur_probed_seq_num /\ ClosesStream(pr, file, entry)
                 /\ ~twice /\ result = "PROBE_ERROR"
            /\ file # <<>> => SeqNum(pr, file) = g
            /\ twice => g = pr.last_seq_num /\ file # <<>>
            /\ file # <<>> /\ ClosesStream(pr, file, entry) =>
                 twice /\ (entry.offset < Len(file) => Unreadable(file[entry.offset + 1]))
            /\ result = "NO_CHANGE" => twice /\ pr.cur_probed_size = pr.last_size
            /\ result = "ADDITION" => twice
            /\ result = "PROBE_FATAL_ERROR" => twice
<1> DEFINE first == FirstRead(file)
           second == SecondRead(file, entry)
           twice == ReadsTwice(pr, file)
<1>1. /\ first.parser \in Parsers
      /\ file = <<>> => first.err = "FILE_READ_EOF"
      /\ file # <<>> =>
           /\ first.err = "FILE_READ_SUCCESS"
           /\ first.parser.cur.op = "LogHistoricalSequenceNumber"
           /\ first.parser.cur.key = g
  BY FirstReadResult
<1>2. entry.offset \in Nat
  BY DEF Entries
<1>3. second.err = "FILE_READ_SUCCESS"
        <=> entry.offset < Len(file) /\ ~Unreadable(file[entry.offset + 1])
  BY <1>1, <1>2, SetNextOffsetResult, ReadResult DEF SecondRead
<1>4. twice <=> /\ first.err = "FILE_READ_SUCCESS"
                /\ first.parser.cur.op = "LogHistoricalSequenceNumber"
                /\ pr.last_size # 0
                /\ SeqNum(pr, file) = pr.last_seq_num
  BY DEF ReadsTwice, ReadFails
<1>5. SeqNum(pr, file) = IF file = <<>> THEN pr.cur_probed_seq_num ELSE g
  BY <1>1 DEF SeqNum, ReadFails
<1>6. ClosesStream(pr, file, entry)
        <=> first.err # "FILE_READ_SUCCESS" \/ (twice /\ second.err # "FILE_READ_SUCCESS")
  BY DEF ClosesStream, ReadFails
<1>7. probe(pr, file, entry) =
        CASE first.err = "FILE_FATAL_ERROR" -> "PROBE_FATAL_ERROR"
          [] first.err \in {"FILE_READ_EOF", "FILE_READ_ERROR"} -> "PROBE_ERROR"
          [] first.err = "FILE_READ_SUCCESS" /\ first.parser.cur.op # "LogHistoricalSequenceNumber" ->
               "PROBE_FATAL_ERROR"
          [] first.err = "FILE_READ_SUCCESS" /\ first.parser.cur.op = "LogHistoricalSequenceNumber" ->
               CASE pr.last_size = 0 -> "INIT_QUILL"
                 [] pr.last_size # 0 /\ ~twice -> "COMPRESSED"
                 [] twice /\ second.err = "FILE_FATAL_ERROR" -> "PROBE_FATAL_ERROR"
                 [] twice /\ second.err = "FILE_READ_ERROR" -> "PROBE_ERROR"
                 [] OTHER -> Comparison(pr, Equal(second.parser.cur, entry))
  BY DEF probe, ReadFails
<1> HIDE DEF first, second, twice
<1>8. CASE file = <<>>
  BY <1>1, <1>4, <1>5, <1>6, <1>7, <1>8 DEF twice
<1>9. CASE file # <<>>
  <2>1. CASE pr.last_size = 0
    BY <1>1, <1>3, <1>4, <1>5, <1>6, <1>7, <1>9, <2>1 DEF twice
  <2>2. CASE pr.last_size # 0 /\ ~twice
    BY <1>1, <1>3, <1>4, <1>5, <1>6, <1>7, <1>9, <2>2 DEF twice
  <2>3. CASE pr.last_size # 0 /\ twice
    <3>1. probe(pr, file, entry) =
            CASE second.err = "FILE_FATAL_ERROR" -> "PROBE_FATAL_ERROR"
              [] second.err = "FILE_READ_ERROR" -> "PROBE_ERROR"
              [] OTHER -> Comparison(pr, Equal(second.parser.cur, entry))
      BY <1>1, <1>7, <1>9, <2>3
    <3>2. probe(pr, file, entry) = "NO_CHANGE" => pr.cur_probed_size = pr.last_size
      BY <3>1 DEF Comparison
    <3> QED
      BY <1>1, <1>3, <1>4, <1>5, <1>6, <1>9, <2>3, <3>2 DEF twice
  <2> QED
    BY <2>1, <2>2, <2>3
<1> QED
  BY <1>8, <1>9

-----------------------------------------------------------------------------
(***************************************************************************)
(* The steps of the reader and of the schedd, and what of the invariant    *)
(* does not speak of the consumer's memory.                                *)
(***************************************************************************)

\* The types, and what every file is like: whatever may go wrong.
LogInv == LogTypeOK /\ WriterInv /\ PollInv

\* The log as the reader sees it: a step of the reader, of the schedd, or of neither.
LogStep ==
  \/ OpenFile
  \/ BulkLoad
  \/ StartIncrementalLoad
  \/ NoChange
  \/ ProbeFatal
  \/ LoadEntry
  \/ EndLoad
  \/ LoadDangling
  \/ PollReturns
  \/ WriterStep /\ UNCHANGED reader
  \/ UNCHANGED <<writer, reader>>

\* Numbers and files that every proof here needs.
LEMMA LogInvFacts ==
  ASSUME LogInv
  PROVE  /\ gen \in Nat /\ MaxGen \in Nat /\ MaxLen \in Nat /\ gen <= MaxGen
         /\ fp \in 0..gen /\ seen \in Nat /\ source \in 0..MaxGen
         /\ \A g \in 1..gen : /\ g \in 1..MaxGen
                              /\ WellFormed(files[g]) /\ files[g] \in Seq(Record)
                              /\ Numbered(files[g], g)
                              /\ Len(files[g]) \in 0..MaxLen
         /\ parser \in Parsers /\ prober \in Probers
         /\ parser.nextOffset \in Nat /\ parser.last.offset \in Nat /\ parser.last \in Entries
<1>1. gen \in 0..MaxGen /\ MaxGen \in Nat /\ MaxLen \in Nat /\ fp \in 0..gen
      /\ seen \in 0..MaxLen /\ source \in 0..MaxGen /\ parser \in Parsers /\ prober \in Probers
  BY WriterAssumption DEF LogInv, LogTypeOK, WriterInv, PollInv
<1>2. \A g \in 1..gen : g \in 1..MaxGen
  BY <1>1
<1>3. \A g \in 1..gen : /\ WellFormed(files[g]) /\ files[g] \in Seq(Record)
                        /\ Numbered(files[g], g) /\ Len(files[g]) <= MaxLen
  BY <1>2 DEF LogInv, WriterInv, WellFormed
<1>4. \A g \in 1..gen : Len(files[g]) \in 0..MaxLen
  BY <1>1, <1>3, LenProperties
<1>5. parser.nextOffset \in Nat /\ parser.last \in Entries /\ parser.last.offset \in Nat
  BY <1>1 DEF Parsers, Entries
<1> QED
  BY <1>1, <1>2, <1>3, <1>4, <1>5

\* What becomes of prober.
LEMMA ProberResult ==
  ASSUME NEW p \in Probers, NEW n \in Nat
  PROVE  /\ LET q == [p EXCEPT !.cur_probed_size = n]
            IN q \in Probers /\ q.cur_probed_size = n /\ q.cur_probed_seq_num = p.cur_probed_seq_num
               /\ q.last_size = p.last_size /\ q.last_seq_num = p.last_seq_num
         /\ LET q == [p EXCEPT !.cur_probed_seq_num = n]
            IN q \in Probers /\ q.cur_probed_size = p.cur_probed_size /\ q.cur_probed_seq_num = n
               /\ q.last_size = p.last_size /\ q.last_seq_num = p.last_seq_num
         /\ LET q == incrementProbeInfo(p)
            IN q \in Probers /\ q.cur_probed_size = p.cur_probed_size
               /\ q.cur_probed_seq_num = p.cur_probed_seq_num
               /\ q.last_size = p.cur_probed_size /\ q.last_seq_num = p.cur_probed_seq_num
BY DEF Probers, incrementProbeInfo

\* The size of a file is twice its records, or one less.
LEMMA SizeResult ==
  ASSUME NEW s \in Seq(Record)
  PROVE  /\ Size(s) \in Nat
         /\ s = <<>> => Size(s) = 0
<1>1. Len(s) \in Nat /\ (s = <<>> <=> Len(s) = 0)
  BY LenProperties, EmptySeq
<1> QED
  BY <1>1 DEF Size

\* fopen and fstat.
LEMMA OpenFileResult ==
  ASSUME LogInv, OpenFile
  PROVE  /\ rpc = "idle" /\ rpc' = "probe" /\ gen \in 1..gen
         /\ fp = 0 /\ fp' = gen /\ ~dangling
         /\ prober' \in Probers
         /\ prober'.cur_probed_size = Size(files[gen]) /\ seen' = ReadableLen(files[gen])
         /\ prober'.cur_probed_seq_num = prober.cur_probed_seq_num
         /\ prober'.last_size = prober.last_size /\ prober'.last_seq_num = prober.last_seq_num
         /\ UNCHANGED <<gen, files, dangling, parser, source>>
<1>1. rpc = "idle" /\ rpc' = "probe" /\ gen \in 1..gen /\ fp' = gen /\ fp = 0 /\ ~dangling
  BY LogInvFacts DEF OpenFile, LogInv, PollInv
<1>2. Size(files[gen]) \in Nat /\ prober \in Probers
  BY <1>1, LogInvFacts, SizeResult
<1>3. prober' = [prober EXCEPT !.cur_probed_size = Size(files[gen])]
      /\ seen' = ReadableLen(files[gen]) /\ UNCHANGED <<gen, files, dangling, parser, source>>
  BY DEF OpenFile, log, writer
<1> QED
  BY <1>1, <1>2, <1>3, ProberResult

\* The probe.
LEMMA ProbedResult ==
  ASSUME LogInv, NEW result, Probed(result)
  PROVE  /\ rpc = "probe" /\ fp \in 1..gen /\ ~dangling
         /\ prober' \in Probers
         /\ prober'.cur_probed_size = prober.cur_probed_size
         /\ prober'.last_size = prober.last_size /\ prober'.last_seq_num = prober.last_seq_num
         /\ IF stream = <<>> THEN prober'.cur_probed_seq_num = prober.cur_probed_seq_num /\ dangling'
            ELSE prober'.cur_probed_seq_num = fp
         /\ dangling' \in BOOLEAN
         /\ stream # <<>> /\ dangling' =>
              /\ prober.last_seq_num = fp
              /\ parser.last.offset < Len(stream) => Unreadable(stream[parser.last.offset + 1])
         /\ result \in {"NO_CHANGE", "ADDITION", "PROBE_FATAL_ERROR"} =>
              prober.last_seq_num = fp /\ stream # <<>>
         /\ result = "NO_CHANGE" => prober.cur_probed_size = prober.last_size
         /\ UNCHANGED <<gen, files, fp, seen>>
<1>1. rpc = "probe" /\ fp \in 1..gen /\ ~dangling
  BY LogInvFacts DEF Probed, LogInv, PollInv
<1>2. stream \in Seq(Record) /\ Numbered(stream, fp) /\ fp \in Nat
      /\ prober \in Probers /\ parser.last \in Entries
  BY <1>1, LogInvFacts DEF stream
<1>3. prober.cur_probed_seq_num \in Nat
  BY <1>2 DEF Probers
<1> DEFINE n == SeqNum(prober, stream)
<1>4. /\ result = probe(prober, stream, parser.last)
      /\ prober' = [prober EXCEPT !.cur_probed_seq_num = n]
      /\ dangling' = ClosesStream(prober, stream, parser.last)
      /\ UNCHANGED <<gen, files, fp, seen>>
  BY DEF Probed, writer
<1>5. dangling' \in BOOLEAN
  BY <1>4 DEF ClosesStream, ReadsTwice, ReadFails
<1>6. n \in Nat
  BY <1>2, <1>3, ProbeResult
<1>7. /\ prober' \in Probers
      /\ prober'.cur_probed_size = prober.cur_probed_size
      /\ prober'.last_size = prober.last_size /\ prober'.last_seq_num = prober.last_seq_num
      /\ prober'.cur_probed_seq_num = n
  <2> HIDE DEF n
  <2> QED
    BY <1>2, <1>4, <1>6, ProberResult
<1> QED
  BY <1>1, <1>2, <1>4, <1>5, <1>7, ProbeResult

\* An entry is read.
LEMMA LoadEntryResult ==
  ASSUME LogInv, LoadEntry
  PROVE  /\ rpc = "load" /\ fp \in 1..gen /\ ~dangling
         /\ parser.nextOffset < Len(stream) /\ parser.nextOffset \in 0..Len(stream)
         /\ ~Unreadable(stream[parser.nextOffset + 1])
         /\ Legal(stream[parser.nextOffset + 1], SubSeq(stream, 1, parser.nextOffset))
         /\ parser' \in Parsers /\ parser'.nextOffset = parser.nextOffset + 1
         /\ parser'.cur = Entry(stream[parser.nextOffset + 1], parser.nextOffset)
         /\ ProcessLogEntry(parser'.cur)
         /\ rpc' = IF Processed(parser'.cur) THEN "load" ELSE "failed"
         /\ UNCHANGED <<config, gen, files, fp, dangling, prober, source, seen>>
<1>1. rpc = "load" /\ fp \in 1..gen /\ ~dangling
  BY LogInvFacts DEF LoadEntry, Reading, LogInv, PollInv
<1> DEFINE n == parser.nextOffset
<1>2. WellFormed(stream) /\ stream \in Seq(Record) /\ parser \in Parsers /\ n \in Nat /\ Len(stream) \in Nat
  BY <1>1, LogInvFacts DEF stream
<1>3. /\ read = readLogEntry(stream, parser)
      /\ read.err = "FILE_READ_SUCCESS"
      /\ parser' = read.parser
      /\ ProcessLogEntry(parser'.cur)
      /\ rpc' = IF Processed(parser'.cur) THEN "load" ELSE "failed"
      /\ UNCHANGED <<config, gen, files, fp, dangling, prober, source, seen>>
  BY DEF LoadEntry, read, Reading, writer
<1>4. /\ n < Len(stream) /\ ~Unreadable(stream[n + 1])
      /\ parser' \in Parsers /\ parser'.nextOffset = n + 1
      /\ parser'.cur = Entry(stream[n + 1], n)
  BY <1>2, <1>3, ReadResult
<1>5. Legal(stream[n + 1], SubSeq(stream, 1, n))
  <2>1. n + 1 \in 1..Len(stream) /\ n + 1 - 1 = n
    BY <1>2, <1>4
  <2>2. Legal(stream[n + 1], Before(stream, n + 1))
    BY <1>2, <2>1 DEF WellFormed
  <2> HIDE DEF n
  <2>3. Before(stream, n + 1) = SubSeq(stream, 1, n)
    BY <1>2, <2>1 DEF Before
  <2> QED
    BY <2>2, <2>3
<1> QED
  BY <1>1, <1>2, <1>3, <1>4, <1>5

\* No entry is read.
LEMMA EndLoadResult ==
  ASSUME LogInv, EndLoad
  PROVE  /\ rpc = "load" /\ fp \in 1..gen /\ ~dangling
         /\ rpc' \in {"loaded", "failed", "aborted"}
         /\ parser.nextOffset < Len(stream) => Unreadable(stream[parser.nextOffset + 1])
         /\ parser' \in Parsers /\ parser'.nextOffset = parser.nextOffset
         /\ UNCHANGED <<config, queue, gen, files, fp, dangling, prober, source, seen>>
<1>1. rpc = "load" /\ fp \in 1..gen /\ ~dangling
  BY LogInvFacts DEF EndLoad, Reading, LogInv, PollInv
<1>2. stream \in Seq(Record) /\ parser \in Parsers
  BY <1>1, LogInvFacts DEF stream
<1>3. /\ read = readLogEntry(stream, parser)
      /\ read.err # "FILE_READ_SUCCESS"
      /\ parser' = read.parser
      /\ rpc' = CASE read.err = "FILE_READ_EOF" -> "loaded"
                  [] read.err = "FILE_READ_ERROR" -> "failed"
                  [] read.err = "FILE_FATAL_ERROR" -> "aborted"
      /\ UNCHANGED <<config, queue, gen, files, fp, dangling, prober, source, seen>>
  BY DEF EndLoad, read, Reading, writer
<1>4. /\ read.err \in {"FILE_READ_SUCCESS", "FILE_READ_EOF", "FILE_READ_ERROR", "FILE_FATAL_ERROR"}
      /\ parser.nextOffset < Len(stream) => Unreadable(stream[parser.nextOffset + 1])
      /\ parser' \in Parsers /\ parser'.nextOffset = parser.nextOffset
  BY <1>2, <1>3, ReadResult
<1> QED
  BY <1>1, <1>3, <1>4

\* fclose, and the end of Poll.
LEMMA PollReturnsResult ==
  ASSUME LogInv, PollReturns
  PROVE  /\ rpc \in {"loaded", "failed"} /\ rpc' = "idle"
         /\ fp \in 1..gen /\ fp' = 0 /\ ~dangling' /\ seen' = 0
         /\ DOMAIN files' = 1..MaxGen
         /\ gen \in 1..gen /\ files'[gen] = files[gen]
         /\ \A g \in 1..MaxGen : files'[g] = files[g] \/ (files'[g] = <<>> /\ g = fp /\ g # gen)
         /\ prober' \in Probers
         /\ prober'.cur_probed_size = prober.cur_probed_size
         /\ prober'.cur_probed_seq_num = prober.cur_probed_seq_num
         /\ IF rpc = "loaded"
            THEN prober'.last_size = prober.cur_probed_size
                 /\ prober'.last_seq_num = prober.cur_probed_seq_num
            ELSE prober'.last_size = prober.last_size
                 /\ prober'.last_seq_num = prober.last_seq_num
         /\ UNCHANGED <<config, gen, parser, source>>
<1>1. /\ rpc \in {"loaded", "failed"} /\ rpc' = "idle" /\ fp' = 0 /\ dangling' = FALSE /\ seen' = 0
      /\ files' = [files EXCEPT ![fp] = IF fp = gen THEN @ ELSE <<>>]
      /\ prober' = IF rpc = "loaded" THEN incrementProbeInfo(prober) ELSE prober
      /\ UNCHANGED <<config, gen, parser, source>>
  BY DEF PollReturns
<1>2. fp \in 1..gen /\ gen \in 1..gen /\ gen \in 1..MaxGen /\ DOMAIN files = 1..MaxGen /\ prober \in Probers
  BY <1>1, LogInvFacts DEF LogInv, PollInv, WriterInv
<1>3. /\ DOMAIN files' = 1..MaxGen /\ files'[gen] = files[gen]
      /\ \A g \in 1..MaxGen : files'[g] = files[g] \/ (files'[g] = <<>> /\ g = fp /\ g # gen)
  BY <1>1, <1>2
<1>4. /\ prober' \in Probers
      /\ prober'.cur_probed_size = prober.cur_probed_size
      /\ prober'.cur_probed_seq_num = prober.cur_probed_seq_num
      /\ IF rpc = "loaded"
         THEN prober'.last_size = prober.cur_probed_size
              /\ prober'.last_seq_num = prober.cur_probed_seq_num
         ELSE prober'.last_size = prober.last_size
              /\ prober'.last_seq_num = prober.last_seq_num
  <2>1. CASE rpc = "loaded"
    BY <1>1, <1>2, <2>1, ProberResult, 0 \in Nat
  <2>2. CASE rpc # "loaded"
    BY <1>1, <1>2, <2>2
  <2> QED
    BY <2>1, <2>2
<1> QED
  BY <1>1, <1>2, <1>3, <1>4

\* The bulk load, the incremental one, and none.
LEMMA AfterProbeResult ==
  ASSUME LogInv, BulkLoad \/ StartIncrementalLoad \/ NoChange \/ ProbeFatal
  PROVE  /\ parser' \in Parsers
         /\ rpc' \in {"load", "loaded", "aborted", "exited"}
         /\ BulkLoad => /\ Reset /\ rpc' = "load"
                        /\ parser'.nextOffset = 0
                        /\ source' = IF dangling' THEN 0 ELSE fp
         /\ ~BulkLoad => /\ UNCHANGED queue /\ UNCHANGED parser
                         /\ prober.last_seq_num = fp /\ stream # <<>>
                         /\ \/ StartIncrementalLoad /\ source = 0 /\ source' = fp
                            \/ UNCHANGED source
         /\ StartIncrementalLoad => rpc' = "load" /\ (source' = 0 => dangling')
         /\ ~BulkLoad /\ ~StartIncrementalLoad => rpc' # "load"
         /\ rpc' = "loaded" => prober.cur_probed_size = prober.last_size
         /\ UNCHANGED config
<1>1. parser \in Parsers /\ setNextOffset(parser, 0) \in Parsers /\ setNextOffset(parser, 0).nextOffset = 0
  BY LogInvFacts, SetNextOffsetResult
<1>2. CASE BulkLoad
  <2>1. PICK result : Probed(result)
    BY <1>2 DEF BulkLoad
  <2>2. fp # 0 /\ dangling' \in BOOLEAN /\ UNCHANGED config
    BY <2>1, ProbedResult DEF Probed
  <2>3. parser' = setNextOffset(parser, 0) /\ Reset /\ rpc' = "load"
        /\ source' = IF dangling' THEN 0 ELSE fp
    BY <1>2 DEF BulkLoad
  <2> QED
    BY <1>1, <1>2, <2>2, <2>3
<1>3. CASE StartIncrementalLoad /\ ~BulkLoad
  <2>1. Probed("ADDITION") /\ fp \in 1..gen
    BY <1>3, ProbedResult DEF StartIncrementalLoad
  <2>2. prober.last_seq_num = fp /\ stream # <<>> /\ UNCHANGED config /\ fp # 0
    BY <2>1, ProbedResult DEF Probed
  <2>3. rpc' = "load" /\ UNCHANGED <<queue, parser>>
        /\ source' = IF source = 0 /\ ~dangling' THEN fp ELSE source
    BY <1>3 DEF StartIncrementalLoad
  <2> QED
    BY <1>1, <1>3, <2>2, <2>3
<1>4. CASE NoChange /\ ~BulkLoad /\ ~StartIncrementalLoad
  <2>1. Probed("NO_CHANGE")
    BY <1>4 DEF NoChange
  <2>2. prober.last_seq_num = fp /\ stream # <<>> /\ prober.cur_probed_size = prober.last_size /\ UNCHANGED config
    BY <2>1, ProbedResult DEF Probed
  <2> QED
    BY <1>1, <1>4, <2>2 DEF NoChange
<1>5. CASE ProbeFatal /\ ~BulkLoad /\ ~StartIncrementalLoad
  <2>1. Probed("PROBE_FATAL_ERROR")
    BY <1>5 DEF ProbeFatal
  <2>2. prober.last_seq_num = fp /\ stream # <<>> /\ UNCHANGED config
    BY <2>1, ProbedResult DEF Probed
  <2> QED
    BY <1>1, <1>5, <2>2 DEF ProbeFatal
<1> QED
  BY <1>2, <1>3, <1>4, <1>5

\* The schedd writes files.
LEMMA WriterStepType ==
  ASSUME files \in [1..MaxGen -> Seq(Record)], WriterInv', WriterStep
  PROVE  files' \in [1..MaxGen -> Seq(Record)]
<1>1. DOMAIN files' = 1..MaxGen /\ \A g \in 1..MaxGen : files'[g] \in Seq(Record)
  BY DEF WriterInv, WellFormed
<1>2. \E f : files' = [g \in 1..MaxGen |-> f[g]]
  <2>1. CASE \E file : Write(file)
    <3>1. PICK file : files' = [files EXCEPT ![gen] = file]
      BY <2>1 DEF Write
    <3>2. files' = [g \in 1..MaxGen |-> files'[g]]
      BY <3>1
    <3> QED
      BY <3>2
  <2>2. CASE CreateLog
    <3>1. files' = [files EXCEPT ![1] = <<SeqNumRecord(1)>>] \/ files' = files
      BY <2>2 DEF CreateLog
    <3>2. files' = [g \in 1..MaxGen |-> files'[g]]
      BY <3>1
    <3> QED
      BY <3>2
  <2>3. CASE Backtrack
    <3>1. files' = [files EXCEPT ![gen] = Committed(log)]
      BY <2>3 DEF Backtrack
    <3>2. files' = [g \in 1..MaxGen |-> files'[g]]
      BY <3>1
    <3> QED
      BY <3>2
  <2>4. CASE Compress
    <3>1. PICK file : files' = [files EXCEPT ![gen] = IF fp = gen THEN @ ELSE <<>>, ![gen + 1] = file]
      BY <2>4 DEF Compress
    <3>2. files' = [g \in 1..MaxGen |-> files'[g]]
      BY <3>1
    <3> QED
      BY <3>2
  <2> QED
    BY <2>1, <2>2, <2>3, <2>4 DEF WriterStep, FirstRecord, Complete, Append1, CrashAndGoOn
<1> QED
  BY <1>1, <1>2

\* What every file is like does not depend on which the reader has open.
LEMMA FilesKeepInv ==
  ASSUME WriterInv, UNCHANGED <<gen, files>>, fp' \in 0..gen
  PROVE  WriterInv'
BY DEF WriterInv

\* A step of the reader or the schedd leaves files behind, and Poll where it may be.
LEMMA LogStepKeepsLogInv ==
  ASSUME LogInv, LogStep
  PROVE  LogInv'
<1>0. WriterInv /\ PollInv /\ LogTypeOK
  BY DEF LogInv
<1>1. gen \in 0..MaxGen /\ MaxGen \in Nat /\ MaxLen \in Nat /\ fp \in 0..gen
      /\ \A g \in 1..gen : Len(files[g]) \in 0..MaxLen /\ files[g] \in Seq(Record)
  BY <1>0, LogInvFacts DEF WriterInv
<1>2. ASSUME WriterInv', files' = files \/ files' \in [1..MaxGen -> Seq(Record)], PollInv',
             rpc' \in {"idle", "probe", "load", "loaded", "failed", "exited", "aborted"},
             dangling' \in BOOLEAN, parser'.nextOffset \in 0..MaxLen,
             source' = source \/ source' \in 0..gen,
             seen' = seen \/ seen' \in 0..MaxLen
      PROVE  LogInv'
  BY <1>0, <1>1, <1>2 DEF LogInv, LogTypeOK, WriterInv
<1>3. CASE OpenFile
  <2> USE OpenFileResult, <1>0, <1>3
  <2>1. WriterInv'
    BY <1>1, FilesKeepInv
  <2>2. ReadableLen(files[gen]) \in 0..MaxLen
    BY <1>1, ReadableLenResult
  <2>3. PollInv'
    BY DEF PollInv, LogInv
  <2>4. parser'.nextOffset \in 0..MaxLen /\ dangling' \in BOOLEAN
    BY DEF LogTypeOK
  <2> QED
    BY <1>2, <2>1, <2>2, <2>3, <2>4
<1>4. CASE BulkLoad \/ StartIncrementalLoad \/ NoChange \/ ProbeFatal
  <2>1. PICK result : Probed(result)
    BY <1>4 DEF BulkLoad, StartIncrementalLoad, NoChange, ProbeFatal
  <2>2. /\ fp \in 1..gen /\ prober' \in Probers /\ dangling' \in BOOLEAN
        /\ UNCHANGED <<gen, files, fp, seen>>
    BY <2>1, ProbedResult
  <2>3. WriterInv'
    BY <1>0, <1>1, <2>2, FilesKeepInv
  <2>4. /\ parser' \in Parsers /\ rpc' \in {"load", "loaded", "aborted", "exited"}
        /\ parser'.nextOffset = 0 \/ parser' = parser
        /\ source' \in {0, fp, source}
    <3>1. CASE BulkLoad
      BY <1>4, <3>1, AfterProbeResult
    <3>2. CASE ~BulkLoad
      BY <1>4, <3>2, AfterProbeResult
    <3> QED
      BY <3>1, <3>2
  <2>5. PollInv'
    BY <1>0, <2>2, <2>4 DEF PollInv
  <2>6. parser'.nextOffset \in 0..MaxLen
    BY <1>0, <1>1, <2>4 DEF LogTypeOK
  <2> QED
    BY <1>1, <1>2, <2>2, <2>3, <2>4, <2>5, <2>6
<1>5. CASE LoadEntry
  <2>1. /\ rpc = "load" /\ fp \in 1..gen /\ ~dangling /\ rpc' \in {"load", "failed"}
        /\ parser.nextOffset < Len(stream) /\ parser.nextOffset \in 0..Len(stream)
        /\ parser' \in Parsers /\ parser'.nextOffset = parser.nextOffset + 1
        /\ UNCHANGED <<gen, files, fp, dangling, prober, source, seen>>
    BY <1>0, <1>5, LoadEntryResult DEF LogInv
  <2>2. WriterInv'
    BY <1>0, <1>1, <2>1, FilesKeepInv
  <2>3. PollInv'
    BY <1>0, <2>1 DEF PollInv
  <2>4. parser'.nextOffset \in 0..MaxLen /\ dangling' \in BOOLEAN
    BY <1>0, <1>1, <2>1 DEF stream, LogTypeOK
  <2> QED
    BY <1>2, <2>1, <2>2, <2>3, <2>4
<1>6. CASE EndLoad
  <2>1. /\ rpc = "load" /\ fp \in 1..gen /\ ~dangling /\ rpc' \in {"loaded", "failed", "aborted"}
        /\ parser' \in Parsers /\ parser'.nextOffset = parser.nextOffset
        /\ UNCHANGED <<gen, files, fp, dangling, prober, source, seen>>
    BY <1>0, <1>6, EndLoadResult DEF LogInv
  <2>2. WriterInv'
    BY <1>0, <1>1, <2>1, FilesKeepInv
  <2>3. PollInv'
    BY <1>0, <2>1 DEF PollInv
  <2>4. parser'.nextOffset \in 0..MaxLen /\ dangling' \in BOOLEAN
    BY <1>0, <2>1 DEF LogTypeOK
  <2> QED
    BY <1>2, <2>1, <2>2, <2>3, <2>4
<1>7. CASE LoadDangling
  <2>1. /\ rpc = "load" /\ rpc' \in {"loaded", "aborted"} /\ dangling
        /\ UNCHANGED <<gen, files, fp, dangling, parser, prober, source, seen>>
    BY <1>7 DEF LoadDangling, writer
  <2>2. WriterInv'
    BY <1>0, <1>1, <2>1, FilesKeepInv
  <2>3. PollInv'
    BY <1>0, <2>1 DEF PollInv
  <2>4. parser'.nextOffset \in 0..MaxLen /\ dangling' \in BOOLEAN
    BY <1>0, <2>1 DEF LogTypeOK
  <2> QED
    BY <1>2, <2>1, <2>2, <2>3, <2>4
<1>8. CASE PollReturns
  <2>1. /\ rpc' = "idle" /\ fp' = 0 /\ dangling' = FALSE /\ seen' = 0
        /\ files' = [files EXCEPT ![fp] = IF fp = gen THEN @ ELSE <<>>]
        /\ UNCHANGED <<gen, parser, source>>
    BY <1>8 DEF PollReturns
  <2>2. /\ fp \in 1..gen /\ DOMAIN files' = 1..MaxGen /\ prober' \in Probers
        /\ \A g \in 1..MaxGen : files'[g] = files[g] \/ files'[g] = <<>>
    BY <1>0, <1>8, PollReturnsResult DEF LogInv
  <2>3. WriterInv'
    BY <1>0, <1>1, <2>1, <2>2, EmptyFile DEF WriterInv
  <2>4. files' \in [1..MaxGen -> Seq(Record)]
    BY <1>0, <1>1, <2>1, <2>2, EmptySeq DEF LogTypeOK
  <2>5. PollInv'
    BY <1>0, <2>1, <2>2 DEF PollInv
  <2>6. parser'.nextOffset \in 0..MaxLen
    BY <1>0, <2>1 DEF LogTypeOK
  <2>7. dangling' \in BOOLEAN
    BY <2>1
  <2>8. seen' \in 0..MaxLen
    BY <1>1, <2>1
  <2> QED
    BY <1>2, <2>1, <2>3, <2>4, <2>5, <2>6, <2>7, <2>8
<1>9. CASE WriterStep /\ UNCHANGED reader
  <2>1. UNCHANGED <<rpc, fp, dangling, parser, prober, source, seen>>
    BY <1>9 DEF reader
  <2>2. WriterInv'
    BY <1>0, <1>9, <2>1, WriterStepKeepsInv
  <2>3. files' \in [1..MaxGen -> Seq(Record)]
    BY <1>0, <1>9, <2>2, WriterStepType DEF LogTypeOK
  <2>4. PollInv'
    BY <1>0, <2>1 DEF PollInv
  <2> QED
    BY <1>0, <1>2, <2>1, <2>2, <2>3, <2>4 DEF LogTypeOK
<1>10. CASE UNCHANGED <<writer, reader>>
  BY <1>0, <1>10 DEF LogInv, LogTypeOK, WriterInv, PollInv, writer, reader
<1> QED
  BY <1>3, <1>4, <1>5, <1>6, <1>7, <1>8, <1>9, <1>10 DEF LogStep

-----------------------------------------------------------------------------
(***************************************************************************)
(* The types.                                                              *)
(***************************************************************************)

\* The fields of an entry are those of its record, and what they name is there.
LEMMA EntryResult ==
  ASSUME NEW rec, NEW s, Legal(rec, s), NEW n \in Nat
  PROVE  LET e == Entry(rec, n)
         IN /\ e.op = rec.op /\ e.key = rec.key /\ e.name = rec.name /\ e.value = rec.value
            /\ e.op \in AdOps => e.key \in Keys
            /\ e.op = "SetAttribute" => e.name \in Names /\ e.value \in Values
            /\ e.op = "DeleteAttribute" => e.name \in Names /\ e.value = Null
BY DEF Entry, Legal, AdOps

\* An entry leaves jobs in the consumer's memory, whether its ad is known or not.
LEMMA EntryKeepsType ==
  ASSUME QueueTypeOK, UNCHANGED config, NEW e, ProcessLogEntry(e),
         e.op \in AdOps => e.key \in Keys,
         e.op = "SetAttribute" => e.name \in Names /\ e.value \in Values,
         e.op = "DeleteAttribute" => e.name \in Names
  PROVE  QueueTypeOK'
<1>1. CASE e.op = "NewClassAd" /\ NewClassAd(e.key)
  BY <1>1, NewClassAdResult DEF AdOps
<1>2. CASE e.op = "DestroyClassAd" /\ DestroyClassAd(e.key)
  BY <1>2 DEF DestroyClassAd, QueueTypeOK, AdOps
<1>3. CASE e.op = "SetAttribute" /\ SetAttribute(e.key, e.name, e.value)
  <2>1. CASE Known(e.key)
    BY <1>3, <2>1, AttributeResult DEF AdOps
  <2>2. CASE ~Known(e.key)
    BY <1>3, <2>2 DEF SetAttribute, QueueTypeOK
  <2> QED
    BY <2>1, <2>2
<1>4. CASE e.op = "DeleteAttribute" /\ DeleteAttribute(e.key, e.name)
  <2>1. CASE Known(e.key)
    BY <1>4, <2>1, AttributeResult DEF AdOps
  <2>2. CASE ~Known(e.key)
    BY <1>4, <2>2 DEF DeleteAttribute, QueueTypeOK
  <2> QED
    BY <2>1, <2>2
<1>5. CASE UNCHANGED queue
  BY <1>5 DEF QueueTypeOK, queue
<1> QED
  BY <1>1, <1>2, <1>3, <1>4, <1>5 DEF ProcessLogEntry

\* Every step of the daemon's reader or of the schedd is one of the log.
LEMMA NextIsLogStep ==
  ASSUME [Next]_vars
  PROVE  LogStep /\ UNCHANGED config
<1>1. CASE Poll
  BY <1>1 DEF Poll, LogStep, OpenFile, BulkLoad, StartIncrementalLoad, NoChange, ProbeFatal, Probed,
    LoadEntry, EndLoad, Reading, LoadDangling, EndPoll, PollReturns, PollFails, vars
<1> QED
  BY <1>1 DEF Next, LogStep, Terminated, vars, reader

\* The initial state.
LEMMA InitIsLogInv ==
  ASSUME ReaderInit
  PROVE  LogInv
<1>1. /\ gen = 0 /\ files = [g \in 1..MaxGen |-> <<>>] /\ fp = 0 /\ rpc = "idle" /\ dangling = FALSE
      /\ parser = Parser0 /\ prober = Prober0 /\ source = 0 /\ seen = 0
  BY DEF ReaderInit, WriterInit
<1>2. Parser0 \in Parsers /\ Parser0.nextOffset = 0 /\ Prober0 \in Probers
  BY Parser0Result DEF Prober0, Probers
<1>3. MaxGen \in Nat /\ MaxLen \in Nat
  BY WriterAssumption
<1>4. WriterInv
  BY <1>1, <1>3, EmptyFile DEF WriterInv
<1>5. LogTypeOK
  <2>1. files \in [1..MaxGen -> Seq(Record)]
    BY <1>1, EmptySeq
  <2>2. gen \in 0..MaxGen /\ fp \in 0..MaxGen /\ source \in 0..MaxGen /\ seen \in 0..MaxLen
        /\ parser.nextOffset \in 0..MaxLen
    BY <1>1, <1>2, <1>3
  <2>3. dangling \in BOOLEAN
    BY <1>1
  <2> QED
    BY <1>1, <2>1, <2>2, <2>3 DEF LogTypeOK
<1> QED
  BY <1>1, <1>2, <1>4, <1>5 DEF LogInv, PollInv

\* The consumer's memory holds jobs, whatever is read and whatever goes wrong.
LEMMA NextKeepsQueueType ==
  ASSUME QueueTypeOK, LogInv, [Next]_vars
  PROVE  QueueTypeOK'
<1>1. UNCHANGED config
  BY NextIsLogStep
<1>2. CASE BulkLoad
  BY <1>1, <1>2 DEF BulkLoad, Reset, QueueTypeOK
<1>3. CASE LoadEntry
  <2>1. PICK rec, s : Legal(rec, s) /\ parser'.cur = Entry(rec, parser.nextOffset)
    BY <1>3, LoadEntryResult
  <2>2. ProcessLogEntry(parser'.cur) /\ parser.nextOffset \in Nat
    BY <1>3, LoadEntryResult, LogInvFacts
  <2>3. PICK e : e = parser'.cur
    OBVIOUS
  <2> QED
    BY <1>1, <2>1, <2>2, <2>3, EntryResult, EntryKeepsType
<1>4. CASE EndPoll
  BY <1>1, <1>4 DEF EndPoll, QueueTypeOK
<1>5. CASE UNCHANGED queue
  BY <1>1, <1>5 DEF QueueTypeOK, queue
<1> QED
  BY <1>2, <1>3, <1>4, <1>5 DEF Next, Poll, OpenFile, StartIncrementalLoad, NoChange, ProbeFatal, EndLoad,
    LoadDangling, PollFails, Terminated, vars

\* Whatever the schedd writes and whatever goes wrong, a poll leaves jobs under the keys
\* of the memory, an offset within the bound of a file, and the daemon at one of the
\* places that the code knows.
THEOREM TypeIsCorrect == Spec => []TypeOK
<1>1. Init => QueueTypeOK /\ LogInv
  BY InitIsLogInv DEF Init, QueueInit, QueueTypeOK, Job, Config
<1>2. QueueTypeOK /\ LogInv /\ [Next]_vars => (QueueTypeOK /\ LogInv)'
  BY NextIsLogStep, NextKeepsQueueType, LogStepKeepsLogInv
<1>3. QueueTypeOK /\ LogInv => TypeOK
  BY DEF TypeOK, LogInv
<1> QED
  BY <1>1, <1>2, <1>3, PTL DEF Spec

-----------------------------------------------------------------------------
(***************************************************************************)
(* The file that the memory comes from, where no records are wiped out.    *)
(***************************************************************************)

\* A file that has grown is larger.
LEMMA GrowsIsLarger ==
  ASSUME NEW old \in Seq(Record), NEW new \in Seq(Record), Grows(old, new)
  PROVE  new = old \/ Size(new) > Size(old)
<1>1. Len(old) \in Nat /\ Len(new) \in Nat
  BY LenProperties
<1>2. ASSUME Len(old) < Len(new) PROVE Size(new) > Size(old)
  <2>1. Size(old) <= 2 * Len(old) /\ Size(new) >= 2 * Len(new) - 1
    BY <1>1 DEF Size
  <2> QED
    BY <1>1, <1>2, <2>1, SizeResult
<1>3. ASSUME old # <<>>, ~old[Len(old)].ok, new = [old EXCEPT ![Len(old)].ok = TRUE]
      PROVE  Size(new) > Size(old)
  <2>1. Size(old) = 2 * Len(old) - 1
    BY <1>3 DEF Size
  <2>2. Len(old) \in 1..Len(old)
    BY <1>1, <1>3, EmptySeq
  <2>3. Len(new) = Len(old) /\ new[Len(old)] = [old[Len(old)] EXCEPT !.ok = TRUE]
    <3>1. /\ Len([old EXCEPT ![Len(old)].ok = TRUE]) = Len(old)
          /\ \A i \in 1..Len(old) :
               [old EXCEPT ![Len(old)].ok = TRUE][i]
                 = IF i = Len(old) THEN [old[Len(old)] EXCEPT !.ok = TRUE] ELSE old[i]
      BY <1>3, CompleteResult
    <3> QED
      BY <1>3, <2>2, <3>1
  <2>4. old[Len(old)] \in Record
    BY <2>2, ElementOfSeq
  <2>5. new[Len(new)].ok
    BY <2>3, <2>4 DEF Record
  <2>6. Size(new) = 2 * Len(new)
    BY <1>1, <2>5 DEF Size
  <2> QED
    BY <1>1, <2>1, <2>3, <2>6
<1> QED
  BY <1>2, <1>3 DEF Grows

\* A file that is there after a step was there before, and is as it was or has grown; only
\* the schedd makes it grow.
LEMMA FileStays ==
  ASSUME LogInv, LogStep, "backtrack" \notin Faults
  PROVE  /\ gen' \in {gen, gen + 1}
         /\ \A g \in 1..gen : There(g)' =>
              /\ There(g)
              /\ Grows(files[g], files'[g])
              /\ files'[g] = files[g] \/ (WriterStep /\ UNCHANGED reader)
<1>1. \A f : Grows(f, f)
  BY DEF Grows
<1>2. gen \in Nat /\ fp \in 0..gen /\ \A g \in 1..gen : g \in 1..MaxGen
  BY LogInvFacts
<1>3. ASSUME UNCHANGED <<gen, files>>, fp' \in {fp, gen}
      PROVE  \A g \in 1..gen : There(g)' => There(g) /\ files'[g] = files[g]
  BY <1>3 DEF There
<1>4. CASE OpenFile
  BY <1>1, <1>3, <1>4, OpenFileResult
<1>5. CASE BulkLoad \/ StartIncrementalLoad \/ NoChange \/ ProbeFatal
  <2>1. UNCHANGED <<gen, files, fp>>
    BY <1>5 DEF BulkLoad, StartIncrementalLoad, NoChange, ProbeFatal, Probed, writer
  <2> QED
    BY <1>1, <1>3, <2>1
<1>6. CASE LoadEntry \/ EndLoad \/ LoadDangling
  <2>1. UNCHANGED <<gen, files, fp>>
    BY <1>6 DEF LoadEntry, EndLoad, Reading, LoadDangling, writer
  <2> QED
    BY <1>1, <1>3, <2>1
<1>7. CASE PollReturns
  <2>1. fp' = 0 /\ gen' = gen /\ files'[gen] = files[gen]
    BY <1>7, PollReturnsResult
  <2> QED
    BY <1>1, <2>1 DEF There
<1>8. CASE WriterStep /\ UNCHANGED reader
  <2>1. WriterGrows /\ fp' = fp
    BY <1>8, WriterStepKeepsInv DEF LogInv, reader
  <2>2. gen' \in {gen, gen + 1} /\ \A g \in 1..gen : g \in {gen', fp} => Grows(files[g], files'[g])
    BY <2>1 DEF WriterGrows
  <2>3. ASSUME NEW g \in 1..gen, There(g)' PROVE There(g) /\ Grows(files[g], files'[g])
    BY <1>2, <2>1, <2>2, <2>3 DEF There
  <2> QED
    BY <1>8, <2>2, <2>3
<1>9. CASE UNCHANGED <<writer, reader>>
  BY <1>1, <1>3, <1>9 DEF writer, reader
<1> QED
  BY <1>4, <1>5, <1>6, <1>7, <1>8, <1>9 DEF LogStep

\* Where the memory comes from.
LEMMA SourceStep ==
  ASSUME LogInv, SourceInv, LogStep, "backtrack" \notin Faults
  PROVE  SourceInv'
<1>1. gen \in Nat /\ fp \in 0..gen /\ gen' \in {gen, gen + 1}
  BY LogInvFacts, FileStays
<1>2. CASE OpenFile
  <2>1. /\ rpc = "idle" /\ rpc' = "probe" /\ gen \in 1..gen /\ fp' = gen
        /\ prober'.cur_probed_seq_num = prober.cur_probed_seq_num
        /\ prober'.last_seq_num = prober.last_seq_num
        /\ UNCHANGED <<gen, dangling, parser, source>>
    BY <1>2, OpenFileResult
  <2> QED
    BY <2>1 DEF SourceInv
<1>3. CASE BulkLoad \/ StartIncrementalLoad \/ NoChange \/ ProbeFatal
  <2>1. PICK result : Probed(result)
    BY <1>3 DEF BulkLoad, StartIncrementalLoad, NoChange, ProbeFatal
  <2>2. /\ rpc = "probe" /\ fp \in 1..gen
        /\ prober'.last_seq_num = prober.last_seq_num
        /\ prober'.cur_probed_seq_num \in {prober.cur_probed_seq_num, fp}
        /\ dangling' \in BOOLEAN
        /\ UNCHANGED <<gen, fp>>
    BY <2>1, ProbedResult
  <2>3. /\ prober.last_seq_num \in 0..fp /\ prober.cur_probed_seq_num \in 0..fp /\ source \in 0..fp
        /\ source # 0 => prober.last_seq_num <= source
        /\ source = 0 => parser.nextOffset = 0
    BY <2>2 DEF SourceInv
  <2>4. CASE BulkLoad
    <3>1. rpc' = "load" /\ parser'.nextOffset = 0 /\ source' = IF dangling' THEN 0 ELSE fp
      BY <1>3, <2>4, AfterProbeResult
    <3> QED
      BY <1>1, <2>2, <2>3, <3>1 DEF SourceInv
  <2>5. CASE ~BulkLoad
    <3>1. /\ UNCHANGED parser /\ prober.last_seq_num = fp
          /\ source' = source \/ (source = 0 /\ source' = fp)
          /\ rpc' = "load" => (source' = 0 => dangling')
          /\ rpc' \in {"load", "loaded", "aborted", "exited"}
      BY <1>3, <2>5, AfterProbeResult
    <3> QED
      BY <1>1, <2>2, <2>3, <3>1 DEF SourceInv
  <2> QED
    BY <2>4, <2>5
<1>4. CASE LoadEntry
  <2>1. rpc = "load" /\ ~dangling /\ rpc' \in {"load", "failed"}
        /\ UNCHANGED <<gen, fp, dangling, prober, source>>
    BY <1>4, LoadEntryResult
  <2> QED
    BY <2>1 DEF SourceInv
<1>5. CASE EndLoad
  <2>1. rpc = "load" /\ rpc' \in {"loaded", "failed", "aborted"} /\ parser'.nextOffset = parser.nextOffset
        /\ UNCHANGED <<gen, fp, dangling, prober, source>>
    BY <1>5, EndLoadResult
  <2> QED
    BY <2>1 DEF SourceInv
<1>6. CASE LoadDangling
  <2>1. rpc = "load" /\ rpc' \in {"loaded", "aborted"} /\ UNCHANGED <<gen, fp, dangling, parser, prober, source>>
    BY <1>6 DEF LoadDangling, writer
  <2> QED
    BY <2>1 DEF SourceInv
<1>7. CASE PollReturns
  <2>1. /\ rpc \in {"loaded", "failed"} /\ rpc' = "idle" /\ fp \in 1..gen /\ fp' = 0
        /\ prober'.cur_probed_seq_num = prober.cur_probed_seq_num
        /\ prober'.last_seq_num = prober.last_seq_num
             \/ prober'.last_seq_num = prober.cur_probed_seq_num
        /\ UNCHANGED <<gen, parser, source>>
    BY <1>7, PollReturnsResult
  <2> QED
    BY <1>1, <2>1 DEF SourceInv
<1>8. CASE WriterStep /\ UNCHANGED reader
  <2>1. UNCHANGED <<rpc, fp, dangling, parser, prober, source>>
    BY <1>8 DEF reader
  <2> QED
    BY <1>1, <2>1 DEF SourceInv
<1>9. CASE UNCHANGED <<writer, reader>>
  BY <1>9 DEF SourceInv, writer, reader
<1> QED
  BY <1>2, <1>3, <1>4, <1>5, <1>6, <1>7, <1>8, <1>9 DEF LogStep

\* What has been read is the beginning of a file of the schedd.
LEMMA ReadSoFarResult ==
  ASSUME LogInv, SourceInv, PrefixInv, source = 0 \/ There(source)
  PROVE  /\ ReadSoFar \in Seq(Record) /\ WellFormed(ReadSoFar) /\ Len(ReadSoFar) = parser.nextOffset
         /\ \A i \in 1..Len(ReadSoFar) : ~Unreadable(ReadSoFar[i])
         /\ parser.nextOffset = 0 => ReadSoFar = <<>>
<1>1. CASE source = 0
  <2>1. ReadSoFar = <<>> /\ parser.nextOffset = 0
    BY <1>1 DEF ReadSoFar, SourceInv
  <2> QED
    BY <2>1, EmptySeq, EmptyFile
<1>2. CASE source # 0
  <2>1. There(source) /\ source \in 1..gen
    BY <1>2, LogInvFacts DEF SourceInv
  <2>2. WellFormed(files[source]) /\ files[source] \in Seq(Record)
        /\ parser.nextOffset \in Nat /\ Len(files[source]) \in Nat
    BY <2>1, LogInvFacts
  <2>3. parser.nextOffset \in 0..Len(files[source])
        /\ \A i \in 1..parser.nextOffset : ~Unreadable(files[source][i])
    BY <2>1, <2>2 DEF PrefixInv
  <2>4. ReadSoFar = SubSeq(files[source], 1, parser.nextOffset)
    BY <1>2 DEF ReadSoFar
  <2>5. /\ ReadSoFar \in Seq(Record) /\ Len(ReadSoFar) = parser.nextOffset
        /\ \A i \in 1..parser.nextOffset : ReadSoFar[i] = files[source][i]
    BY <2>2, <2>3, <2>4, Prefix
  <2>6. WellFormed(ReadSoFar)
    BY <2>2, <2>3, <2>4, WellFormedPrefix
  <2> QED
    BY <2>2, <2>3, <2>5, <2>6, EmptySeq
<1> QED
  BY <1>1, <1>2

\* The records before an offset that does not move.
LEMMA PrefixStays ==
  ASSUME LogInv, SourceInv, PrefixInv, LogStep, "backtrack" \notin Faults,
         There(source)', source' = source, parser'.nextOffset = parser.nextOffset
  PROVE  /\ There(source)
         /\ parser.nextOffset \in 0..Len(files'[source])
         /\ \A i \in 1..parser.nextOffset : ~Unreadable(files'[source][i])
         /\ SubSeq(files'[source], 1, parser.nextOffset) = SubSeq(files[source], 1, parser.nextOffset)
<1>1. source \in 1..gen /\ LogInv' /\ gen' \in {gen, gen + 1} /\ gen \in Nat
  BY LogInvFacts, LogStepKeepsLogInv, FileStays DEF SourceInv, There
<1>2. There(source) /\ Grows(files[source], files'[source])
  BY <1>1, FileStays
<1>3. \A g \in 1..gen : files'[g] \in Seq(Record)
  <2>1. files' \in [1..MaxGen -> Seq(Record)] /\ \A g \in 1..gen : g \in 1..MaxGen
    BY <1>1, LogInvFacts DEF LogInv, LogTypeOK
  <2> QED
    BY <2>1
<1>4. files[source] \in Seq(Record) /\ files'[source] \in Seq(Record) /\ parser.nextOffset \in Nat
      /\ Len(files[source]) \in Nat /\ Len(files'[source]) \in Nat
  BY <1>1, <1>3, LogInvFacts, LenProperties
<1> DEFINE n == parser.nextOffset
           old == files[source]
           new == files'[source]
<1>5. n \in 0..Len(old) /\ \A i \in 1..n : ~Unreadable(old[i])
  BY <1>2, <1>4 DEF PrefixInv
<1>6. /\ Len(old) <= Len(new)
      /\ \A i \in 1..Len(old) : ~Unreadable(old[i]) => new[i] = old[i]
      /\ SubSeq(new, 1, n) = SubSeq(old, 1, n)
  BY <1>2, <1>4, <1>5, GrowsResult
<1> HIDE DEF n, old, new
<1>7. n \in 0..Len(new) /\ \A i \in 1..n : i \in 1..Len(old)
  BY <1>4, <1>5, <1>6 DEF n, old, new
<1>8. \A i \in 1..n : ~Unreadable(new[i])
  BY <1>5, <1>6, <1>7
<1> QED
  BY <1>2, <1>6, <1>7, <1>8 DEF n, old, new

\* What was read can be read again.
LEMMA PrefixStep ==
  ASSUME LogInv, SourceInv, PrefixInv, LogStep, "backtrack" \notin Faults
  PROVE  PrefixInv'
<1>1. LogInv' /\ SourceInv' /\ gen \in Nat /\ gen' \in {gen, gen + 1}
  BY LogStepKeepsLogInv, SourceStep, LogInvFacts, FileStays
<1>2. CASE parser'.nextOffset = 0
  <2>1. ASSUME There(source)' PROVE Len(files'[source']) \in Nat
    <3>1. source' \in 1..gen'
      BY <1>1, <2>1 DEF There, SourceInv
    <3> QED
      BY <1>1, <3>1, LenProperties DEF LogInv, LogTypeOK, WriterInv, WellFormed
  <2> QED
    BY <1>2, <2>1 DEF PrefixInv
<1>3. CASE source' = source /\ parser'.nextOffset = parser.nextOffset
  BY <1>3, PrefixStays DEF PrefixInv
<1>4. CASE LoadEntry
  <2>1. /\ rpc = "load" /\ fp \in 1..gen /\ ~dangling
        /\ parser.nextOffset < Len(stream) /\ parser.nextOffset \in 0..Len(stream)
        /\ ~Unreadable(stream[parser.nextOffset + 1])
        /\ parser'.nextOffset = parser.nextOffset + 1
        /\ UNCHANGED <<gen, files, fp, source>>
    BY <1>4, LoadEntryResult
  <2>2. source = fp /\ There(source) /\ Len(stream) \in Nat
    BY <2>1, LogInvFacts DEF SourceInv, There, stream
  <2>3. \A i \in 1..parser.nextOffset : ~Unreadable(stream[i])
    BY <2>2 DEF PrefixInv, stream
  <2>4. \A i \in 1..parser.nextOffset + 1 : i \in 1..parser.nextOffset \/ i = parser.nextOffset + 1
    BY <2>1, <2>2
  <2>5. \A i \in 1..parser.nextOffset + 1 : ~Unreadable(stream[i])
    BY <2>1, <2>3, <2>4
  <2>6. parser.nextOffset + 1 <= Len(stream)
    BY <2>1, <2>2
  <2> QED
    BY <2>1, <2>2, <2>5, <2>6 DEF PrefixInv, stream
<1>5. CASE BulkLoad \/ StartIncrementalLoad \/ NoChange \/ ProbeFatal
  <2>1. CASE BulkLoad
    BY <1>2, <1>5, <2>1, AfterProbeResult
  <2>2. CASE ~BulkLoad
    <3>1. UNCHANGED parser /\ (source = 0 \/ source' = source)
      BY <1>5, <2>2, AfterProbeResult
    <3>2. source = 0 => parser.nextOffset = 0
      BY DEF SourceInv
    <3> QED
      BY <1>2, <1>3, <3>1, <3>2
  <2> QED
    BY <2>1, <2>2
<1>6. CASE OpenFile \/ EndLoad \/ PollReturns
  BY <1>3, <1>6, OpenFileResult, EndLoadResult, PollReturnsResult
<1>7. CASE LoadDangling \/ (WriterStep /\ UNCHANGED reader) \/ UNCHANGED <<writer, reader>>
  BY <1>3, <1>7 DEF LoadDangling, reader
<1> QED
  BY <1>4, <1>5, <1>6, <1>7 DEF LogStep

\* The sizes.
LEMMA SizeStep ==
  ASSUME LogInv, SourceInv, SizeInv, LogStep, "backtrack" \notin Faults
  PROVE  SizeInv'
<1>1. gen \in Nat /\ fp \in 0..gen /\ gen' \in {gen, gen + 1}
      /\ prober.last_seq_num \in 0..gen /\ prober.cur_probed_seq_num \in 0..gen
      /\ prober \in Probers
  BY LogInvFacts, FileStays DEF SourceInv
<1>2. /\ prober.last_size \in Nat /\ prober.cur_probed_size \in Nat /\ seen \in Nat
      /\ \A g \in 1..gen : files[g] \in Seq(Record)
  BY <1>1, LogInvFacts DEF Probers
<1>3. \A g \in 1..gen : files'[g] \in Seq(Record)
  <2>1. files' \in [1..MaxGen -> Seq(Record)] /\ \A g \in 1..gen : g \in 1..MaxGen
    BY LogStepKeepsLogInv, LogInvFacts DEF LogInv, LogTypeOK
  <2> QED
    BY <2>1
<1>4. ASSUME NEW g \in 1..gen, There(g)'
      PROVE  /\ There(g)
             /\ Size(files[g]) \in Nat /\ Size(files'[g]) \in Nat /\ Size(files[g]) <= Size(files'[g])
             /\ ReadableLen(files[g]) \in Nat /\ ReadableLen(files'[g]) \in Nat
             /\ ReadableLen(files[g]) <= ReadableLen(files'[g])
  <2>1. There(g) /\ Grows(files[g], files'[g]) /\ files[g] \in Seq(Record) /\ files'[g] \in Seq(Record)
    BY <1>2, <1>3, <1>4, FileStays
  <2>2. Size(files[g]) \in Nat /\ Size(files'[g]) \in Nat
    BY <2>1, SizeResult
  <2>3. ReadableLen(files[g]) \in Nat /\ ReadableLen(files'[g]) \in Nat
    BY <2>1, ReadableLenResult, LenProperties
  <2>4. files'[g] = files[g] \/ Size(files'[g]) > Size(files[g])
    BY <2>1, GrowsIsLarger
  <2>5. ReadableLen(files[g]) <= ReadableLen(files'[g])
    BY <2>1, GrowsResult
  <2> QED
    BY <2>1, <2>2, <2>3, <2>4, <2>5
<1>5. ASSUME fp' = fp, prober'.cur_probed_size = prober.cur_probed_size, seen' = seen
      PROVE  fp' # 0 => prober'.cur_probed_size <= Size(stream') /\ seen' <= ReadableLen(stream')
  <2> SUFFICES ASSUME fp # 0
               PROVE  prober.cur_probed_size <= Size(files'[fp]) /\ seen <= ReadableLen(files'[fp])
    BY <1>5 DEF stream
  <2>1. PICK g \in 1..gen : g = fp
    BY <1>1
  <2>2. There(g)'
    BY <1>5, <2>1 DEF There
  <2>3. prober.cur_probed_size <= Size(files[g]) /\ seen <= ReadableLen(files[g])
    BY <2>1 DEF SizeInv, stream
  <2> QED
    BY <1>2, <1>4, <2>1, <2>2, <2>3
<1>6. ASSUME prober'.last_seq_num = prober.last_seq_num, prober'.last_size = prober.last_size
      PROVE  There(prober.last_seq_num)' => prober'.last_size <= Size(files'[prober'.last_seq_num])
  <2> SUFFICES ASSUME There(prober.last_seq_num)'
               PROVE  prober.last_size <= Size(files'[prober.last_seq_num])
    BY <1>6
  <2>1. prober.last_seq_num \in 1..gen /\ (\A g : g = prober.last_seq_num => There(g)')
    BY <1>1, <1>6 DEF There
  <2>2. PICK g \in 1..gen : g = prober.last_seq_num
    BY <2>1
  <2>3. There(g)' /\ (There(g) => prober.last_size <= Size(files[g]))
    BY <2>1, <2>2 DEF SizeInv
  <2> QED
    BY <1>2, <1>4, <2>2, <2>3
<1>7. CASE OpenFile
  <2>1. /\ rpc' = "probe" /\ gen \in 1..gen /\ fp' = gen
        /\ prober'.cur_probed_size = Size(files[gen]) /\ seen' = ReadableLen(files[gen])
        /\ prober'.last_size = prober.last_size /\ prober'.last_seq_num = prober.last_seq_num
        /\ UNCHANGED <<gen, files>>
    BY <1>7, OpenFileResult
  <2>2. Size(files[gen]) \in Nat /\ ReadableLen(files[gen]) \in Nat
    BY <1>2, <2>1, SizeResult, ReadableLenResult, LenProperties
  <2> QED
    BY <1>6, <2>1, <2>2 DEF SizeInv, stream
<1>8. CASE BulkLoad \/ StartIncrementalLoad \/ NoChange \/ ProbeFatal
  <2>1. PICK result : Probed(result)
    BY <1>8 DEF BulkLoad, StartIncrementalLoad, NoChange, ProbeFatal
  <2>2. /\ fp \in 1..gen
        /\ prober'.cur_probed_size = prober.cur_probed_size
        /\ prober'.last_size = prober.last_size /\ prober'.last_seq_num = prober.last_seq_num
        /\ stream # <<>> => prober'.cur_probed_seq_num = fp
        /\ UNCHANGED <<gen, files, fp, seen>>
    BY <2>1, ProbedResult
  <2>3. stream = <<>> => prober.cur_probed_size = 0
    <3>1. stream \in Seq(Record) /\ prober.cur_probed_size <= Size(stream)
      BY <1>2, <2>2 DEF SizeInv, stream
    <3>2. Size(stream) \in Nat /\ (stream = <<>> => Size(stream) = 0)
      BY <3>1, SizeResult
    <3> QED
      BY <1>2, <3>1, <3>2
  <2> QED
    BY <1>5, <1>6, <2>2, <2>3 DEF SizeInv
<1>9. CASE PollReturns
  <2>1. /\ rpc \in {"loaded", "failed"} /\ rpc' = "idle" /\ fp \in 1..gen /\ fp' = 0
        /\ gen \in 1..gen /\ files'[gen] = files[gen] /\ gen' = gen
        /\ \/ /\ prober'.last_size = prober.cur_probed_size
              /\ prober'.last_seq_num = prober.cur_probed_seq_num
           \/ /\ prober'.last_size = prober.last_size
              /\ prober'.last_seq_num = prober.last_seq_num
    BY <1>9, PollReturnsResult
  <2>2. ASSUME prober'.last_size = prober.cur_probed_size,
               prober'.last_seq_num = prober.cur_probed_seq_num,
               There(prober.last_seq_num)'
        PROVE  prober'.last_size <= Size(files'[prober'.last_seq_num])
    <3>1. prober.cur_probed_seq_num = gen
      BY <2>1, <2>2 DEF There
    <3>2. Size(files[gen]) \in Nat
      BY <1>2, <2>1, SizeResult
    <3>3. prober.cur_probed_size = 0 \/ prober.cur_probed_size <= Size(files[gen])
      BY <2>1, <3>1 DEF SizeInv, stream
    <3> QED
      BY <2>1, <2>2, <3>1, <3>2, <3>3
  <2> QED
    BY <1>6, <2>1, <2>2 DEF SizeInv
<1>10. CASE LoadEntry \/ EndLoad \/ LoadDangling
  <2>1. /\ rpc = "load"
        /\ UNCHANGED <<fp, prober, seen>>
    BY <1>10, LoadEntryResult, EndLoadResult DEF LoadDangling
  <2> QED
    BY <1>5, <1>6, <2>1 DEF SizeInv
<1>11. CASE (WriterStep /\ UNCHANGED reader) \/ UNCHANGED <<writer, reader>>
  <2>1. UNCHANGED <<rpc, fp, prober, seen>>
    BY <1>11 DEF reader
  <2> QED
    BY <1>5, <1>6, <2>1 DEF SizeInv
<1> QED
  BY <1>7, <1>8, <1>9, <1>10, <1>11 DEF LogStep

-----------------------------------------------------------------------------
(***************************************************************************)
(* The consumer's memory.                                                  *)
(***************************************************************************)

\* An entry that can follow those that were read does to the memory what its record says:
\* it is never refused, and the memory holds one record more.
LEMMA EntryKeepsMemory ==
  ASSUME QueueTypeOK, UNCHANGED config,
         NEW s \in Seq(Record), NEW rec, Legal(rec, s), ~Unreadable(rec),
         Holds(Replay(s), s), \A k \in g_delete_jobs : Created(k, s),
         NEW n \in Nat, NEW e, e = Entry(rec, n), ProcessLogEntry(e)
  PROVE  /\ Processed(e)
         /\ Holds(Replay(Append(s, rec)), Append(s, rec))'
         /\ \A k \in g_delete_jobs' : Created(k, Append(s, rec))
<1> DEFINE t == Append(s, rec)
           k == rec.key
           old == Replay(s)
           new == Replay(t)
<1>1. /\ rec \in Record
      /\ e.op = rec.op /\ e.key = k /\ e.name = rec.name /\ e.value = rec.value
      /\ e.op \in AdOps => k \in Keys
      /\ e.op = "SetAttribute" => rec.name \in Names /\ rec.value \in Values
      /\ e.op = "DeleteAttribute" => rec.name \in Names /\ rec.value = Null
  BY EntryResult DEF Legal
<1>2. \A l : /\ Created(l, t) <=> Created(l, s) \/ (rec.op = "NewClassAd" /\ k = l)
  BY <1>1, CreatedAppend
<1>3. \A l \in Keys :
        /\ Tells(rec, "NewClassAd", l) /\ rec.value = Null => new[l] = NoAttrs
        /\ Tells(rec, "DestroyClassAd", l) => new[l] = Null
        /\ Tells(rec, "SetAttribute", l) \/ Tells(rec, "DeleteAttribute", l) =>
             new[l] = IF old[l] = Null THEN Null ELSE [old[l] EXCEPT ![rec.name] = rec.value]
        /\ (\A op \in AdOps : ~Tells(rec, op, l)) => new[l] = old[l]
  BY <1>1, ReplayAppend
<1>4. \A l \in Keys : old[l] = Null <=> ~Alive(l, s)
  BY ReplayType
<1>5. \A l \in Keys :
        \/ old[l] # Null /\ Known(l) /\ l \notin g_delete_jobs /\ g_jobs[l].attrs = old[l]
        \/ /\ old[l] = Null
           /\ \/ ~Known(l)
              \/ l \in g_delete_jobs
              \/ g_jobs[l].attrs = NoAttrs /\ \E j \in Jobs : ClusterOf[j] = l /\ Created(j, s)
  BY DEF Holds
<1>6. rec.ok /\ rec.op # "unsupported" /\ \A op, l : Tells(rec, op, l) <=> rec.op = op /\ k = l
  BY DEF Unreadable, Tells
<1> HIDE DEF t, k, old, new
<1>7. ASSUME rec.op = "NewClassAd", NewClassAd(k)
      PROVE  \A l \in Keys :
               \/ new[l] # Null /\ Known(l)' /\ l \notin g_delete_jobs' /\ g_jobs'[l].attrs = new[l]
               \/ /\ new[l] = Null
                  /\ \/ ~Known(l)'
                     \/ l \in g_delete_jobs'
                     \/ g_jobs'[l].attrs = NoAttrs /\ \E j \in Jobs : ClusterOf[j] = l /\ Created(j, t)
  <2>1. k \in Keys /\ rec.value = Null /\ ~Created(k, s)
    BY <1>7 DEF Legal, k
  <2>2. /\ Known(k)'
        /\ \A l \in Keys : Known(l)' => Known(l) \/ l = k \/ (k \in Jobs /\ l = ClusterOf[k])
        /\ \A l \in Keys : Known(l) => Known(l)'
        /\ \A l \in Keys : Known(l)' => g_jobs'[l].attrs = IF Known(l) THEN g_jobs[l].attrs ELSE NoAttrs
        /\ g_delete_jobs' = g_delete_jobs
    BY <1>7, <2>1, NewClassAdResult
  <2>3. new[k] = NoAttrs /\ NoAttrs # Null /\ \A l \in Keys \ {k} : new[l] = old[l]
    BY <1>3, <1>6, <1>7, <2>1, JobIsNotNull DEF AdOps
  <2>4. old[k] = Null /\ k \notin g_delete_jobs
    BY <1>4, <2>1, AliveIsCreated
  <2>5. g_jobs'[k].attrs = NoAttrs
    BY <1>5, <2>1, <2>2, <2>4
  <2>6. ASSUME NEW l \in Keys, l # k
        PROVE  \/ new[l] # Null /\ Known(l)' /\ l \notin g_delete_jobs' /\ g_jobs'[l].attrs = new[l]
               \/ /\ new[l] = Null
                  /\ \/ ~Known(l)'
                     \/ l \in g_delete_jobs'
                     \/ g_jobs'[l].attrs = NoAttrs /\ \E j \in Jobs : ClusterOf[j] = l /\ Created(j, t)
    <3>1. CASE Known(l)
      BY <1>2, <1>5, <2>2, <2>3, <2>6, <3>1
    <3>2. CASE ~Known(l) /\ Known(l)'
      <4>1. k \in Jobs /\ l = ClusterOf[k] /\ Created(k, t)
        BY <1>2, <1>7, <2>2, <2>6, <3>2
      <4> QED
        BY <1>5, <2>2, <2>3, <2>6, <3>2, <4>1
    <3>3. CASE ~Known(l) /\ ~Known(l)'
      BY <1>5, <2>3, <2>6, <3>3
    <3> QED
      BY <3>1, <3>2, <3>3
  <2> QED
    BY <2>2, <2>3, <2>4, <2>5, <2>6
<1>8. CASE e.op = "NewClassAd" /\ NewClassAd(e.key)
  <2>1. Holds(new, t)'
    BY <1>1, <1>7, <1>8 DEF Holds
  <2>2. g_delete_jobs' = g_delete_jobs
    BY <1>8 DEF NewClassAd, NewClusterAd, NewJobAd
  <2> QED
    BY <1>2, <1>8, <2>1, <2>2 DEF Processed, t, new
<1>9. CASE e.op = "DestroyClassAd" /\ DestroyClassAd(e.key)
  <2>1. k \in Keys /\ Alive(k, s) /\ Created(k, s)
    BY <1>1, <1>9, AliveIsCreated DEF Legal, k
  <2>2. new[k] = Null /\ \A l \in Keys \ {k} : new[l] = old[l]
    BY <1>1, <1>3, <1>6, <1>9, <2>1 DEF AdOps
  <2>3. g_jobs' = g_jobs /\ g_delete_jobs' = g_delete_jobs \cup {k} /\ \A l \in Keys : Known(l)' <=> Known(l)
    BY <1>1, <1>9 DEF DestroyClassAd, Known
  <2>4. Holds(new, t)'
    BY <1>2, <1>5, <2>2, <2>3 DEF Holds
  <2> QED
    BY <1>2, <1>9, <2>1, <2>3, <2>4 DEF Processed, t, new
<1>10. CASE \/ e.op = "SetAttribute" /\ SetAttribute(e.key, e.name, e.value)
            \/ e.op = "DeleteAttribute" /\ DeleteAttribute(e.key, e.name)
  <2>1. k \in Keys /\ Alive(k, s) /\ rec.name \in Names
    BY <1>1, <1>10 DEF Legal, k
  <2>2. old[k] # Null /\ Known(k) /\ k \notin g_delete_jobs /\ g_jobs[k].attrs = old[k]
    BY <1>4, <1>5, <2>1
  <2>3. new[k] = [old[k] EXCEPT ![rec.name] = rec.value] /\ \A l \in Keys \ {k} : new[l] = old[l]
    <3>1. Tells(rec, "SetAttribute", k) \/ Tells(rec, "DeleteAttribute", k)
      BY <1>1, <1>6, <1>10
    <3>2. new[k] = [old[k] EXCEPT ![rec.name] = rec.value]
      BY <1>3, <2>1, <2>2, <3>1
    <3>3. ASSUME NEW l \in Keys \ {k} PROVE new[l] = old[l]
      BY <1>3, <1>6
    <3> QED
      BY <3>2, <3>3
  <2>4. DeleteAttribute(k, rec.name) \/ \E v \in Values : SetAttribute(k, rec.name, v)
    BY <1>1, <1>10
  <2>5. /\ \A l \in Keys : Known(l)' <=> Known(l)
        /\ \A l \in Keys \ {k} : g_jobs'[l] = g_jobs[l]
        /\ g_delete_jobs' = g_delete_jobs
    BY <2>1, <2>2, <2>4, AttributeResult
  <2>6. g_jobs'[k].attrs = [g_jobs[k].attrs EXCEPT ![rec.name] = rec.value]
    <3>1. CASE rec.op = "SetAttribute"
      <4>1. SetAttribute(k, rec.name, rec.value) /\ rec.value \in Values
        BY <1>1, <1>10, <3>1
      <4>2. PICK v \in Values, m \in Names : v = rec.value /\ m = rec.name
        BY <2>1, <4>1
      <4>3. SetAttribute(k, m, v)
        BY <4>1, <4>2
      <4>4. g_jobs' = [g_jobs EXCEPT ![k].attrs[m] = v] /\ g_jobs \in [Keys -> Job \cup {Null}]
            /\ g_jobs[k] \in Job
        BY <2>1, <2>2, <4>3 DEF SetAttribute, QueueTypeOK, Known
      <4>5. g_jobs'[k].attrs = [g_jobs[k].attrs EXCEPT ![m] = v]
        BY <2>1, <4>4 DEF Job
      <4> QED
        BY <4>2, <4>5
    <3>2. CASE rec.op = "DeleteAttribute"
      <4>1. DeleteAttribute(k, rec.name) /\ rec.value = Null
        BY <1>1, <1>10, <3>2
      <4>2. g_jobs'[k].attrs = [g_jobs[k].attrs EXCEPT ![rec.name] = Null]
        BY <2>1, <2>2, <4>1, AttributeResult
      <4> QED
        BY <4>1, <4>2
    <3> QED
      BY <1>1, <1>10, <3>1, <3>2
  <2>7. new[k] # Null
    <3>1. old[k] \in Attrs /\ rec.value \in Values \cup {Null}
      BY <1>1, <2>1, <2>2, ReplayType DEF Record, old
    <3>2. new[k] \in Attrs
      BY <2>3, <3>1 DEF Attrs
    <3> QED
      BY <3>2, JobIsNotNull
  <2>8. Holds(new, t)'
    <3>1. ASSUME NEW l \in Keys
          PROVE  \/ new[l] # Null /\ Known(l)' /\ l \notin g_delete_jobs' /\ g_jobs'[l].attrs = new[l]
                 \/ /\ new[l] = Null
                    /\ \/ ~Known(l)'
                       \/ l \in g_delete_jobs'
                       \/ g_jobs'[l].attrs = NoAttrs /\ \E j \in Jobs : ClusterOf[j] = l /\ Created(j, t)
      <4>1. CASE l = k
        BY <2>2, <2>3, <2>5, <2>6, <2>7, <4>1
      <4>2. CASE l # k
        BY <1>2, <1>5, <2>3, <2>5, <4>2
      <4> QED
        BY <4>1, <4>2
    <3> QED
      BY <3>1 DEF Holds
  <2> QED
    BY <1>1, <1>2, <2>2, <2>5, <2>8 DEF Processed, t, new
<1>11. CASE e.op \in KnownOps \ AdOps /\ UNCHANGED queue
  <2>1. \A l \in Keys : new[l] = old[l]
    BY <1>1, <1>3, <1>6, <1>11 DEF AdOps
  <2>2. g_jobs' = g_jobs /\ g_delete_jobs' = g_delete_jobs /\ \A l \in Keys : Known(l)' <=> Known(l)
    BY <1>11 DEF queue, Known
  <2>3. Holds(new, t)'
    BY <1>2, <1>5, <2>1, <2>2 DEF Holds
  <2> QED
    BY <1>2, <1>11, <2>2, <2>3 DEF Processed, AdOps, t, new
<1> QED
  BY <1>8, <1>9, <1>10, <1>11 DEF ProcessLogEntry

\* What has been read grows by the record that is read.
LEMMA ReadGrows ==
  ASSUME LogInv, SourceInv, PrefixInv, LoadEntry
  PROVE  \E rec :
           /\ Legal(rec, ReadSoFar) /\ ~Unreadable(rec)
           /\ parser'.cur = Entry(rec, parser.nextOffset)
           /\ ReadSoFar' = Append(ReadSoFar, rec)
           /\ There(source) /\ source = fp
<1> DEFINE n == parser.nextOffset
           rec == stream[n + 1]
<1>1. /\ rpc = "load" /\ fp \in 1..gen /\ ~dangling
      /\ n < Len(stream) /\ n \in 0..Len(stream)
      /\ ~Unreadable(rec) /\ Legal(rec, SubSeq(stream, 1, n))
      /\ parser'.cur = Entry(rec, n) /\ parser'.nextOffset = n + 1
      /\ UNCHANGED <<gen, files, fp, source>>
  BY LoadEntryResult
<1>2. source = fp /\ source # 0 /\ There(source) /\ stream \in Seq(Record)
  BY <1>1, LogInvFacts DEF SourceInv, There, stream
<1>3. ReadSoFar = SubSeq(stream, 1, n) /\ ReadSoFar' = SubSeq(stream, 1, n + 1)
  BY <1>1, <1>2 DEF ReadSoFar, stream
<1>4. SubSeq(stream, 1, n + 1) = Append(SubSeq(stream, 1, n), rec)
  BY <1>1, <1>2, PrefixGrows
<1> HIDE DEF n, rec
<1> QED
  BY <1>1, <1>2, <1>3, <1>4 DEF n

\* What has been read stays as it is when the offset does not move, as long as the file is
\* there.
LEMMA ReadStays ==
  ASSUME LogInv, SourceInv, PrefixInv, LogStep, "backtrack" \notin Faults,
         parser'.nextOffset = parser.nextOffset, source' = source \/ source = 0,
         (source = 0 \/ There(source))'
  PROVE  (source = 0 \/ There(source)) /\ ReadSoFar' = ReadSoFar
<1>1. CASE source = 0
  <2>1. parser.nextOffset = 0 /\ ReadSoFar = <<>>
    BY <1>1 DEF SourceInv, ReadSoFar
  <2>2. LogInv' /\ SourceInv' /\ PrefixInv'
    BY LogStepKeepsLogInv, SourceStep, PrefixStep
  <2>3. source' # 0 => ReadSoFar' = SubSeq(files'[source'], 1, 0)
    BY <2>1 DEF ReadSoFar
  <2>4. source' # 0 => files'[source'] \in Seq(Record)
    <3>1. files' \in [1..MaxGen -> Seq(Record)] /\ source' \in 0..MaxGen /\ MaxGen \in Nat
      BY <2>2, LogInvFacts DEF LogInv, LogTypeOK
    <3> QED
      BY <3>1
  <2>5. \A f \in Seq(Record) : SubSeq(f, 1, 0) = <<>>
    BY LenProperties, Prefix, EmptySeq
  <2> QED
    BY <1>1, <2>1, <2>3, <2>4, <2>5 DEF ReadSoFar
<1>2. CASE source # 0
  <2>1. source' = source /\ There(source)'
    BY <1>2
  <2> QED
    BY <1>2, <2>1, PrefixStays DEF ReadSoFar
<1> QED
  BY <1>1, <1>2

\* The memory is right as long as it stays as it is.
LEMMA MemoryStays ==
  ASSUME LogInv, SourceInv, PrefixInv, MemoryInv, LogStep, "backtrack" \notin Faults,
         UNCHANGED queue,
         parser'.nextOffset = parser.nextOffset, source' = source \/ source = 0
  PROVE  MemoryInv'
<1>1. g_jobs' = g_jobs /\ g_delete_jobs' = g_delete_jobs
  BY DEF queue
<1>2. ASSUME (source = 0 \/ There(source))'
      PROVE  Holds(Replay(ReadSoFar), ReadSoFar)' /\ \A k \in g_delete_jobs' : Created(k, ReadSoFar')
  <2>1. (source = 0 \/ There(source)) /\ ReadSoFar' = ReadSoFar
    BY <1>2, ReadStays
  <2>2. PICK r : r = ReadSoFar
    OBVIOUS
  <2>3. Holds(Replay(r), r) /\ \A k \in g_delete_jobs : Created(k, r)
    BY <2>1, <2>2 DEF MemoryInv
  <2>4. Holds(Replay(r), r)'
    BY <1>1, <2>3 DEF Holds, Known
  <2> QED
    BY <1>1, <2>1, <2>2, <2>3, <2>4
<1> QED
  BY <1>1, <1>2 DEF MemoryInv

\* An entry is read: it is applied, and never refused.
LEMMA MemoryLoadEntry ==
  ASSUME QueueTypeOK, LogInv, SourceInv, PrefixInv, MemoryInv, LoadEntry
  PROVE  MemoryInv' /\ Processed(parser'.cur)
<1>1. PICK rec :
        /\ Legal(rec, ReadSoFar) /\ ~Unreadable(rec)
        /\ parser'.cur = Entry(rec, parser.nextOffset)
        /\ ReadSoFar' = Append(ReadSoFar, rec)
        /\ There(source) /\ source = fp
  BY ReadGrows
<1>2. ProcessLogEntry(parser'.cur) /\ rpc' \in {"load", "failed"} /\ parser.nextOffset \in Nat /\ UNCHANGED config
  BY LoadEntryResult, LogInvFacts
<1>3. PICK s, e, n : s = ReadSoFar /\ e = parser'.cur /\ n = parser.nextOffset
  OBVIOUS
<1>4. /\ s \in Seq(Record) /\ Legal(rec, s) /\ n \in Nat /\ e = Entry(rec, n) /\ ProcessLogEntry(e)
      /\ Holds(Replay(s), s) /\ \A k \in g_delete_jobs : Created(k, s)
  BY <1>1, <1>2, <1>3, ReadSoFarResult DEF MemoryInv
<1>5. /\ Processed(e)
      /\ Holds(Replay(Append(s, rec)), Append(s, rec))'
      /\ \A k \in g_delete_jobs' : Created(k, Append(s, rec))
  BY <1>1, <1>2, <1>4, EntryKeepsMemory
<1>6. Holds(Replay(ReadSoFar), ReadSoFar)' /\ \A k \in g_delete_jobs' : Created(k, ReadSoFar')
  BY <1>1, <1>3, <1>5
<1> QED
  BY <1>2, <1>3, <1>5, <1>6 DEF MemoryInv

\* The end of a poll: what was destroyed is erased.
LEMMA MemoryEndPoll ==
  ASSUME QueueTypeOK, LogInv, SourceInv, PrefixInv, MemoryInv, EndPoll, "backtrack" \notin Faults
  PROVE  MemoryInv' /\ ErasedInv'
<1>1. PollReturns /\ LogStep /\ parser'.nextOffset = parser.nextOffset /\ source' = source
  BY PollReturnsResult DEF EndPoll, LogStep
<1>2. g_jobs' = [k \in Keys |-> IF k \in g_delete_jobs THEN Null ELSE g_jobs[k]] /\ g_delete_jobs' = {}
  BY DEF EndPoll
<1>3. ASSUME (source = 0 \/ There(source))'
      PROVE  Holds(Replay(ReadSoFar), ReadSoFar)'
  <2>1. (source = 0 \/ There(source)) /\ ReadSoFar' = ReadSoFar
    BY <1>1, <1>3, ReadStays
  <2>2. PICK r : r = ReadSoFar
    OBVIOUS
  <2>3. Holds(Replay(r), r)
    BY <2>1, <2>2 DEF MemoryInv
  <2>4. Holds(Replay(r), r)'
    BY <1>2, <2>3 DEF Holds, Known
  <2> QED
    BY <2>1, <2>2, <2>4
<1> QED
  BY <1>2, <1>3 DEF MemoryInv, ErasedInv

\* The start of a bulk load: nothing has been read, and there is nothing in the memory.
LEMMA MemoryBulkLoad ==
  ASSUME LogInv, SourceInv, PrefixInv, BulkLoad, g_delete_jobs = {}, "backtrack" \notin Faults
  PROVE  MemoryInv'
<1>1. /\ Reset /\ rpc' = "load" /\ parser'.nextOffset = 0
  BY AfterProbeResult
<1>2. g_jobs' = [k \in Keys |-> Null] /\ g_delete_jobs' = {}
  BY <1>1 DEF Reset
<1>3. LogInv' /\ SourceInv' /\ PrefixInv'
  BY LogStepKeepsLogInv, SourceStep, PrefixStep DEF LogStep
<1>4. (source = 0 \/ There(source))' => ReadSoFar' = <<>>
  <2>1. source' # 0 => files'[source'] \in Seq(Record)
    <3>1. files' \in [1..MaxGen -> Seq(Record)] /\ source' \in 0..MaxGen /\ MaxGen \in Nat
      BY <1>3, LogInvFacts DEF LogInv, LogTypeOK
    <3> QED
      BY <3>1
  <2>2. \A f \in Seq(Record) : SubSeq(f, 1, 0) = <<>>
    BY LenProperties, Prefix, EmptySeq
  <2> QED
    BY <1>1, <2>1, <2>2 DEF ReadSoFar
<1>5. Holds(Replay(<<>>), <<>>)'
  BY <1>2, ReplayNothing DEF Holds, Known
<1> QED
  BY <1>1, <1>2, <1>4, <1>5 DEF MemoryInv

\* The memory is what was read, in any order of the steps of the reader and the schedd.
LEMMA MemoryStep ==
  ASSUME QueueTypeOK, LogInv, SourceInv, PrefixInv, MemoryInv, ErasedInv, [Next]_vars,
         "backtrack" \notin Faults
  PROVE  MemoryInv' /\ ErasedInv'
<1>1. LogStep
  BY NextIsLogStep
<1>2. CASE BulkLoad
  <2>1. rpc = "probe" /\ rpc' = "load"
    BY <1>2 DEF BulkLoad, Probed
  <2> QED
    BY <1>2, <2>1, MemoryBulkLoad DEF ErasedInv
<1>3. CASE ~BulkLoad /\ (StartIncrementalLoad \/ NoChange \/ ProbeFatal)
  <2>1. /\ UNCHANGED queue /\ UNCHANGED parser /\ (source' = source \/ source = 0)
        /\ rpc' \notin {"idle", "probe"}
    BY <1>3, AfterProbeResult
  <2> QED
    BY <1>1, <2>1, MemoryStays DEF ErasedInv
<1>4. CASE LoadEntry
  BY <1>4, MemoryLoadEntry, LoadEntryResult DEF ErasedInv
<1>5. CASE EndPoll
  BY <1>5, MemoryEndPoll
<1>6. CASE EndLoad
  <2>1. /\ UNCHANGED queue /\ parser'.nextOffset = parser.nextOffset /\ source' = source
        /\ rpc' \notin {"idle", "probe"}
    BY <1>6, EndLoadResult
  <2> QED
    BY <1>1, <2>1, MemoryStays DEF ErasedInv
<1>7. CASE OpenFile \/ LoadDangling \/ (WriterStep /\ UNCHANGED <<config, queue, reader>>) \/ UNCHANGED vars
  <2>1. /\ UNCHANGED queue /\ UNCHANGED parser /\ UNCHANGED source
        /\ rpc' \in {"idle", "probe"} => rpc \in {"idle", "probe"}
    BY <1>7 DEF OpenFile, LoadDangling, reader, vars
  <2> QED
    BY <1>1, <2>1, MemoryStays DEF ErasedInv, queue
<1> QED
  BY <1>2, <1>3, <1>4, <1>5, <1>6, <1>7 DEF Next, Poll, PollFails, Terminated

\* The part of the invariant that is about what was read.
ReadInv == QueueTypeOK /\ LogInv /\ SourceInv /\ PrefixInv /\ MemoryInv /\ ErasedInv

\* It holds at the start.
LEMMA InitIsReadInv ==
  ASSUME Init
  PROVE  ReadInv
<1>1. QueueTypeOK /\ LogInv /\ g_delete_jobs = {} /\ \A k \in Keys : g_jobs[k] = Null
  BY InitIsLogInv DEF Init, QueueInit, QueueTypeOK, Job
<1>2. gen = 0 /\ fp = 0 /\ source = 0 /\ rpc = "idle" /\ parser = Parser0 /\ prober = Prober0 /\ gen \in Nat
  BY DEF Init, ReaderInit, WriterInit
<1>3. SourceInv
  BY <1>2, Parser0Result DEF SourceInv, Prober0
<1>4. PrefixInv
  BY <1>2 DEF PrefixInv, There
<1>5. ReadSoFar = <<>> /\ Holds(Replay(<<>>), <<>>)
  BY <1>1, <1>2, ReplayNothing DEF ReadSoFar, Holds, Known
<1> QED
  BY <1>1, <1>3, <1>4, <1>5 DEF ReadInv, MemoryInv, ErasedInv

\* What the invariant says of the memory.
LEMMA MemoryIsRight ==
  ASSUME LogInv, SourceInv, PrefixInv, MemoryInv
  PROVE  MemoryIsPrefix
<1> SUFFICES ASSUME source \in {0, gen, fp}
             PROVE  /\ parser.nextOffset <= Len(IF source = 0 THEN <<>> ELSE files[source])
                    /\ Holds(Replay(ReadSoFar), ReadSoFar)
                    /\ \A i \in 1..Len(ReadSoFar) : ~Unreadable(ReadSoFar[i])
  BY DEF MemoryIsPrefix
<1>1. source = 0 \/ There(source)
  BY DEF There
<1>2. parser.nextOffset <= Len(IF source = 0 THEN <<>> ELSE files[source])
  BY <1>1, EmptySeq DEF SourceInv, PrefixInv
<1> QED
  BY <1>1, <1>2, ReadSoFarResult DEF MemoryInv

-----------------------------------------------------------------------------
(***************************************************************************)
(* What a poll covers.                                                     *)
(***************************************************************************)

\* What a record that cannot be read comes after is all that can be read.
LEMMA ReadToTheEnd ==
  ASSUME NEW s \in Seq(Record), NEW n \in Nat, n < Len(s) => Unreadable(s[n + 1])
  PROVE  ReadableLen(s) <= n
<1>1. /\ ReadableLen(s) \in 0..Len(s) /\ Len(s) \in Nat
      /\ \A i \in 1..ReadableLen(s) : ~Unreadable(s[i])
  BY ReadableLenResult, LenProperties
<1> SUFFICES ASSUME n < ReadableLen(s) PROVE FALSE
  BY <1>1
<1>2. n + 1 \in 1..ReadableLen(s) /\ n < Len(s)
  BY <1>1
<1> QED
  BY <1>1, <1>2

\* What has not been read of a file goes on showing in its size.
LEMMA CoveredStays ==
  ASSUME LogInv, LogStep, "backtrack" \notin Faults,
         NEW g \in 1..gen, There(g)', NEW n \in Nat, NEW size \in Nat,
         size <= Size(files[g]), ReadableLen(files[g]) <= n \/ Size(files[g]) > size
  PROVE  ReadableLen(files'[g]) <= n \/ Size(files'[g]) > size
<1>1. files[g] \in Seq(Record) /\ Grows(files[g], files'[g])
  BY LogInvFacts, FileStays
<1>2. files'[g] \in Seq(Record)
  <2>1. files' \in [1..MaxGen -> Seq(Record)] /\ g \in 1..MaxGen
    BY LogStepKeepsLogInv, LogInvFacts DEF LogInv, LogTypeOK
  <2> QED
    BY <2>1
<1>3. files'[g] = files[g] \/ Size(files'[g]) > Size(files[g])
  BY <1>1, <1>2, GrowsIsLarger
<1>4. Size(files[g]) \in Nat /\ Size(files'[g]) \in Nat
  BY <1>1, <1>2, SizeResult
<1> QED
  BY <1>3, <1>4

\* The numbers that the invariant compares, and its parts one by one.
LEMMA CoverFacts ==
  ASSUME LogInv, SourceInv, PrefixInv, SizeInv, CoverInv, Compared
  PROVE  /\ There(source) /\ source \in 1..gen /\ files[source] \in Seq(Record)
         /\ prober.last_size \in Nat /\ prober.cur_probed_size \in Nat
         /\ ReadableLen(files[source]) \in Nat /\ Size(files[source]) \in Nat
         /\ ~dangling
         /\ parser.last.offset < Len(files[source])
         /\ ~Unreadable(files[source][parser.last.offset + 1])
         /\ rpc \in {"idle", "probe", "failed"} /\ prober.last_seq_num = source =>
              /\ prober.last_size <= Size(files[source])
              /\ ReadableLen(files[source]) <= parser.nextOffset
                   \/ Size(files[source]) > prober.last_size
         /\ rpc = "loaded" =>
              /\ prober.cur_probed_size <= Size(files[source])
              /\ ReadableLen(files[source]) <= parser.nextOffset
                   \/ Size(files[source]) > prober.cur_probed_size
<1>1. There(source) /\ source \in 1..gen /\ files[source] \in Seq(Record) /\ ~dangling
      /\ parser.last.offset < parser.nextOffset /\ parser.last.offset \in Nat /\ parser.nextOffset \in Nat
  BY LogInvFacts DEF Compared, There, SourceInv, CoverInv
<1>2. prober.last_size \in Nat /\ prober.cur_probed_size \in Nat
  BY LogInvFacts DEF Probers
<1>3. ReadableLen(files[source]) \in Nat /\ Size(files[source]) \in Nat /\ Len(files[source]) \in Nat
  BY <1>1, ReadableLenResult, SizeResult, LenProperties
<1>4. parser.last.offset < Len(files[source]) /\ ~Unreadable(files[source][parser.last.offset + 1])
  BY SMTT(30), <1>1, <1>3 DEF PrefixInv
<1>5. ASSUME prober.last_seq_num = source
      PROVE  prober.last_size <= Size(files[source])
  BY <1>1, <1>5 DEF SizeInv
<1>6. ASSUME rpc = "loaded" PROVE prober.cur_probed_size <= Size(files[source])
  BY <1>1, <1>6 DEF SizeInv, SourceInv, stream, There
<1> QED
  BY <1>1, <1>2, <1>3, <1>4, <1>5, <1>6 DEF CoverInv, Covered

\* A probe: one that finds no change has compared an entry of this file, and the size.
LEMMA CoverProbe ==
  ASSUME LogInv, SourceInv, PrefixInv, SizeInv, CoverInv,
         BulkLoad \/ StartIncrementalLoad \/ NoChange \/ ProbeFatal, "backtrack" \notin Faults
  PROVE  CoverInv'
<1>1. PICK result : Probed(result)
  BY DEF BulkLoad, StartIncrementalLoad, NoChange, ProbeFatal
<1>2. /\ rpc = "probe" /\ fp \in 1..gen
      /\ prober'.cur_probed_size = prober.cur_probed_size
      /\ stream # <<>> /\ dangling' =>
           (parser.last.offset < Len(stream) => Unreadable(stream[parser.last.offset + 1]))
      /\ UNCHANGED <<gen, files, fp, seen>>
  BY <1>1, ProbedResult
<1>3. LogInv' /\ LogStep
  BY LogStepKeepsLogInv DEF LogStep
<1>4. CASE BulkLoad
  <2>1. parser'.nextOffset = 0 /\ parser'.last.offset \in Nat
    BY <1>3, <1>4, AfterProbeResult, LogInvFacts DEF LogInv, PollInv, Parsers, Entries
  <2>2. ~Compared'
    BY <2>1 DEF Compared
  <2> QED
    BY <2>2 DEF CoverInv
<1>5. CASE ~BulkLoad
  <2>1. /\ UNCHANGED parser /\ prober.last_seq_num = fp /\ stream # <<>>
        /\ source' = source \/ (source = 0 /\ source' = fp)
        /\ rpc' \in {"load", "loaded", "aborted", "exited"}
        /\ rpc' = "loaded" => prober.cur_probed_size = prober.last_size
    BY <1>5, AfterProbeResult
  <2> SUFFICES ASSUME Compared'
               PROVE  /\ ~dangling'
                      /\ rpc' = "loaded" => Covered(prober.cur_probed_size)' /\ seen' <= parser'.nextOffset
    BY <2>1 DEF CoverInv
  <2>2. Compared /\ source' = source
    <3>1. parser.last.offset \in Nat /\ parser.last.offset < parser.nextOffset
      BY <2>1, LogInvFacts DEF Compared
    <3>2. source # 0
      BY <3>1 DEF SourceInv
    <3> QED
      BY <1>2, <2>1, <3>1, <3>2 DEF Compared, There
  <2>3. source = fp /\ prober.last_seq_num = source
    BY <1>2, <2>1, <2>2, LogInvFacts DEF SourceInv, Compared, There
  <2>4. ~dangling'
    BY <1>2, <2>1, <2>2, <2>3, CoverFacts DEF stream
  <2>5. ASSUME rpc' = "loaded"
        PROVE  Covered(prober.cur_probed_size)' /\ seen' <= parser'.nextOffset
    <3>1. prober.cur_probed_size = prober.last_size /\ prober.last_size \in Nat
      BY <2>1, <2>2, <2>5, CoverFacts
    <3>2. seen <= parser.nextOffset
      BY <1>2, <2>2, <2>3, <3>1 DEF CoverInv
    <3>3. Covered(prober.last_size)
      BY <1>2, <2>2, <2>3 DEF CoverInv
    <3> QED
      BY <1>2, <2>1, <2>2, <3>1, <3>2, <3>3 DEF Covered
  <2> QED
    BY <2>4, <2>5
<1> QED
  BY <1>4, <1>5

\* The end of the entries: an end of the file, or a record that cannot be read.
LEMMA CoverEndLoad ==
  ASSUME LogInv, SourceInv, SizeInv, EndLoad
  PROVE  CoverInv'
<1>1. /\ rpc = "load" /\ fp \in 1..gen /\ ~dangling
      /\ rpc' \in {"loaded", "failed", "aborted"}
      /\ parser.nextOffset < Len(stream) => Unreadable(stream[parser.nextOffset + 1])
      /\ parser'.nextOffset = parser.nextOffset
      /\ UNCHANGED <<gen, files, fp, dangling, prober, source, seen>>
  BY EndLoadResult
<1>2. source = fp
  BY <1>1 DEF SourceInv
<1>3. stream \in Seq(Record) /\ parser.nextOffset \in Nat /\ seen \in Nat
  BY <1>1, LogInvFacts DEF stream
<1>4. ReadableLen(stream) <= parser.nextOffset /\ ReadableLen(stream) \in Nat
  BY <1>1, <1>3, ReadToTheEnd, ReadableLenResult, LenProperties
<1>5. seen <= parser.nextOffset
  BY <1>1, <1>3, <1>4, LogInvFacts DEF SizeInv
<1>6. ReadableLen(files'[source']) <= parser'.nextOffset
  BY <1>1, <1>2, <1>4 DEF stream
<1> QED
  BY <1>1, <1>5, <1>6 DEF CoverInv, Covered

\* fopen: what has not been read shows in the size that fstat says.
LEMMA CoverOpenFile ==
  ASSUME LogInv, SourceInv, PrefixInv, SizeInv, CoverInv, OpenFile, "backtrack" \notin Faults
  PROVE  CoverInv'
<1>1. /\ rpc = "idle" /\ rpc' = "probe" /\ gen \in 1..gen /\ fp = 0 /\ fp' = gen
      /\ prober'.cur_probed_size = Size(files[gen]) /\ seen' = ReadableLen(files[gen])
      /\ prober'.last_size = prober.last_size /\ prober'.last_seq_num = prober.last_seq_num
      /\ UNCHANGED <<gen, files, dangling, parser, source>>
  BY OpenFileResult
<1>2. ASSUME Compared'
      PROVE  /\ Compared /\ ~dangling'
             /\ prober.last_seq_num = source =>
                  /\ Covered(prober.last_size)
                  /\ source = gen => seen' <= parser.nextOffset \/ prober'.cur_probed_size > prober.last_size
  <2>1. Compared
    BY <1>1, <1>2 DEF Compared, There
  <2> QED
    BY <1>1, <2>1 DEF CoverInv, Covered
<1> QED
  BY <1>1, <1>2 DEF CoverInv, Covered

\* The end of a poll: the sizes that it saw are kept if it ended well.
LEMMA CoverPollReturns ==
  ASSUME LogInv, SourceInv, PrefixInv, SizeInv, CoverInv, PollReturns
  PROVE  CoverInv'
<1>1. /\ rpc \in {"loaded", "failed"} /\ rpc' = "idle"
      /\ fp \in 1..gen /\ fp' = 0 /\ ~dangling'
      /\ files'[gen] = files[gen]
      /\ IF rpc = "loaded"
         THEN prober'.last_size = prober.cur_probed_size
              /\ prober'.last_seq_num = prober.cur_probed_seq_num
         ELSE prober'.last_size = prober.last_size
              /\ prober'.last_seq_num = prober.last_seq_num
      /\ UNCHANGED <<gen, parser, source>>
  BY PollReturnsResult
<1>2. ASSUME Compared', prober'.last_seq_num = source'
      PROVE  Covered(prober.last_size)'
  <2>1. Compared /\ source = gen
    BY <1>1, <1>2 DEF Compared, There
  <2>2. CASE rpc = "loaded"
    BY <1>1, <2>1, <2>2 DEF CoverInv, Covered
  <2>3. CASE rpc = "failed"
    BY <1>1, <1>2, <2>1, <2>3 DEF CoverInv, Covered
  <2> QED
    BY <1>1, <2>2, <2>3
<1> QED
  BY <1>1, <1>2 DEF CoverInv

\* The schedd writes.
LEMMA CoverWriterStep ==
  ASSUME LogInv, SourceInv, PrefixInv, SizeInv, CoverInv, WriterStep, UNCHANGED reader,
         "backtrack" \notin Faults
  PROVE  CoverInv'
<1>1. LogStep /\ UNCHANGED <<rpc, fp, dangling, parser, prober, source, seen>>
  BY DEF LogStep, reader
<1>2. ASSUME Compared' PROVE Compared /\ source \in 1..gen
  <2>1. There(source)' /\ source' = source /\ parser' = parser /\ source \in 0..gen
    BY <1>1, <1>2 DEF Compared, SourceInv
  <2>2. source \in 1..gen
    BY <2>1, LogInvFacts DEF There
  <2>3. PICK g \in 1..gen : g = source
    BY <2>2
  <2>4. There(g)'
    BY <2>1, <2>3 DEF There
  <2>5. There(g)
    BY <1>1, <2>4, FileStays
  <2> QED
    BY <1>2, <2>1, <2>2, <2>3, <2>5 DEF Compared
<1>3. ASSUME Compared', NEW size \in Nat, size <= Size(files[source]),
             ReadableLen(files[source]) <= parser.nextOffset \/ Size(files[source]) > size
      PROVE  ReadableLen(files'[source]) <= parser.nextOffset \/ Size(files'[source]) > size
  <2>1. PICK g \in 1..gen : g = source
    BY <1>2, <1>3
  <2>2. There(g)' /\ parser.nextOffset \in Nat
    BY <1>1, <1>3, <2>1, LogInvFacts DEF Compared, There
  <2> QED
    BY <1>1, <1>3, <2>1, <2>2, CoveredStays
<1>4. ASSUME Compared' PROVE Compared /\ ~dangling'
  BY <1>1, <1>2, <1>4 DEF CoverInv
<1>5. ASSUME Compared', rpc' \in {"idle", "probe", "failed"}, prober'.last_seq_num = source'
      PROVE  Covered(prober.last_size)'
  <2>1. /\ prober.last_size <= Size(files[source]) /\ prober.last_size \in Nat
        /\ ReadableLen(files[source]) <= parser.nextOffset
             \/ Size(files[source]) > prober.last_size
    BY <1>1, <1>2, <1>5, CoverFacts
  <2>2. ReadableLen(files'[source]) <= parser.nextOffset \/ Size(files'[source]) > prober.last_size
    BY <1>3, <1>5, <2>1
  <2> QED
    BY <1>1, <2>2 DEF Covered
<1>6. ASSUME Compared', rpc' = "loaded"
      PROVE  Covered(prober.cur_probed_size)'
  <2>1. /\ prober.cur_probed_size <= Size(files[source]) /\ prober.cur_probed_size \in Nat
        /\ ReadableLen(files[source]) <= parser.nextOffset
             \/ Size(files[source]) > prober.cur_probed_size
    BY <1>1, <1>2, <1>6, CoverFacts
  <2>2. ReadableLen(files'[source]) <= parser.nextOffset \/ Size(files'[source]) > prober.cur_probed_size
    BY <1>3, <1>6, <2>1
  <2> QED
    BY <1>1, <2>2 DEF Covered
<1> QED
  BY <1>1, <1>4, <1>5, <1>6 DEF CoverInv

\* What can be read has been read, or the size will tell.
LEMMA CoverStep ==
  ASSUME LogInv, SourceInv, PrefixInv, SizeInv, CoverInv, LogStep, LoadEntry => rpc' = "load",
         "backtrack" \notin Faults
  PROVE  CoverInv'
<1>1. CASE OpenFile
  BY <1>1, CoverOpenFile
<1>2. CASE BulkLoad \/ StartIncrementalLoad \/ NoChange \/ ProbeFatal
  BY <1>2, CoverProbe
<1>3. CASE LoadEntry
  <2>1. rpc' = "load" /\ ~dangling'
    BY <1>3, LoadEntryResult
  <2> QED
    BY <2>1 DEF CoverInv
<1>4. CASE EndLoad
  BY <1>4, CoverEndLoad
<1>5. CASE LoadDangling
  <2>1. dangling /\ UNCHANGED <<gen, fp, parser, source>>
    BY <1>5 DEF LoadDangling, writer
  <2>2. ~Compared'
    BY <2>1 DEF CoverInv, Compared, There
  <2> QED
    BY <2>2 DEF CoverInv
<1>6. CASE PollReturns
  BY <1>6, CoverPollReturns
<1>7. CASE WriterStep /\ UNCHANGED reader
  BY <1>7, CoverWriterStep
<1>8. CASE UNCHANGED <<writer, reader>>
  BY <1>8 DEF CoverInv, Compared, Covered, There, stream, writer, reader
<1> QED
  BY <1>1, <1>2, <1>3, <1>4, <1>5, <1>6, <1>7, <1>8 DEF LogStep

\* No entry is refused: what the entries before it have said makes it possible.
LEMMA EntryIsTaken ==
  ASSUME QueueTypeOK, LogInv, SourceInv, PrefixInv, MemoryInv, LoadEntry
  PROVE  rpc' = "load"
BY LoadEntryResult, MemoryLoadEntry

\* The inductive invariant holds.
THEOREM Inductive == ASSUME "backtrack" \notin Faults PROVE Spec => []ReaderInv
<1>1. Init => ReadInv /\ SizeInv /\ CoverInv
  <2> SUFFICES ASSUME Init PROVE ReadInv /\ SizeInv /\ CoverInv
    OBVIOUS
  <2>1. gen = 0 /\ fp = 0 /\ source = 0 /\ rpc = "idle"
    BY DEF Init, ReaderInit, WriterInit
  <2>2. ~There(source) /\ ~There(prober.last_seq_num)
    BY <2>1 DEF There
  <2> QED
    BY <2>1, <2>2, InitIsReadInv DEF SizeInv, CoverInv, Compared
<1>2. ReadInv /\ SizeInv /\ CoverInv /\ [Next]_vars => (ReadInv /\ SizeInv /\ CoverInv)'
  BY NextIsLogStep, NextKeepsQueueType, LogStepKeepsLogInv, SourceStep, PrefixStep, MemoryStep,
     SizeStep, EntryIsTaken, CoverStep DEF ReadInv
<1>3. ReadInv /\ SizeInv /\ CoverInv => ReaderInv
  BY DEF ReadInv, ReaderInv, LogInv, TypeOK
<1> QED
  BY <1>1, <1>2, <1>3, PTL DEF Spec

\* What the invariant says of a poll that has ended.
LEMMA PollIsRight ==
  ASSUME LogInv, SourceInv, CoverInv
  PROVE  PollCovers
<1> SUFFICES ASSUME rpc \in {"loaded", "failed"}, source # 0, ~dangling,
                    parser.last.offset < parser.nextOffset
             PROVE  source = fp /\ parser.nextOffset >= seen
  BY DEF PollCovers
<1>1. source = fp
  BY DEF SourceInv
<1>2. Compared
  BY <1>1 DEF Compared, There
<1>3. seen <= parser.nextOffset /\ seen \in Nat /\ parser.nextOffset \in Nat
  BY <1>2, LogInvFacts DEF CoverInv
<1> QED
  BY <1>1, <1>3

\* Without backtracking the memory is always what the records before the next offset say,
\* and every one of them can be read: no record is skipped, applied twice or applied to what
\* an earlier file left behind, through compressions, torn records and failed polls.
THEOREM MemoryIsWhatWasRead == ASSUME "backtrack" \notin Faults PROVE Spec => []MemoryIsPrefix
<1>1. ReaderInv => MemoryIsPrefix
  BY MemoryIsRight DEF ReaderInv, LogInv, TypeOK
<1> QED
  BY <1>1, Inductive, PTL

\* Without backtracking, a poll that ends holds every record that could be read when it
\* began, in whatever order the schedd and the reader make their steps.
THEOREM PollsCover == ASSUME "backtrack" \notin Faults PROVE Spec => []PollCovers
<1>1. ReaderInv => PollCovers
  BY PollIsRight DEF ReaderInv, LogInv, TypeOK
<1> QED
  BY <1>1, Inductive, PTL

-----------------------------------------------------------------------------
(***************************************************************************)
(* What makes a probe throw the memory away, and what does not.            *)
(***************************************************************************)

\* The entries of the parser after it has read, or tried to.
LEMMA ReadEntries ==
  ASSUME NEW file \in Seq(Record), NEW p \in Parsers
  PROVE  LET q == readLogEntry(file, p).parser
             n == p.nextOffset
         IN /\ n >= Len(file) => q = p
            /\ n < Len(file) =>
                 q.last = p.cur /\ q.cur.op = file[n + 1].op /\ q.cur.offset = n
<1> DEFINE n == p.nextOffset
           rec == file[n + 1]
           last == Assign(Init0(p.cur.op), p.cur)
           cur == [Init0(rec.op) EXCEPT !.offset = n]
           begun == [p EXCEPT !.last = last, !.cur = cur]
           q == readLogEntry(file, p).parser
<1>1. n \in Nat /\ Len(file) \in Nat /\ p.cur \in Entries
  BY LenProperties DEF Parsers
<1>2. CASE n >= Len(file)
  BY <1>1, <1>2 DEF readLogEntry
<1>3. CASE n < Len(file)
  <2>1. last = p.cur
    BY <1>1 DEF Assign, Init0, Entries
  <2>2. cur.op = rec.op /\ cur.offset = n
    BY DEF Init0
  <2>3. begun.last = last /\ begun.cur = cur /\ DOMAIN begun = {"nextOffset", "cur", "last"}
    <3> HIDE DEF cur, last
    <3> QED
      BY DEF Parsers
  <2>4. readLogEntry(file, p) =
          CASE rec.op \notin KnownOps -> [err |-> "FILE_READ_ERROR", parser |-> begun]
            [] rec.op \in KnownOps /\ rec.ok ->
                 [err |-> "FILE_READ_SUCCESS",
                  parser |-> [begun EXCEPT !.cur = Entry(rec, n), !.nextOffset = n + 1]]
            [] rec.op \in KnownOps /\ ~rec.ok ->
                 IF Bracketed(file, n) THEN [err |-> "FILE_FATAL_ERROR", parser |-> begun]
                 ELSE [err |-> "FILE_READ_EOF", parser |-> Rewound(begun, n)]
    BY <1>1, <1>3 DEF readLogEntry
  <2>5. Entry(rec, n).op = rec.op /\ Entry(rec, n).offset = n
    BY DEF Entry
  <2>6. PICK c : c = [Assign(cur, last) EXCEPT !.offset = n]
    OBVIOUS
  <2>7. c.op = rec.op /\ c.offset = n
    BY <1>1, <2>1, <2>2, <2>6 DEF Assign, Entries
  <2>8. Rewound(begun, n) = [begun EXCEPT !.cur = c]
    BY <2>3, <2>6 DEF Rewound
  <2> HIDE DEF begun, cur, last, rec, n
  <2>9. q \in {begun, [begun EXCEPT !.cur = Entry(rec, n), !.nextOffset = n + 1], [begun EXCEPT !.cur = c]}
    <3> DEFINE e == Entry(rec, n)
    <3> HIDE DEF e
    <3>1. readLogEntry(file, p).parser \in {begun, [begun EXCEPT !.cur = e, !.nextOffset = n + 1], [begun EXCEPT !.cur = c]}
      BY <2>4, <2>8 DEF e
    <3> QED
      BY <3>1 DEF e
  <2>10. q.last = last /\ q.cur \in {cur, Entry(rec, n), c}
    <3> HIDE DEF q
    <3> QED
      BY <2>3, <2>9
  <2>11. q.cur.op = rec.op /\ q.cur.offset = n
    BY <2>2, <2>5, <2>7, <2>10
  <2> HIDE DEF q
  <2> QED
    BY <1>1, <1>3, <2>1, <2>10, <2>11 DEF q, n, rec
<1> QED
  BY <1>1, <1>2, <1>3

\* The probe of a file that has its first record.
LEMMA ProbeOfLog ==
  ASSUME NEW file \in Seq(Record), NEW g \in Nat, Numbered(file, g), file # <<>>,
         NEW pr \in Probers, NEW entry \in Entries
  PROVE  probe(pr, file, entry) =
           CASE pr.last_size = 0 -> "INIT_QUILL"
             [] pr.last_size # 0 /\ pr.last_seq_num # g -> "COMPRESSED"
             [] pr.last_size # 0 /\ pr.last_seq_num = g ->
                  CASE SecondRead(file, entry).err = "FILE_FATAL_ERROR" -> "PROBE_FATAL_ERROR"
                    [] SecondRead(file, entry).err = "FILE_READ_ERROR" -> "PROBE_ERROR"
                    [] OTHER -> Comparison(pr, Equal(SecondRead(file, entry).parser.cur, entry))
<1> DEFINE first == FirstRead(file)
           second == SecondRead(file, entry)
<1>1. first.err = "FILE_READ_SUCCESS" /\ first.parser.cur.op = "LogHistoricalSequenceNumber"
      /\ first.parser.cur.key = g
  BY FirstReadResult
<1>2. SeqNum(pr, file) = g
  BY <1>1 DEF SeqNum, ReadFails
<1>3. ReadsTwice(pr, file) <=> pr.last_size # 0 /\ g = pr.last_seq_num
  BY <1>1, <1>2 DEF ReadsTwice, ReadFails
<1>4. probe(pr, file, entry) =
        CASE pr.last_size = 0 -> "INIT_QUILL"
          [] pr.last_size # 0 /\ ~ReadsTwice(pr, file) -> "COMPRESSED"
          [] ReadsTwice(pr, file) /\ second.err = "FILE_FATAL_ERROR" -> "PROBE_FATAL_ERROR"
          [] ReadsTwice(pr, file) /\ second.err = "FILE_READ_ERROR" -> "PROBE_ERROR"
          [] OTHER -> Comparison(pr, Equal(second.parser.cur, entry))
  BY <1>1 DEF probe, ReadFails
<1> HIDE DEF first, second
<1>5. CASE pr.last_size = 0
  BY <1>3, <1>4, <1>5
<1>6. CASE pr.last_size # 0 /\ pr.last_seq_num # g
  BY <1>3, <1>4, <1>6
<1>7. CASE pr.last_size # 0 /\ pr.last_seq_num = g
  BY <1>3, <1>4, <1>7 DEF second
<1> QED
  BY <1>5, <1>6, <1>7

\* The entry to compare is looked for behind the end of the file: no probe takes the file
\* for what it was.
LEMMA ProbeOfShorter ==
  ASSUME NEW file \in Seq(Record), NEW g \in Nat, Numbered(file, g),
         NEW pr \in Probers, NEW entry \in Entries, Len(file) <= entry.offset,
         entry.op = "LogHistoricalSequenceNumber" => entry.offset = 0
  PROVE  probe(pr, file, entry) \in {"INIT_QUILL", "COMPRESSED", "PROBE_ERROR"}
<1>1. CASE file = <<>>
  BY <1>1, ProbeResult
<1>2. CASE file # <<>>
  <2> DEFINE first == FirstRead(file)
             second == SecondRead(file, entry)
  <2>1. first.parser \in Parsers /\ first.parser.cur.op = "LogHistoricalSequenceNumber"
    BY <1>2, FirstReadResult
  <2>2. entry.offset \in Nat /\ Len(file) \in Nat /\ Len(file) # 0
    BY <1>2, LenProperties, EmptySeq DEF Entries
  <2> HIDE DEF first
  <2>3. PICK p : p = setNextOffset(first.parser, entry.offset)
    OBVIOUS
  <2>4. p \in Parsers /\ p.nextOffset = entry.offset /\ p.cur = first.parser.cur
    BY <2>1, <2>2, <2>3, SetNextOffsetResult
  <2>5. second = readLogEntry(file, p)
    BY <2>3 DEF SecondRead, first
  <2>6. second.err = "FILE_READ_EOF" /\ second.parser = p
    BY <2>4, <2>5, ReadResult, ReadEntries
  <2>7. ~Equal(second.parser.cur, entry)
    BY <2>1, <2>2, <2>4, <2>6 DEF Equal
  <2>8. Comparison(pr, Equal(second.parser.cur, entry)) = "PROBE_ERROR"
    BY <2>7 DEF Comparison
  <2> HIDE DEF second
  <2>9. SecondRead(file, entry) = second
    BY DEF second
  <2> QED
    BY <1>2, <2>6, <2>8, <2>9, ProbeOfLog
<1> QED
  BY <1>1, <1>2

\* The entry to compare is where it was, and the file is no shorter: there is no reason to
\* throw anything away.
LEMMA ProbeOfSame ==
  ASSUME NEW file \in Seq(Record), NEW g \in Nat, Numbered(file, g), file # <<>>,
         NEW pr \in Probers, pr.last_size # 0, pr.last_seq_num = g,
         pr.last_size <= pr.cur_probed_size,
         NEW n \in Nat, n < Len(file), ~Unreadable(file[n + 1])
  PROVE  probe(pr, file, Entry(file[n + 1], n)) \in {"NO_CHANGE", "ADDITION"}
<1> DEFINE rec == file[n + 1]
           entry == Entry(rec, n)
           first == FirstRead(file)
           second == SecondRead(file, entry)
<1>1. Len(file) \in Nat /\ rec \in Record /\ first.parser \in Parsers
  BY LenProperties, ElementOfSeq, FirstReadResult
<1>2. rec.op \in KnownOps
  <2> HIDE DEF rec
  <2> QED
    BY <1>1 DEF Unreadable, Record, rec
<1>3. entry \in Entries /\ entry.offset = n /\ entry.op = rec.op
  <2>1. entry.offset = n /\ entry.op = rec.op
    BY DEF Entry
  <2> HIDE DEF rec
  <2> QED
    BY <1>1, <2>1, EntriesMade
<1> HIDE DEF first, entry
<1>4. PICK p : p = setNextOffset(first.parser, entry.offset)
  OBVIOUS
<1>5. p \in Parsers /\ p.nextOffset = n
  BY <1>1, <1>3, <1>4, SetNextOffsetResult
<1>6. second = readLogEntry(file, p)
  BY <1>4 DEF SecondRead, first
<1>7. second.err = "FILE_READ_SUCCESS" /\ second.parser.cur = entry
  BY <1>5, <1>6, ReadResult DEF entry
<1>8. Equal(second.parser.cur, entry)
  BY <1>2, <1>3, <1>7 DEF Equal
<1> HIDE DEF second, rec
<1>9. probe(pr, file, entry) = Comparison(pr, Equal(second.parser.cur, entry))
  BY <1>3, <1>7, ProbeOfLog DEF second
<1>10. Comparison(pr, Equal(second.parser.cur, entry)) \in {"NO_CHANGE", "ADDITION"}
  BY <1>8 DEF Comparison, Probers
<1> QED
  BY <1>9, <1>10 DEF entry, rec

\* Only the first record of a file reads as one.
LEMMA SeqNumStep ==
  ASSUME LogInv, SeqNumInv, LogStep
  PROVE  SeqNumInv'
<1>1. CASE parser'.cur = parser.cur /\ parser'.last = parser.last
  BY <1>1 DEF SeqNumInv
<1>2. CASE LoadEntry \/ EndLoad
  <2> DEFINE n == parser.nextOffset
  <2>1. fp \in 1..gen
    BY <1>2, LoadEntryResult, EndLoadResult
  <2>2. WellFormed(stream) /\ stream \in Seq(Record) /\ parser \in Parsers /\ n \in Nat /\ Len(stream) \in Nat
    BY <2>1, LogInvFacts DEF stream
  <2>3. parser' = readLogEntry(stream, parser).parser
    BY <1>2 DEF LoadEntry, EndLoad, read
  <2>4. CASE n >= Len(stream)
    BY <1>1, <2>2, <2>3, <2>4, ReadEntries
  <2>5. CASE n < Len(stream)
    <3>1. parser'.last = parser.cur /\ parser'.cur.op = stream[n + 1].op /\ parser'.cur.offset = n
      BY <2>2, <2>3, <2>5, ReadEntries
    <3>2. n + 1 \in 1..Len(stream) /\ n + 1 - 1 = n /\ n \in 0..Len(stream)
      BY <2>2, <2>5
    <3>3. Legal(stream[n + 1], Before(stream, n + 1))
      BY <2>2, <3>2 DEF WellFormed
    <3>4. Len(Before(stream, n + 1)) = n
      <4> HIDE DEF n
      <4>1. Before(stream, n + 1) = SubSeq(stream, 1, n)
        BY <3>2 DEF Before
      <4> QED
        BY <2>2, <3>2, <4>1, Prefix
    <3>5. stream[n + 1].op = "LogHistoricalSequenceNumber" => n = 0
      BY <3>3, <3>4, EmptySeq DEF Legal
    <3> QED
      BY <3>1, <3>5 DEF SeqNumInv
  <2> QED
    BY <2>2, <2>4, <2>5
<1>3. CASE BulkLoad
  <2>1. parser \in Parsers /\ parser' = setNextOffset(parser, 0)
    BY <1>3, LogInvFacts DEF BulkLoad
  <2> QED
    BY <1>1, <2>1, SetNextOffsetResult
<1>4. CASE UNCHANGED parser
  BY <1>1, <1>4
<1> QED
  BY <1>2, <1>3, <1>4 DEF LogStep, OpenFile, StartIncrementalLoad, NoChange, ProbeFatal, LoadDangling,
    PollReturns, reader

\* Where no record is written in two parts, every record stays complete.
LEMMA UntornStays ==
  ASSUME LogInv, Untorn, LogStep, "tear" \notin Faults
  PROVE  Untorn'
<1>1. CASE UNCHANGED files
  BY <1>1 DEF Untorn
<1>2. CASE PollReturns
  <2>1. \A g \in 1..MaxGen : files'[g] = files[g] \/ files'[g] = <<>>
    BY <1>2, PollReturnsResult
  <2> QED
    BY <2>1, EmptySeq DEF Untorn
<1>3. CASE WriterStep /\ UNCHANGED reader
  BY <1>3, UntornStep DEF LogInv, reader
<1> QED
  BY <1>1, <1>2, <1>3 DEF LogStep, OpenFile, BulkLoad, StartIncrementalLoad, NoChange, ProbeFatal, Probed,
    LoadEntry, EndLoad, Reading, LoadDangling, writer

\* The entries of the parser stay those of the file.
LEMMA LastTwoStays ==
  ASSUME LogInv, SourceInv, PrefixInv, LogStep, "backtrack" \notin Faults, Untorn, LastTwoInv,
         source' = source, parser' = parser
  PROVE  LastTwoInv'
<1> DEFINE n == parser.nextOffset
           old == files[source]
           new == files'[source]
<1> SUFFICES ASSUME There(source)', Intact(new)
             PROVE  /\ n > 0 => parser.cur = Entry(new[n], n - 1)
                    /\ n > 1 => parser.last = Entry(new[n - 1], n - 2)
  BY DEF LastTwoInv
<1>1. There(source) /\ n \in 0..Len(new)
  BY PrefixStays
<1>2. source \in 1..gen /\ source \in 1..MaxGen /\ LogInv'
  BY <1>1, LogInvFacts, LogStepKeepsLogInv DEF SourceInv, There
<1>3. old \in Seq(Record) /\ new \in Seq(Record) /\ Grows(old, new)
  <2>1. files' \in [1..MaxGen -> Seq(Record)]
    BY <1>2 DEF LogInv, LogTypeOK
  <2> QED
    BY <1>2, <2>1, LogInvFacts, FileStays
<1>4. n \in 0..Len(old) /\ Len(old) \in Nat /\ Len(new) \in Nat
  BY <1>1, <1>2, <1>3, LogInvFacts, LenProperties DEF PrefixInv
<1>5. \A i \in 1..Len(old) : old[i].ok
  BY <1>2 DEF Untorn
<1> HIDE DEF n, old, new
<1>6. Len(old) <= Len(new) /\ \A i \in 1..Len(old) : new[i] = old[i]
  BY <1>3, <1>4, <1>5, EmptySeq DEF Grows
<1>7. Intact(old)
  BY <1>4, <1>6 DEF Intact
<1>8. /\ n > 0 => parser.cur = Entry(old[n], n - 1)
      /\ n > 1 => parser.last = Entry(old[n - 1], n - 2)
  BY <1>1, <1>7 DEF LastTwoInv, n, old
<1> QED
  BY <1>4, <1>6, <1>8

\* An entry that is read is the next of the file.
LEMMA LastTwoStep ==
  ASSUME LogInv, SourceInv, PrefixInv, LogStep, "backtrack" \notin Faults, Untorn, LastTwoInv
  PROVE  LastTwoInv'
<1> DEFINE n == parser.nextOffset
<1>1. CASE parser'.nextOffset = 0
  BY <1>1 DEF LastTwoInv
<1>2. CASE source' = source /\ parser' = parser
  BY <1>2, LastTwoStays
<1>3. CASE LoadEntry \/ EndLoad
  <2>1. rpc = "load" /\ fp \in 1..gen /\ ~dangling /\ UNCHANGED <<gen, files, fp, source>>
    BY <1>3, LoadEntryResult, EndLoadResult
  <2>2. source = fp /\ There(source) /\ files[source] = stream
    BY <2>1, LogInvFacts DEF SourceInv, There, stream
  <2>3. stream \in Seq(Record) /\ parser \in Parsers /\ n \in Nat /\ Len(stream) \in Nat /\ n <= Len(stream)
    BY <2>1, <2>2, LogInvFacts DEF stream, PrefixInv
  <2>4. parser' = readLogEntry(stream, parser).parser
    BY <1>3 DEF LoadEntry, EndLoad, read
  <2>5. CASE n >= Len(stream)
    BY <1>2, <2>1, <2>3, <2>4, <2>5, ReadEntries
  <2>6. CASE n < Len(stream)
    <3> SUFFICES ASSUME Intact(stream)
                 PROVE  /\ parser'.nextOffset = n + 1 /\ parser'.cur = Entry(stream[n + 1], n)
                        /\ n > 0 => parser'.last = Entry(stream[n], n - 1)
      <4> SUFFICES ASSUME Intact(stream) PROVE LastTwoInv'
        BY <2>1, <2>2 DEF LastTwoInv
      <4>1. /\ parser'.nextOffset = n + 1 /\ parser'.cur = Entry(stream[n + 1], n)
            /\ n > 0 => parser'.last = Entry(stream[n], n - 1)
        OBVIOUS
      <4>2. PICK m : m = parser'.nextOffset
        OBVIOUS
      <4>3. m - 1 = n /\ m - 2 = n - 1 /\ (m > 1 => n > 0)
        BY <2>3, <4>1, <4>2
      <4> HIDE DEF n
      <4>4. /\ parser'.cur = Entry(stream[m], m - 1)
            /\ m > 1 => parser'.last = Entry(stream[m - 1], m - 2)
        <5>1. n + 1 = m
          BY <4>1, <4>2
        <5> QED
          BY <4>1, <4>3, <5>1
      <4>5. files'[source'] = stream
        BY <2>1, <2>2
      <4> QED
        BY <4>2, <4>4, <4>5 DEF LastTwoInv
    <3>1. ~Unreadable(stream[n + 1])
      BY <2>3, <2>6 DEF Intact
    <3>2. parser'.nextOffset = n + 1 /\ parser'.cur = Entry(stream[n + 1], n)
      BY <2>3, <2>4, <2>6, <3>1, ReadResult
    <3>3. parser'.last = parser.cur
      BY <2>3, <2>4, <2>6, ReadEntries
    <3>4. n > 0 => parser.cur = Entry(stream[n], n - 1)
      BY <2>2 DEF LastTwoInv
    <3> QED
      BY <3>2, <3>3, <3>4
  <2> QED
    BY <2>3, <2>5, <2>6
<1>4. CASE BulkLoad \/ StartIncrementalLoad \/ NoChange \/ ProbeFatal
  <2>1. CASE BulkLoad
    BY <1>1, <1>4, <2>1, AfterProbeResult
  <2>2. CASE ~BulkLoad
    <3>1. UNCHANGED parser /\ (source = 0 \/ source' = source)
      BY <1>4, <2>2, AfterProbeResult
    <3>2. source = 0 => parser.nextOffset = 0
      BY DEF SourceInv
    <3> QED
      BY <1>1, <1>2, <3>1, <3>2
  <2> QED
    BY <2>1, <2>2
<1>5. CASE OpenFile \/ PollReturns
  BY <1>2, <1>5, OpenFileResult, PollReturnsResult
<1>6. CASE LoadDangling \/ (WriterStep /\ UNCHANGED reader) \/ UNCHANGED <<writer, reader>>
  BY <1>2, <1>6 DEF LoadDangling, reader
<1> QED
  BY <1>3, <1>4, <1>5, <1>6 DEF LogStep

\* The size that a poll compares was there when the file was opened.
LEMMA LengthStep ==
  ASSUME LogInv, SizeInv, LengthInv, LogStep
  PROVE  LengthInv'
<1>1. CASE rpc' # "probe"
  BY <1>1 DEF LengthInv
<1>2. CASE UNCHANGED <<rpc, fp, prober>>
  BY <1>2 DEF LengthInv
<1>3. CASE OpenFile
  BY <1>3, OpenFileResult DEF LengthInv, SizeInv, There
<1>4. CASE LoadEntry \/ EndLoad \/ PollReturns
  BY <1>1, <1>4, LoadEntryResult, EndLoadResult, PollReturnsResult
<1>5. CASE BulkLoad \/ StartIncrementalLoad \/ NoChange \/ ProbeFatal
  BY <1>1, <1>5, AfterProbeResult
<1>6. CASE LoadDangling
  BY <1>1, <1>6 DEF LoadDangling
<1> QED
  BY <1>2, <1>3, <1>4, <1>5, <1>6 DEF LogStep, reader

\* All that the absence of a cause rests on.
LEMMA CauseStep ==
  ASSUME LogInv, SourceInv, PrefixInv, SizeInv, CauseInv, LogStep,
         "tear" \notin Faults, "backtrack" \notin Faults
  PROVE  CauseInv'
BY UntornStays, LastTwoStep, LengthStep DEF CauseInv

\* They hold in the initial state.
LEMMA InitIsCause ==
  ASSUME ReaderInit
  PROVE  SeqNumInv /\ CauseInv
<1>1. /\ files = [g \in 1..MaxGen |-> <<>>] /\ rpc = "idle" /\ parser = Parser0
  BY DEF ReaderInit, WriterInit
<1>2. SeqNumInv /\ parser.nextOffset = 0
  BY <1>1, Parser0Result DEF SeqNumInv, Parser0, Blank, Init0
<1> QED
  BY <1>1, <1>2, EmptySeq DEF CauseInv, Untorn, LastTwoInv, LengthInv

\* A step from a probe of a file with a first record.
LEMMA ProbeStep ==
  ASSUME LogInv, rpc = "probe", BulkLoad
  PROVE  probe(prober, stream, parser.last) \in {"INIT_QUILL", "COMPRESSED", "PROBE_ERROR"}
BY DEF BulkLoad, Probed

\* A memory read from a file that nothing is wrong with is not thrown away.
LEMMA NoCauseNoReset ==
  ASSUME LogInv, SourceInv, PrefixInv, CauseInv, BulkLoad,
         rpc = "probe", source = fp, prober.last_seq_num = fp, prober.last_size # 0,
         parser.nextOffset > 1, ReadableLen(stream) = Len(stream)
  PROVE  FALSE
<1> DEFINE n == parser.nextOffset
<1>1. fp \in 1..gen /\ There(source) /\ files[source] = stream
  BY LogInvFacts DEF LogInv, PollInv, There, stream
<1>2. stream \in Seq(Record) /\ Numbered(stream, fp) /\ fp \in Nat /\ prober \in Probers
      /\ n \in Nat /\ Len(stream) \in Nat
  BY <1>1, LogInvFacts DEF stream
<1>3. n <= Len(stream)
  BY <1>1 DEF PrefixInv
<1>4. Intact(stream)
  BY <1>2, ReadableLenResult DEF Intact
<1>5. n - 2 \in Nat /\ n - 2 < Len(stream) /\ n - 2 + 1 = n - 1 /\ n - 1 \in 1..Len(stream) /\ stream # <<>>
  BY <1>2, <1>3, EmptySeq
<1>6. ~Unreadable(stream[n - 2 + 1])
  BY <1>4, <1>5 DEF Intact
<1>7. parser.last = Entry(stream[n - 2 + 1], n - 2)
  BY <1>1, <1>4, <1>5 DEF CauseInv, LastTwoInv
<1>8. prober.last_size <= prober.cur_probed_size
  BY DEF CauseInv, LengthInv
<1> HIDE DEF n
<1>9. probe(prober, stream, parser.last) \in {"NO_CHANGE", "ADDITION"}
  BY <1>2, <1>5, <1>6, <1>7, <1>8, ProbeOfSame
<1> QED
  BY <1>9, ProbeStep

\* A log that ends before the entry to compare is read from its start.
LEMMA ShorterIsReset ==
  ASSUME LogInv, SeqNumInv, [Next]_vars, rpc = "probe", Len(stream) <= parser.last.offset, rpc' # "probe"
  PROVE  BulkLoad
<1>1. fp \in 1..gen
  BY LogInvFacts DEF LogInv, PollInv
<1>2. stream \in Seq(Record) /\ Numbered(stream, fp) /\ fp \in Nat /\ prober \in Probers /\ parser.last \in Entries
  BY <1>1, LogInvFacts DEF stream
<1>3. probe(prober, stream, parser.last) \in {"INIT_QUILL", "COMPRESSED", "PROBE_ERROR"}
  BY <1>2, ProbeOfShorter DEF SeqNumInv
<1>4. ~Probed("ADDITION") /\ ~Probed("NO_CHANGE") /\ ~Probed("PROBE_FATAL_ERROR")
  BY <1>3 DEF Probed
<1> QED
  BY <1>4 DEF Next, Poll, OpenFile, StartIncrementalLoad, NoChange, ProbeFatal, LoadEntry, EndLoad, Reading,
    LoadDangling, EndPoll, PollReturns, PollFails, Terminated, vars, reader

\* What a BulkLoad leaves behind: no ad, and the next offset at the start.
LEMMA BulkLoadForgets == ASSUME LogInv, BulkLoad PROVE Forgotten'
<1>1. parser' = setNextOffset(parser, 0) /\ g_jobs' = [k \in Keys |-> Null]
  BY DEF BulkLoad, Reset
<1>2. parser \in Parsers
  BY DEF LogInv, PollInv
<1>3. parser'.nextOffset = 0
  BY <1>1, <1>2 DEF setNextOffset, Parsers
<1> QED
  BY <1>1, <1>3 DEF Forgotten, Known

\* Whatever goes wrong, a log that ends before the entry that the probe compares is
\* forgotten as a whole at that probe, wiped out records included: the end of the file is
\* never taken for that entry, so that the consumer is reset (ClassAdLogReader.cpp:105-111).
THEOREM ShorterLogsAreForgotten == Spec => WipedOutForgotten
<1>1. Init => LogInv /\ SeqNumInv
  BY InitIsLogInv, InitIsCause DEF Init
<1>2. LogInv /\ SeqNumInv /\ [Next]_vars => (LogInv /\ SeqNumInv)'
  BY NextIsLogStep, LogStepKeepsLogInv, SeqNumStep
<1>3. LogInv /\ SeqNumInv /\ [Next]_vars =>
        [rpc = "probe" /\ Len(stream) <= parser.last.offset /\ rpc' # "probe" => Forgotten']_vars
  BY ShorterIsReset, BulkLoadForgets
<1> QED
  BY <1>1, <1>2, <1>3, PTL DEF Spec, WipedOutForgotten

\* A log that nothing is wrong with is not read again from its start: a reload has one of
\* the causes that the header of the reader names.
THEOREM ResetsHaveACause ==
  ASSUME "tear" \notin Faults, "backtrack" \notin Faults
  PROVE  Spec => ResetOnlyForCause
<1>1. Init => CauseInv
  BY InitIsCause DEF Init
<1>2. ReaderInv /\ CauseInv /\ [Next]_vars => CauseInv'
  BY CauseStep, NextIsLogStep DEF ReaderInv, LogInv, TypeOK
<1>3. ReaderInv /\ CauseInv /\ [Next]_vars =>
        [/\ rpc = "probe"
         /\ source = fp
         /\ prober.last_seq_num = fp
         /\ prober.last_size # 0
         /\ parser.nextOffset > 1
         /\ ReadableLen(stream) = Len(stream)
         => ~BulkLoad]_vars
  BY NoCauseNoReset DEF ReaderInv, LogInv, TypeOK
<1> QED
  BY <1>1, <1>2, <1>3, Inductive, PTL DEF Spec, ResetOnlyForCause
=============================================================================
