-------------------------- MODULE ClassAdLogProber --------------------------
(***************************************************************************)
(* ClassAdLogProber: what has happened to the log since the last poll?     *)
(* The modification and creation times it keeps decide nothing.            *)
(***************************************************************************)
EXTENDS ClassAdLogParser

Prober0 == [last_size |-> 0, last_seq_num |-> 0,
            cur_probed_size |-> 0, cur_probed_seq_num |-> 0]

\* What fstat says, in half records.
Size(file) == 2 * Len(file) - (IF file # <<>> /\ ~file[Len(file)].ok THEN 1 ELSE 0)

(***************************************************************************)
(* The two reads of probe, with a parser of its own: the first record, and *)
(* the one at the offset of the entry it is given.  Both go through the    *)
(* caller's stream, so that one that fails closes the caller's stream.     *)
(***************************************************************************)
FirstRead(file) == readLogEntry(file, Parser0)

SecondRead(file, entry) ==
  readLogEntry(file, setNextOffset(FirstRead(file).parser, entry.offset))

ReadFails(read) == read.err # "FILE_READ_SUCCESS"

\* A first record that is not read says nothing: the number of the poll before
\* it is still there.
SeqNum(prober, file) ==
  IF ReadFails(FirstRead(file)) \/ FirstRead(file).parser.cur.op # "LogHistoricalSequenceNumber"
  THEN prober.cur_probed_seq_num
  ELSE FirstRead(file).parser.cur.key

ReadsTwice(prober, file) ==
  /\ ~ReadFails(FirstRead(file))
  /\ FirstRead(file).parser.cur.op = "LogHistoricalSequenceNumber"
  /\ prober.last_size # 0
  /\ SeqNum(prober, file) = prober.last_seq_num

ClosesStream(prober, file, entry) ==
  \/ ReadFails(FirstRead(file))
  \/ ReadsTwice(prober, file) /\ ReadFails(SecondRead(file, entry))

\* Mutated forms of Comparison: only the contents count; only the sizes count; an
\* addition is an error.
ComparisonOfContents(prober, same) == IF same THEN "NO_CHANGE" ELSE "PROBE_ERROR"

ComparisonOfSizes(prober, same) ==
  CASE prober.cur_probed_size = prober.last_size -> "NO_CHANGE"
    [] prober.cur_probed_size > prober.last_size -> "ADDITION"
    [] OTHER -> "PROBE_ERROR"

ComparisonOfEquals(prober, same) ==
  IF same /\ prober.cur_probed_size = prober.last_size THEN "NO_CHANGE" ELSE "PROBE_ERROR"

(***************************************************************************)
(* The result of the second half of probe, given that the entry at the     *)
(* offset of the one before the last that was read is again the same, or   *)
(* is not, and what the size has become.                                   *)
(***************************************************************************)
Comparison(prober, same) ==
  CASE same /\ prober.cur_probed_size = prober.last_size -> "NO_CHANGE"
    [] same /\ prober.cur_probed_size > prober.last_size -> "ADDITION"
    [] OTHER -> "PROBE_ERROR"

probe(prober, file, entry) ==
  LET first == FirstRead(file)
      second == SecondRead(file, entry)
  IN CASE first.err = "FILE_FATAL_ERROR" -> "PROBE_FATAL_ERROR"
       [] first.err \in {"FILE_READ_EOF", "FILE_READ_ERROR"} -> "PROBE_ERROR"
       [] ~ReadFails(first) /\ first.parser.cur.op # "LogHistoricalSequenceNumber" ->
            "PROBE_FATAL_ERROR"
       [] ~ReadFails(first) /\ first.parser.cur.op = "LogHistoricalSequenceNumber" ->
            CASE prober.last_size = 0 -> "INIT_QUILL"
              [] prober.last_size # 0 /\ ~ReadsTwice(prober, file) -> "COMPRESSED"
              [] ReadsTwice(prober, file) /\ second.err = "FILE_FATAL_ERROR" -> "PROBE_FATAL_ERROR"
              [] ReadsTwice(prober, file) /\ second.err = "FILE_READ_ERROR" -> "PROBE_ERROR"
              [] OTHER -> Comparison(prober, Equal(second.parser.cur, entry))

incrementProbeInfo(prober) ==
  [prober EXCEPT !.last_size = prober.cur_probed_size,
                 !.last_seq_num = prober.cur_probed_seq_num]
=============================================================================
