--------------------------- MODULE ClassAdLogText ---------------------------
(***************************************************************************)
(* ClassAdLogParser on the characters of a log that grows one character at *)
(* a time.  ClassAdLogParser.tla reads records instead: the two are made   *)
(* here to read the same log, step by step.                                *)
(***************************************************************************)
EXTENDS LogRecord

CONSTANTS
  Null,        \* no field
  Lines,       \* what the schedd may write: an op and its fields
  MaxRecords   \* bound: how many of them

\* The same parser over records; what keys, names and values are does not matter to it.
Records == INSTANCE ClassAdLogParser
           WITH Clusters <- {}, Jobs <- {}, ClusterOf <- <<>>, Names <- {}, Values <- {}

FieldCount(op) ==
  CASE op \in {"BeginTransaction", "EndTransaction"} -> 0
    [] op \in {"DestroyClassAd", "unsupported"} -> 1
    [] op = "DeleteAttribute" -> 2
    [] op \in {"NewClassAd", "SetAttribute", "LogHistoricalSequenceNumber"} -> 3

Words == Seq(Chars \ Spaces) \ {<<>>}

\* The fields of a record are words, but for a value, which is the rest of the line and,
\* if it is that of an attribute, may be empty.
IsLine(line) ==
  /\ line.op \in Records!KnownOps \cup {"unsupported"}
  /\ line.fields \in Seq(Seq(Chars \ {Newline}))
  /\ Len(line.fields) = FieldCount(line.op)
  /\ \A i \in 1 .. Len(line.fields) :
       \/ line.fields[i] \in Words
       \/ i = 3 /\ line.op = "SetAttribute"
       \/ i = 3 /\ line.op = "LogHistoricalSequenceNumber" /\ line.fields[i] # <<>>

ASSUME LinesAssumption ==
  /\ MaxRecords \in Nat
  /\ \A line \in Lines : IsLine(line)

\* The op codes of log.h, and one that the parser does not know.
OpCode(op) ==
  CASE op = "NewClassAd" -> 101
    [] op = "DestroyClassAd" -> 102
    [] op = "SetAttribute" -> 103
    [] op = "DeleteAttribute" -> 104
    [] op = "BeginTransaction" -> 105
    [] op = "EndTransaction" -> 106
    [] op = "LogHistoricalSequenceNumber" -> 107
    [] op = "unsupported" -> 999

Header(op) ==
  LET code == OpCode(op)
  IN <<Digit(code \div 100), Digit((code \div 10) % 10), Digit(code % 10)>>

Text(line) == Write(Header(line.op), line.fields)

-----------------------------------------------------------------------------
(***************************************************************************)
(* readLogEntry on characters.                                             *)
(***************************************************************************)
Field(body, read) ==
  [ok |-> read.ok, fields |-> Append(body.fields, read.string), pos |-> read.pos]

NextWord(text, body) == IF body.ok THEN Field(body, readword(text, body.pos)) ELSE body
NextLine(text, body) == IF body.ok THEN Field(body, readline(text, body.pos)) ELSE body

\* The fields that the body's functions read one after another, until one fails.
readBody(text, pos, op) ==
  LET none == [ok |-> TRUE, fields |-> <<>>, pos |-> pos]
      one == NextWord(text, none)
      two == NextWord(text, one)
  IN CASE op \in {105, 106} ->
            [ok |-> CharAt(text, pos + 1) = Newline, fields |-> <<>>,
             pos |-> IF pos = Len(text) THEN pos ELSE pos + 1]
       [] op = 102 -> one
       [] op = 104 -> two
       [] op = 101 -> NextWord(text, two)
       [] op \in {103, 107} -> NextLine(text, two)

\* After an unreadable body: the lines to the end of the file are searched for an
\* EndTransaction.  A line that cannot be read ends the search.
Recovery(text, pos) ==
  LET starts == {pos} \cup {i \in pos + 1 .. Len(text) : text[i] = Newline}
      Ends(i) == ~readline(text, i).ok \/ atoi(readline(text, i).string) = 106
      last == readline(text, Min({i \in starts : Ends(i)}))
  IN IF ~last.ok /\ last.eof THEN "FILE_READ_EOF" ELSE "FILE_FATAL_ERROR"

\* The result code, the entry if there is one, and the next offset.
readTextEntry(text, start) ==
  LET header == readword(text, start)
      op == atoi(header.string)
      body == readBody(text, header.pos, op)
  IN CASE ~header.ok -> [err |-> "FILE_READ_EOF", op |-> 0, fields |-> <<>>, pos |-> start]
       [] header.ok /\ op \notin 101..107 ->
            [err |-> "FILE_READ_ERROR", op |-> op, fields |-> <<>>, pos |-> start]
       [] header.ok /\ op \in 101..107 ->
            [err |-> IF body.ok THEN "FILE_READ_SUCCESS" ELSE Recovery(text, body.pos),
             op |-> op, fields |-> body.fields,
             pos |-> IF body.ok THEN body.pos ELSE start]

-----------------------------------------------------------------------------
VARIABLES
  log,       \* the records that the schedd has begun to write
  ends,      \* where each of them ends
  file,      \* the characters that are in the file
  offset,    \* nextOffset
  entries,   \* the entries that the consumer has been given
  parser,    \* the same reader as ClassAdLogParser has it, over records
  aborted    \* an unreadable record in a transaction has ended the process

written == <<log, ends, file>>
vars == <<written, offset, entries, parser, aborted>>

\* Where record i begins; that of a record not yet begun, where all others end.
Begin(i) == IF i = 1 THEN 0 ELSE ends[i - 1]

FieldOf(line, i) == IF i <= Len(line.fields) THEN line.fields[i] ELSE Null

\* A record as ClassAdLogParser has it: it can be read once all of it is there, and
\* never if its value is empty.
AsRecord(i) ==
  [op |-> log[i].op,
   key |-> FieldOf(log[i], 1), name |-> FieldOf(log[i], 2), value |-> FieldOf(log[i], 3),
   ok |-> /\ Len(file) >= ends[i]
          /\ log[i].op = "SetAttribute" => FieldOf(log[i], 3) # <<>>]

\* The records of whose header all is there.
Seen(i) == Len(file) > Begin(i) + Len(Header(log[i].op))
records == [i \in {j \in 1 .. Len(log) : Seen(j)} |-> AsRecord(i)]

Init ==
  /\ log = <<>>
  /\ ends = <<>>
  /\ file = <<>>
  /\ offset = 0
  /\ entries = <<>>
  /\ parser = Records!Parser0
  /\ aborted = FALSE

AllWritten == Len(file) = Begin(Len(log) + 1)

BeginRecord(line) ==
  /\ AllWritten
  /\ Len(log) < MaxRecords
  /\ log' = Append(log, line)
  /\ ends' = Append(ends, Len(file) + Len(Text(line)))
  /\ UNCHANGED <<file, offset, entries, parser, aborted>>

WriteChar ==
  /\ ~AllWritten
  /\ file' = Append(file, Text(log[Len(log)])[Len(file) + 1 - Begin(Len(log))])
  /\ UNCHANGED <<log, ends, offset, entries, parser, aborted>>

\* One call of readLogEntry, on characters and on records.
ReadEntry ==
  /\ ~aborted
  /\ LET read == readTextEntry(file, offset)
     IN /\ offset' = read.pos
        /\ entries' = IF read.err = "FILE_READ_SUCCESS"
                      THEN Append(entries, [op |-> read.op, fields |-> read.fields])
                      ELSE entries
        /\ aborted' = (read.err = "FILE_FATAL_ERROR")
  /\ parser' = Records!readLogEntry(records, parser).parser
  /\ UNCHANGED written

Finished == AllWritten /\ Len(log) = MaxRecords /\ aborted /\ UNCHANGED vars

Next == (\E line \in Lines : BeginRecord(line)) \/ WriteChar \/ ReadEntry \/ Finished

Spec == Init /\ [][Next]_vars

-----------------------------------------------------------------------------
\* Wherever the file is cut off, what has been read is what was written: no record is
\* taken before all of it is there, none is cut short or runs into the next, and the
\* next offset is that of the next record.
EntriesAreWritten ==
  /\ Len(entries) <= Len(log)
  /\ \A i \in 1 .. Len(entries) :
       entries[i] = [op |-> OpCode(log[i].op), fields |-> log[i].fields]
  /\ offset = Begin(Len(entries) + 1)

\* Reading characters and reading records is the same, wherever the file is cut off:
\* the same result and the same entry, so that what the runs of ClassAdLogReader show
\* about records is true of the text.
ReadsAsRecords ==
  ~aborted =>
    LET text == readTextEntry(file, offset)
        record == Records!readLogEntry(records, parser)
    IN /\ text.err = record.err
       /\ text.err = "FILE_READ_SUCCESS" =>
            /\ text.op = OpCode(record.parser.cur.op)
            /\ <<FieldOf(text, 1), FieldOf(text, 2), FieldOf(text, 3)>> =
                 LET cur == record.parser.cur IN <<cur.key, cur.name, cur.value>>
            /\ parser.nextOffset = Len(entries)
-----------------------------------------------------------------------------
(***************************************************************************)
(* Why they hold: an inductive invariant.                                  *)
(***************************************************************************)
\* The part is in the text at the position, as far as the text goes.
At(text, pos, part) ==
  \A i \in 1 .. Len(part) : pos + i <= Len(text) => text[pos + i] = part[i]

\* The file holds the records begun, one after another, all but the last one whole, and
\* where a line ends in it, so does a record.
WrittenInv ==
  /\ log \in Seq(Lines)
  /\ ends \in Seq(Nat)
  /\ file \in Seq(Chars)
  /\ Len(ends) = Len(log)
  /\ \A i \in 1 .. Len(log) : ends[i] = Begin(i) + Len(Text(log[i])) /\ At(file, Begin(i), Text(log[i]))
  /\ \A i, j \in 1 .. Len(log) : i < j => ends[i] <= Begin(j)
  /\ Len(file) \in (IF log = <<>> THEN 0 ELSE Begin(Len(log))) .. Begin(Len(log) + 1)
  /\ \A i \in 1 .. Len(file) : file[i] = Newline => \E j \in 1 .. Len(log) : i = ends[j]

\* The next offset is in the file, the one of the other parser counts the entries.
ReaderInv ==
  /\ entries \in Seq([op : Nat, fields : Seq(Seq(Chars))])
  /\ offset <= Len(file)
  /\ parser = [nextOffset |-> Len(entries), cur |-> parser.cur, last |-> parser.last]
  /\ aborted \in BOOLEAN

TextInv ==
  /\ WrittenInv
  /\ ReaderInv
  /\ EntriesAreWritten
=============================================================================
