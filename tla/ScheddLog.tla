------------------------------ MODULE ScheddLog ------------------------------
(***************************************************************************)
(* The job queue log and the schedd that writes it.  None of this is in    *)
(* the repository: it is what the code and its tests rely on.              *)
(*                                                                         *)
(* The log is appended to, one record or part of a record at a time.  To   *)
(* compress it, the schedd writes the ads it holds to a new file with the  *)
(* next sequence number and renames that file over the old one; a reader   *)
(* that has the old file open keeps the old file.                          *)
(***************************************************************************)
EXTENDS ClassAdLogParser, Functions

CONSTANTS
  MaxLen,    \* bound: records in a file
  MaxGen,    \* bound: files, the first and one per compression
  Written,   \* the types of record the schedd writes
  Faults     \* what else it does: a subset of KnownFaults

(***************************************************************************)
(* empty: the new log is there for a while before its first record is.     *)
(* tear: the header of a record can be there before the body is.           *)
(* crash: a schedd can die between the two; the next one goes on after it. *)
(* backtrack: an open transaction is wiped out by truncating the file.     *)
(***************************************************************************)
KnownFaults == {"empty", "tear", "crash", "backtrack"}

ASSUME WriterAssumption ==
  /\ MaxLen \in Nat \ {0}
  /\ MaxGen \in Nat \ {0}
  /\ Written \subseteq KnownOps \cup {"unsupported"}
  /\ Faults \subseteq KnownFaults

VARIABLES
  gen,       \* the sequence number of the log, 0 before there is one
  files,     \* by sequence number: the log, and the file the reader has open
  wiped,     \* the extents of the log before it was cut back
  fp         \* that file, 0 while there is none

writer == <<gen, files, wiped>>

log == files[gen]

Rec(op, key, name, value) ==
  [op |-> op, key |-> key, name |-> name, value |-> value, ok |-> TRUE]

SeqNumRecord(g) == Rec("LogHistoricalSequenceNumber", g, Null, Null)

-----------------------------------------------------------------------------
(***************************************************************************)
(* What the records of a log say: the attributes of every ad, Null for one *)
(* that is not there.  Begin and End change nothing, and no transaction is *)
(* taken back here; Committed does that.                                   *)
(***************************************************************************)
Tells(rec, op, k) == rec.ok /\ rec.op = op /\ rec.key = k

\* An ad is there from its NewClassAd to its DestroyClassAd.
Alive(k, records) ==
  \E i \in 1..Len(records) :
    /\ Tells(records[i], "NewClassAd", k)
    /\ \A j \in i + 1 .. Len(records) : ~Tells(records[j], "DestroyClassAd", k)

\* The records that decide about an attribute; only a SetAttribute has a value.
Decides(rec, k, n) ==
  \/ Tells(rec, "NewClassAd", k)
  \/ Tells(rec, "SetAttribute", k) /\ rec.name = n
  \/ Tells(rec, "DeleteAttribute", k) /\ rec.name = n

IsLastWord(i, k, n, records) ==
  /\ Decides(records[i], k, n)
  /\ \A j \in i + 1 .. Len(records) : ~Decides(records[j], k, n)

LastWord(k, n, records) == CHOOSE i \in 1..Len(records) : IsLastWord(i, k, n, records)

Replay(records) ==
  [k \in Keys |->
     IF Alive(k, records) THEN [n \in Names |-> records[LastWord(k, n, records)].value] ELSE Null]

Unreadable(rec) == ~rec.ok \/ rec.op = "unsupported"

\* How many records come before the first that cannot be read.
ReadableLen(file) ==
  CHOOSE n \in 0..Len(file) :
    /\ \A i \in 1..n : ~Unreadable(file[i])
    /\ n < Len(file) => Unreadable(file[n + 1])

\* Where the open transaction of a file begins, if it has one; a record that
\* is not complete belongs to no transaction.
LastOf(op, file) ==
  LET at == {i \in 1..Len(file) : file[i].op = op /\ file[i].ok}
  IN IF at = {} THEN 0 ELSE CHOOSE i \in at : \A j \in at : j <= i

InTransaction(file) == LastOf("BeginTransaction", file) > LastOf("EndTransaction", file)

CommittedLen(file) ==
  IF InTransaction(file) THEN LastOf("BeginTransaction", file) - 1
  ELSE IF file # <<>> /\ ~file[Len(file)].ok THEN Len(file) - 1 ELSE Len(file)

Committed(file) == SubSeq(file, 1, CommittedLen(file))

-----------------------------------------------------------------------------
(***************************************************************************)
(* The records a schedd may write next: a key is created once in a file,   *)
(* what is changed or destroyed exists, and a cluster goes after its jobs. *)
(* A job may come before its cluster.  (A key that was destroyed may stand *)
(* for another one in the next file.)                                      *)
(***************************************************************************)
Created(k, file) == \E i \in 1..Len(file) : file[i].op = "NewClassAd" /\ file[i].key = k
Destroyed(k, file) == \E i \in 1..Len(file) : file[i].op = "DestroyClassAd" /\ file[i].key = k

NewRecords(file) ==
  {Rec("NewClassAd", k, Null, Null) :
     k \in {l \in Keys : ~Created(l, file) /\ (l \in Jobs => ~Destroyed(ClusterOf[l], file))}}

ChangeRecords(file) ==
  LET ads == Replay(file)
      alive == {k \in Keys : ads[k] # Null}
  IN {Rec("DestroyClassAd", k, Null, Null) :
        k \in {l \in alive : \A j \in alive \cap Jobs : ClusterOf[j] # l}}
     \cup {Rec("SetAttribute", k, n, v) : k \in alive, n \in Names, v \in Values}
     \cup UNION {{Rec("DeleteAttribute", k, n, Null) : n \in {m \in Names : ads[k][m] # Null}} : k \in alive}

MarkRecords(file) ==
  IF InTransaction(file) THEN {Rec("EndTransaction", Null, Null, Null)}
  ELSE {Rec("BeginTransaction", Null, Null, Null)}

Writable(file) ==
  {rec \in NewRecords(file) \cup ChangeRecords(file) \cup MarkRecords(file)
              \cup {Rec("unsupported", Null, Null, Null)} : rec.op \in Written}

\* The records of the ads that are left.
AdRecords(ads) ==
  LET alive == {k \in Keys : ads[k] # Null}
  IN {Rec("NewClassAd", k, Null, Null) : k \in alive}
     \cup UNION {{Rec("SetAttribute", k, n, ads[k][n]) : n \in {m \in Names : ads[k][m] # Null}} : k \in alive}

\* The records of an ad follow each other, its NewClassAd first.
ByAd(order) ==
  \A i, j \in 1..Len(order) :
    i < j /\ order[i].key = order[j].key =>
      /\ order[j].op = "SetAttribute"
      /\ \A m \in i..j : order[m].key = order[i].key

\* The logs that hold these ads, in any order, within the bound.
Snapshots(g, ads) ==
  LET orders == UNION {Bijection(1..n, AdRecords(ads)) : n \in 0 .. MaxLen - 1}
  IN {<<SeqNumRecord(g)>> \o order : order \in {o \in orders : ByAd(o)}}

-----------------------------------------------------------------------------
WriterInit ==
  /\ gen = 0
  /\ files = [g \in 1..MaxGen |-> <<>>]
  /\ wiped = <<>>
  /\ fp = 0

Write(file) ==
  /\ files' = [files EXCEPT ![gen] = file]
  /\ UNCHANGED <<gen, wiped>>

(***************************************************************************)
(* What is written in place of wiped out records takes the same room, one  *)
(* for one: an offset of the reader stays where a record begins.  (Where   *)
(* it does not, the reader goes on within a record.)  Records of one type  *)
(* are as long as each other if their keys are of one kind.                *)
(***************************************************************************)
Extent(rec) == <<rec.op, rec.key \in Jobs>>

Fits(rec) == Len(log) < Len(wiped) => Extent(rec) = wiped[Len(log) + 1]

Pending == gen > 0 /\ log # <<>> /\ ~log[Len(log)].ok

CreateLog ==
  /\ gen = 0
  /\ gen' = 1
  /\ UNCHANGED wiped
  /\ \/ files' = [files EXCEPT ![1] = <<SeqNumRecord(1)>>]
     \/ "empty" \in Faults /\ UNCHANGED files

FirstRecord ==
  /\ gen > 0
  /\ log = <<>>
  /\ Write(<<SeqNumRecord(gen)>>)

Append1(rec) ==
  /\ ~Pending
  /\ Fits(rec)
  /\ \/ Write(Append(log, rec))
     \/ "tear" \in Faults /\ rec.op \in KnownOps /\ Write(Append(log, [rec EXCEPT !.ok = FALSE]))

Complete ==
  /\ Pending
  /\ Write([log EXCEPT ![Len(log)].ok = TRUE])

\* The bad record stays where it is.
CrashAndGoOn(rec) ==
  /\ "crash" \in Faults
  /\ Pending
  /\ Write(Append(log, rec))

Backtrack ==
  /\ "backtrack" \in Faults
  /\ gen > 0
  /\ CommittedLen(log) < Len(log)
  /\ files' = [files EXCEPT ![gen] = Committed(log)]
  /\ wiped' = [i \in 1..Len(log) |-> Extent(log[i])] \o SubSeq(wiped, Len(log) + 1, Len(wiped))
  /\ UNCHANGED gen

\* The old file is gone unless the reader has it open.
Compress ==
  /\ gen \in 1..MaxGen - 1
  /\ log # <<>>
  /\ gen' = gen + 1
  /\ wiped' = <<>>
  /\ \E file \in Snapshots(gen + 1, Replay(Committed(log))) :
       files' = [files EXCEPT ![gen] = IF fp = gen THEN @ ELSE <<>>, ![gen + 1] = file]

WriterStep ==
  \/ CreateLog
  \/ FirstRecord
  \/ Complete
  \/ Backtrack
  \/ Compress
  \/ /\ gen > 0
     /\ Len(log) \in 1 .. MaxLen - 1
     /\ \E rec \in Writable(log) : Append1(rec) \/ CrashAndGoOn(rec)

-----------------------------------------------------------------------------
(***************************************************************************)
(* What is true of the files, whatever the schedd writes and whatever goes *)
(* wrong: the part of an inductive invariant that the reader relies on.    *)
(***************************************************************************)

\* A record that can follow the records before it.
Legal(rec, before) ==
  /\ rec \in Record
  /\ rec.op = "NewClassAd" =>
       /\ rec.key \in Keys /\ rec.value = Null
       /\ ~Created(rec.key, before)
       /\ rec.key \in Jobs => ~Destroyed(ClusterOf[rec.key], before)
  /\ rec.op \in {"DestroyClassAd", "SetAttribute", "DeleteAttribute"} =>
       rec.key \in Keys /\ Alive(rec.key, before)
  /\ rec.op = "DestroyClassAd" => \A j \in Jobs : Alive(j, before) => ClusterOf[j] # rec.key
  /\ rec.op = "SetAttribute" => rec.name \in Names /\ rec.value \in Values
  /\ rec.op = "DeleteAttribute" => rec.name \in Names /\ rec.value = Null
  /\ rec.op = "LogHistoricalSequenceNumber" => before = <<>>

Before(file, i) == SubSeq(file, 1, i - 1)

WellFormed(file) ==
  /\ file \in Seq(Record)
  /\ \A i \in 1..Len(file) : Legal(file[i], Before(file, i))

\* A file that is not empty begins with its sequence number.
Numbered(file, g) == file # <<>> => file[1] = SeqNumRecord(g)

WriterInv ==
  /\ gen \in 0..MaxGen
  /\ fp \in 0..gen
  /\ DOMAIN files = 1..MaxGen
  /\ \A g \in 1..MaxGen :
       /\ WellFormed(files[g])
       /\ Numbered(files[g], g)
       /\ Len(files[g]) <= MaxLen
       /\ g > gen => files[g] = <<>>

\* Every record is complete, as long as none is written in two parts.
Untorn == \A g \in 1..MaxGen : \A i \in 1..Len(files[g]) : files[g][i].ok
=============================================================================
