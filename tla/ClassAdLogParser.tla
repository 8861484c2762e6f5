-------------------------- MODULE ClassAdLogParser --------------------------
(***************************************************************************)
(* ClassAdLogParser: reading the entry at the next offset.                 *)
(*                                                                         *)
(* A file is a sequence of records; an offset counts the records before    *)
(* it.  A record is an entry without offset, and whether its body can be   *)
(* read: the body of the last record may not be there yet, that of another *)
(* may be damaged.  A record of which not even the header is there reads   *)
(* as the end of the file and is left out.                                 *)
(***************************************************************************)
EXTENDS ClassAdLogEntry, Sequences

Record == [op : KnownOps \cup {"unsupported"}, key : Keys \cup Nat \cup {Null},
           name : Names \cup {Null}, value : Values \cup {Null}, ok : BOOLEAN]

\* The parser's members but the stream; Parser0 is what the constructor leaves.
Parser0 == [nextOffset |-> 0, cur |-> Blank, last |-> Blank]

setNextOffset(p, offset) == [p EXCEPT !.nextOffset = offset]

\* "check if this bogus record is in the midst of a transaction": does the rest
\* of the file hold a readable EndTransaction?
Bracketed(file, offset) ==
  \E i \in offset + 2 .. Len(file) : file[i].op = "EndTransaction" /\ file[i].ok

Entry(rec, offset) ==
  [op |-> rec.op, key |-> rec.key, name |-> rec.name, value |-> rec.value, offset |-> offset]

\* A mutated form of Rewound: the bad record is passed over.
RewoundPast(begun, offset) ==
  [begun EXCEPT !.cur = [Assign(@, begun.last) EXCEPT !.offset = offset],
                !.nextOffset = offset + 1]

(***************************************************************************)
(* After an unreadable body the current entry gets the fields of the last  *)
(* one back, but not its type, and the next offset stays.                  *)
(***************************************************************************)
Rewound(begun, offset) ==
  [begun EXCEPT !.cur = [Assign(@, begun.last) EXCEPT !.offset = offset]]

(***************************************************************************)
(* The result code and the parser after readLogEntry.  The stream is left  *)
(* open after FILE_READ_SUCCESS only (and after FILE_FATAL_ERROR, which no *)
(* caller survives).                                                       *)
(* An unreadable body not bracketed by an EndTransaction is taken for the  *)
(* end of the file.                                                        *)
(***************************************************************************)
readLogEntry(file, p) ==
  LET offset == p.nextOffset
      rec == file[offset + 1]
      last == Assign(Init0(p.cur.op), p.cur)
      begun == [p EXCEPT !.last = last,
                         !.cur = [Init0(rec.op) EXCEPT !.offset = offset]]
  IN CASE offset >= Len(file) ->
            [err |-> "FILE_READ_EOF", parser |-> p]
       [] offset < Len(file) /\ rec.op \notin KnownOps ->
            [err |-> "FILE_READ_ERROR", parser |-> begun]
       [] offset < Len(file) /\ rec.op \in KnownOps /\ rec.ok ->
            [err |-> "FILE_READ_SUCCESS",
             parser |-> [begun EXCEPT !.cur = Entry(rec, offset), !.nextOffset = offset + 1]]
       [] offset < Len(file) /\ rec.op \in KnownOps /\ ~rec.ok ->
            IF Bracketed(file, offset)
            THEN [err |-> "FILE_FATAL_ERROR", parser |-> begun]
            ELSE [err |-> "FILE_READ_EOF", parser |-> Rewound(begun, offset)]
=============================================================================
