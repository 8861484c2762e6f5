--------------------------- MODULE ClassAdLogEntry ---------------------------
(***************************************************************************)
(* One entry of a job queue log as the parser holds it.  The type names of *)
(* a NewClassAd entry follow from its key and are left out.                *)
(***************************************************************************)
EXTENDS JobKeys, Naturals

\* The entries that speak of an ad; then those of any known type.
AdOps == {"NewClassAd", "DestroyClassAd", "SetAttribute", "DeleteAttribute"}
KnownOps == AdOps \cup
  {"BeginTransaction", "EndTransaction", "LogHistoricalSequenceNumber"}

\* The fields of an entry after init: all pointers are NULL.
Init0(op) == [op |-> op, key |-> Null, name |-> Null, value |-> Null, offset |-> 0]

\* The constructor's op_type, 0, is no entry's.
Blank == Init0("none")

(***************************************************************************)
(* operator= copies every field but op_type.                               *)
(***************************************************************************)
Assign(to, from) == [from EXCEPT !.op = to.op]

(***************************************************************************)
(* equal compares the type and the fields that an entry of it has; entries *)
(* of no known type are never equal.                                       *)
(***************************************************************************)
Equal(a, b) ==
  /\ a.op = b.op
  /\ a.op \in KnownOps
  /\ a.op \notin {"BeginTransaction", "EndTransaction"} => a.key = b.key
  /\ a.op \in {"SetAttribute", "DeleteAttribute"} => a.name = b.name
  /\ a.op \in {"SetAttribute", "LogHistoricalSequenceNumber"} => a.value = b.value
=============================================================================
