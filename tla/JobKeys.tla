------------------------------- MODULE JobKeys -------------------------------
(***************************************************************************)
(* The keys, attribute names and values of a job queue, as data.           *)
(*                                                                         *)
(* A key names a cluster ad ("01.-1") or a job ad ("1.0"); the cluster     *)
(* part of a job's key determines its cluster (lib/ClassAdLogReader.h,     *)
(* "Notes on Keys").  Keys are model values here: what the code finds out  *)
(* by looking at the first character, or by printing "0%d.-1", is given by *)
(* the two disjoint sets and by the function ClusterOf.                    *)
(***************************************************************************)
CONSTANTS
  Clusters,    \* keys of cluster ads
  Jobs,        \* keys of job ads
  ClusterOf,   \* the cluster key computed from a job key
  Names,       \* attribute names
  Values,      \* attribute values
  Null         \* a NULL pointer, an absent ad, an unset attribute

Keys == Clusters \cup Jobs

\* An attribute map: a name the map does not hold has the value Null.
Attrs == [Names -> Values \cup {Null}]
NoAttrs == [n \in Names |-> Null]

ASSUME KeysAssumption ==
  /\ Clusters \cap Jobs = {}
  /\ ClusterOf \in [Jobs -> Clusters]

ASSUME NullAssumption ==
  /\ Null \notin Clusters
  /\ Null \notin Values
  /\ Null \notin Attrs
  /\ Null \notin [parent : Clusters \cup {Null}, attrs : Attrs]
=============================================================================
