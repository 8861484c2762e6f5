------------------------------- MODULE JobFeed -------------------------------
(***************************************************************************)
(* What a receiver of the messages can rely on, whatever goes on between   *)
(* the log and the broker.  There is a table of ads, and the last message  *)
(* under each subject.  A message is what the table says at that moment;   *)
(* an ad leaves the table with its last message, a cluster after its jobs; *)
(* or the table is dropped as a whole, without a message.                  *)
(***************************************************************************)
EXTENDS JobKeys

CONSTANT Lost   \* in place of a message that may never have arrived

VARIABLES
  ads,    \* key -> attributes, Null for a key that is not in the table
  feed,   \* key -> the last message, Null if there was none
  talks   \* is there a receiver?

feedVars == <<ads, feed, talks>>

In(k) == ads[k] # Null

\* An ad's own attributes over those of its cluster.
Contents(k) ==
  [n \in Names |-> IF k \in Jobs /\ ads[k][n] = Null THEN ads[ClusterOf[k]][n] ELSE ads[k][n]]

Send(k) == feed' \in {[feed EXCEPT ![k] = Contents(k)], [feed EXCEPT ![k] = Lost]}

Init ==
  /\ ads = [k \in Keys |-> Null]
  /\ feed = [k \in Keys |-> Null]
  /\ talks \in BOOLEAN

\* A job brings its cluster with it.  What is there keeps its attributes.
Enter(k) ==
  /\ LET new == {k} \cup {ClusterOf[j] : j \in Jobs \cap {k}}
     IN ads' = [l \in Keys |-> IF l \in new /\ ~In(l) THEN NoAttrs ELSE ads[l]]
  /\ UNCHANGED feed

Change(k) ==
  /\ In(k)
  /\ \E n \in Names, v \in Values \cup {Null} : ads' = [ads EXCEPT ![k][n] = v]
  /\ UNCHANGED feed

Announce(k) ==
  /\ talks
  /\ In(k)
  /\ Send(k)
  /\ UNCHANGED ads

Leave(k) ==
  /\ In(k)
  /\ \A j \in Jobs : In(j) => ClusterOf[j] # k
  /\ ads' = [ads EXCEPT ![k] = Null]
  /\ IF talks THEN Send(k) ELSE UNCHANGED feed

Drop ==
  /\ ads' = [k \in Keys |-> Null]
  /\ UNCHANGED feed

Next ==
  /\ \/ Drop
     \/ \E k \in Keys : Enter(k) \/ Change(k) \/ Announce(k) \/ Leave(k)
  /\ UNCHANGED talks

Spec == Init /\ [][Next]_feedVars
=============================================================================
