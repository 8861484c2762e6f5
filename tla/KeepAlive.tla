------------------------------ MODULE KeepAlive ------------------------------
(***************************************************************************)
(* CondorKeepAlive: the datagram that tells condor_master that the daemon  *)
(* is alive, sent once in each round of the main loop, after the sleep.    *)
(* The module adds time, in seconds, to JobQueuePublisher: the longest     *)
(* that each step takes, where a signal may cut a sleep short.             *)
(***************************************************************************)
EXTENDS JobQueuePublisher, Integers, Sequences, FiniteSets

CONSTANTS
  Interval,   \* config.interval
  WorkTime,   \* the longest that a poll and the broker's calls take in a round
  Pid         \* getpid()

\* Signals are handled by the time the process has an id; one that needs more than
\* 16 bits is cut short and names another process.
ASSUME KeepAliveAssumption ==
  /\ Interval \in Nat
  /\ WorkTime \in Nat
  /\ Pid \in Nat \ {0} /\ Pid < 65536
  /\ IsFiniteSet(Keys)

RetrySleep == 5
Promised == 30   \* the time in which the message announces the next one
DC_CHILDALIVE == 60008

VARIABLES
  age,        \* time since the last message, or since CondorKeepAlive was made
  failures,   \* attempts to connect again that have failed in this round
  spent,      \* keys that have had their turn in this round
  heard       \* the last message and what came before it, Null before the first

clock == <<age, failures, spent, heard>>
timedVars == <<vars, clock>>

-----------------------------------------------------------------------------
(***************************************************************************)
(* The message: twelve 16-bit words in the order of the network, the pid   *)
(* by way of a signed short.                                               *)
(***************************************************************************)
Word(n) == n % 65536
Short(n) == Word(n + 32768) - 32768
htons(n) == (n % 256) * 256 + n \div 256

\* A mutated form of kamessage: the words are in the order of the host.
kamessageOfHost ==
  <<0, 0, 0, Word(Short(DC_CHILDALIVE)), 0, 0, 0, Word(Short(Pid)), 0, 0, 0, Promised>>

kamessage ==
  <<0, 0, 0, htons(Word(Short(DC_CHILDALIVE))),
    0, 0, 0, htons(Word(Short(Pid))),
    0, 0, 0, htons(Word(Short(Promised)))>>

\* What the master reads: three numbers of four words, the first word the highest.
Number(message, i) == 65536 * htons(message[4 * i - 1]) + htons(message[4 * i])

-----------------------------------------------------------------------------
TimedInit ==
  /\ Init
  /\ age = 0
  /\ failures = 0
  /\ spent = {}
  /\ heard = Null

\* A poll that leads to a round of publishing; the time of the round's broker calls
\* is counted here.
TimedPoll ==
  /\ PollFails \/ EndLoad
  /\ age' = age + WorkTime
  /\ UNCHANGED <<failures, spent, heard>>

\* The end of an iteration of either loop.
TimedTurn ==
  /\ \/ \E k \in Keys : MessageSent(k) \/ SendFails(k) \/ SkipPublish(k)
     \/ pc = "reconnect" /\ OpenSucceeds
  /\ spent' = spent \cup (todo \ todo')
  /\ UNCHANGED <<age, failures, heard>>

\* sleep(5) after a failed attempt.
TimedRetry ==
  /\ pc = "reconnect"
  /\ OpenFails
  /\ age' = age + RetrySleep
  /\ failures' = failures + 1
  /\ UNCHANGED <<spent, heard>>

\* sleep(interval) and sendKeepAlive.
KeepAlive ==
  /\ Wake
  /\ heard' = [message |-> kamessage, after |-> age + Interval, failures |-> failures]
  /\ age' = 0
  /\ failures' = 0
  /\ spent' = {}

\* What takes no time, or comes before CondorKeepAlive is made.
Untimed ==
  /\ \/ PollError
     \/ BulkLoad
     \/ IncrementalLoad
     \/ LoadAborts
     \/ \E k \in Keys :
          \/ LoadNew(k)
          \/ LoadDestroy(k)
          \/ \E n \in Names : LoadDelete(k, n) \/ \E v \in Values : LoadSet(k, n, v)
     \/ EndDirty
     \/ EndDelete
     \/ pc = "connect" /\ (OpenSucceeds \/ OpenFails)
     \/ ConnectionLost
     \/ SendDone
     \/ Leave
     \/ Sigterm
     \/ Terminated
  /\ UNCHANGED clock

TimedNext ==
  \/ TimedPoll
  \/ TimedTurn
  \/ TimedRetry
  \/ KeepAlive
  \/ Untimed

TimedSpec == TimedInit /\ [][TimedNext]_timedVars

-----------------------------------------------------------------------------
\* The master hears of this process, although its id passes through a signed short
\* (CondorKeepAlive.cpp:95-108).
NamesProcess ==
  heard # Null =>
    /\ Number(heard.message, 1) = DC_CHILDALIVE
    /\ Number(heard.message, 2) = Pid
    /\ Number(heard.message, 3) = Promised

\* How long the master may wait for a message: every failed attempt to connect again
\* costs five seconds on top of the poll and the interval, and as a key has one turn
\* in a round, dirty or destroyed but not both, there are at most four for each key.
\* A process that exceeds this is one that has ended.
SilenceBounded ==
  heard # Null =>
    /\ heard.after <= Interval + WorkTime + RetrySleep * heard.failures
    /\ heard.failures <= (MaxTries - 1) * Cardinality(Keys)

-----------------------------------------------------------------------------
(***************************************************************************)
(* Why: an inductive invariant, on top of IInv.                            *)
(***************************************************************************)
\* A round's keys have their turn once.
TurnInv ==
  /\ spent \subseteq Keys
  /\ g_dirty_jobs \subseteq live
  /\ Publishing => spent \cap todo = {}
  /\ Publishing /\ phase = "dirty" => spent \cap g_delete_jobs = {}
  /\ pc \in {"connect", "poll", "load"} => spent = {}

\* What the time of this round is made of so far.
TimeInv ==
  /\ age \in Nat
  /\ failures \in Nat
  /\ pc \notin {"connect", "reconnect"} => numTries = 0
  /\ pc \in {"connect", "poll", "load"} => age = 0 /\ failures = 0
  /\ age <= WorkTime + RetrySleep * failures
  /\ failures <= (MaxTries - 1) * Cardinality(spent) + (IF pc = "reconnect" THEN numTries ELSE 0)

KeepAliveInv == NamesProcess /\ SilenceBounded /\ (Running => TurnInv /\ TimeInv)
=============================================================================
