--------------------------- MODULE KeepAliveProofs ---------------------------
(***************************************************************************)
(* Proofs about KeepAlive: what the message says, and how long the master  *)
(* may wait for it, for any number of keys, interval and time of work.     *)
(***************************************************************************)
EXTENDS KeepAlive, JobQueuePublisherProofs, FiniteSetTheorems

-----------------------------------------------------------------------------
Is16Bits(n) == n \in Nat /\ n < 65536

\* A number of 16 bits comes back from the signed short that it is put in.
LEMMA ShortKeepsWord ==
  ASSUME NEW n, Is16Bits(n)
  PROVE  Word(Short(n)) = n
<1>1. Word(n + 32768) = IF n < 32768 THEN n + 32768 ELSE n - 32768
  BY SMT DEF Word, Is16Bits
<1>2. CASE n < 32768
  BY SMT, <1>1, <1>2 DEF Short, Word, Is16Bits
<1>3. CASE n >= 32768
  BY SMT, <1>1, <1>3 DEF Short, Word, Is16Bits
<1> QED
  BY SMT, <1>2, <1>3 DEF Is16Bits

\* The order of the network is the order of the host turned round, and turned round
\* again it is the order of the host.
LEMMA htonsIsItsInverse ==
  ASSUME NEW n, Is16Bits(n)
  PROVE  htons(htons(n)) = n
<1> DEFINE low == n % 256
           high == n \div 256
<1>1. /\ low \in Nat /\ low < 256
      /\ high \in Nat /\ high < 256
      /\ n = 256 * high + low
  <2>1. n \in Int /\ n \in Nat /\ n < 65536
    BY DEF Is16Bits
  <2>2. low \in Nat /\ low < 256
    BY SMT, <2>1
  <2>3. n = 256 * high + low /\ high \in Int
    BY SMT, <2>1
  <2> HIDE DEF low, high
  <2>4. high \in Nat /\ high < 256
    BY SMT, <2>1, <2>2, <2>3
  <2> QED
    BY <2>2, <2>3, <2>4
<1>2. htons(n) = 256 * low + high
  BY SMT, <1>1 DEF htons
<1> HIDE DEF low, high
<1>3. htons(n) % 256 = high /\ htons(n) \div 256 = low
  BY SMT, <1>1, <1>2
<1>4. htons(htons(n)) = high * 256 + low
  BY SMT, <1>3 DEF htons
<1> QED
  BY SMT, <1>1, <1>4

\* What the master reads in the message is what the constructor put there.
LEMMA MessageIsRead ==
  /\ Number(kamessage, 1) = DC_CHILDALIVE
  /\ Number(kamessage, 2) = Pid
  /\ Number(kamessage, 3) = Promised
<1>1. ASSUME NEW n, Is16Bits(n) PROVE htons(htons(Word(Short(n)))) = n
  BY <1>1, ShortKeepsWord, htonsIsItsInverse
<1>2. htons(0) = 0
  BY SMT DEF htons
<1>3. /\ kamessage[3] = 0 /\ kamessage[7] = 0 /\ kamessage[11] = 0
      /\ kamessage[4] = htons(Word(Short(DC_CHILDALIVE)))
      /\ kamessage[8] = htons(Word(Short(Pid)))
      /\ kamessage[12] = htons(Word(Short(Promised)))
  BY SMT DEF kamessage
<1>4. Is16Bits(Pid) /\ Is16Bits(DC_CHILDALIVE) /\ Is16Bits(Promised)
  BY SMT, KeepAliveAssumption DEF DC_CHILDALIVE, Promised, Is16Bits
<1>5. \A n : Is16Bits(n) => n \in Int
  BY SMT DEF Is16Bits
<1>6. /\ htons(kamessage[4]) = DC_CHILDALIVE /\ htons(kamessage[3]) = 0
      /\ htons(kamessage[8]) = Pid /\ htons(kamessage[7]) = 0
      /\ htons(kamessage[12]) = Promised /\ htons(kamessage[11]) = 0
  BY <1>1, <1>2, <1>3, <1>4
<1> QED
  BY SMT, <1>4, <1>5, <1>6 DEF Number

-----------------------------------------------------------------------------
(***************************************************************************)
(* KeepAliveInv is inductive, given IInv.                                  *)
(***************************************************************************)
\* Time changes nothing about what main does.
LEMMA TimedStepIsStep == [TimedNext]_timedVars => [Next]_vars
BY DEF TimedNext, TimedPoll, TimedTurn, TimedRetry, KeepAlive, Untimed, timedVars, Next, Poll, Publish

\* What the end of an iteration means for the keys still to come.
LEMMA TurnOver ==
  ASSUME IInv, TurnInv, Publishing, NEW k \in Keys, Current(k), FinishIteration(k)
  PROVE  /\ todo' = todo \ {k}
         /\ todo \ todo' = {k}
         /\ k \notin spent
         /\ UNCHANGED <<g_dirty_jobs, g_delete_jobs>>
         /\ phase = "dirty" => k \notin g_delete_jobs
<1>1. k \in todo /\ todo' = todo \ {k} /\ UNCHANGED <<g_dirty_jobs, g_delete_jobs>>
  BY DEF Current, FinishIteration
<1>2. phase = "dirty" => k \in live
  BY <1>1 DEF IInv, LoopInv, TurnInv
<1> QED
  BY <1>1, <1>2 DEF TurnInv, IInv, LoopInv, LogInv

\* A timed turn is a turn of one key, or a send that failed with the connection.
LEMMA TurnCases ==
  ASSUME IInv, TimedTurn
  PROVE  /\ Publishing /\ Publishing' /\ UNCHANGED <<phase, live, dead>>
         /\ \/ /\ \E k \in Keys : Current(k) /\ FinishIteration(k)
               /\ pc' = "publish"
               /\ numTries' = IF pc = "reconnect" THEN 0 ELSE numTries
            \/ /\ UNCHANGED <<todo, queue, numTries>>
               /\ pc = "publish" /\ pc' = "reconnect"
BY DEF TimedTurn, MessageSent, SendFails, SkipPublish, OpenSucceeds, Publishing, source, broker

\* A key has at most one turn in a round.
LEMMA TurnStep ==
  ASSUME IInv, Running => TurnInv, [TimedNext]_timedVars, Running'
  PROVE  TurnInv'
<1> USE KeysAreClustersAndJobs
<1>1. Running /\ TurnInv
  BY DEF Running, Final, TimedNext, TimedPoll, TimedTurn, TimedRetry, KeepAlive, Untimed,
    timedVars, vars, PollFails, EndLoad, StartPublishing, MessageSent, SendFails, SkipPublish,
    OpenSucceeds, OpenFails, Wake, PollError, BulkLoad, IncrementalLoad, LoadAborts, LoadNew,
    LoadDestroy, LoadDelete, LoadSet, EndDirty, EndDelete, ConnectionLost, SendDone, Leave,
    Sigterm, Terminated
<1>2. CASE TimedPoll
  BY <1>1, <1>2
  DEF TimedPoll, PollFails, EndLoad, StartPublishing, TurnInv, queue, source, Publishing
<1>3. CASE TimedTurn
  <2>1. CASE \E k \in Keys : Current(k) /\ FinishIteration(k)
    <3>1. PICK k \in Keys : Current(k) /\ FinishIteration(k)
      BY <2>1
    <3>2. /\ todo' = todo \ {k} /\ spent' = spent \cup {k} /\ k \notin spent
          /\ UNCHANGED <<g_dirty_jobs, g_delete_jobs, phase, live>>
          /\ phase = "dirty" => k \notin g_delete_jobs
          /\ Publishing /\ Publishing'
      BY <1>1, <1>3, <3>1, TurnOver, TurnCases DEF TimedTurn
    <3> QED
      BY <1>1, <3>2 DEF TurnInv, Publishing
  <2>2. CASE UNCHANGED <<todo, queue, numTries>>
    <3>1. UNCHANGED <<todo, g_dirty_jobs, g_delete_jobs, phase, live, spent>> /\ Publishing /\ Publishing'
      BY <1>3, <2>2, TurnCases DEF TimedTurn, queue
    <3> QED
      BY <1>1, <3>1 DEF TurnInv, Publishing
  <2> QED
    BY <1>3, <2>1, <2>2, TurnCases
<1>4. CASE TimedRetry
  BY <1>1, <1>4 DEF TimedRetry, OpenFails, TurnInv, queue, source, Publishing, Running, Final
<1>5. CASE KeepAlive
  BY <1>1, <1>5 DEF KeepAlive, Wake, TurnInv, queue, source, Publishing
<1>6. CASE Untimed
  <2>1. UNCHANGED spent
    BY <1>6 DEF Untimed, clock
  <2>2. CASE BulkLoad
    <3>1. g_dirty_jobs' = {} /\ pc = "poll" /\ pc' = "load"
      BY <2>2 DEF BulkLoad, Reset, IInv, LoopInv
    <3> QED
      BY <1>1, <2>1, <3>1 DEF TurnInv, Publishing
  <2>3. ASSUME NEW k \in Keys, LoadNew(k) PROVE TurnInv'
    <3>1. /\ live' = live \cup {k} /\ pc = "load" /\ pc' = "load"
          /\ g_dirty_jobs' \subseteq g_dirty_jobs \cup {k}
      BY <2>3, NewClassAdResult DEF LoadNew, IInv, TypeOK
    <3> QED
      BY <1>1, <2>1, <3>1 DEF TurnInv, Publishing
  <2>4. ASSUME NEW k \in Keys, LoadDestroy(k) PROVE TurnInv'
    BY <1>1, <2>1, <2>4 DEF LoadDestroy, DestroyClassAd, TurnInv, Publishing
  <2>5. ASSUME NEW k \in Keys, NEW n \in Names,
               LoadDelete(k, n) \/ \E v \in Values : LoadSet(k, n, v)
        PROVE  TurnInv'
    <3>1. /\ live' = live /\ k \in live /\ pc = "load" /\ pc' = "load"
          /\ g_dirty_jobs' \subseteq g_dirty_jobs \cup {k}
      BY <2>5 DEF LoadDelete, LoadSet, DeleteAttribute, SetAttribute, source
    <3> QED
      BY <1>1, <2>1, <3>1 DEF TurnInv, Publishing
  <2>6. CASE EndDirty
    BY <1>1, <2>1, <2>6 DEF EndDirty, TurnInv, Publishing, source
  <2>7. CASE EndDelete
    BY <1>1, <2>1, <2>7 DEF EndDelete, TurnInv, Publishing, source
  <2>8. CASE Leave \/ PollError \/ LoadAborts
    BY <1>1, <2>8 DEF Leave, PollError, LoadAborts, Running, Final
  <2>9. CASE \/ IncrementalLoad \/ ConnectionLost \/ SendDone \/ Sigterm \/ Terminated
             \/ pc = "connect" /\ (OpenSucceeds \/ OpenFails)
    BY <1>1, <2>1, <2>9
    DEF IncrementalLoad, ConnectionLost, SendDone, Sigterm, Terminated, OpenSucceeds, OpenFails,
        TurnInv, Publishing, queue, source, vars
  <2> QED
    BY <1>6, <2>2, <2>3, <2>4, <2>5, <2>6, <2>7, <2>8, <2>9 DEF Untimed
<1>7. CASE UNCHANGED timedVars
  BY <1>1, <1>7 DEF timedVars, vars, clock, queue, source, TurnInv, Publishing
<1> QED
  BY <1>2, <1>3, <1>4, <1>5, <1>6, <1>7 DEF TimedNext

\* The sizes that the bound counts with.
LEMMA SpentIsFinite ==
  ASSUME NEW S \in SUBSET Keys
  PROVE  /\ IsFiniteSet(S)
         /\ Cardinality(S) \in Nat
         /\ Cardinality(S) <= Cardinality(Keys)
         /\ Cardinality(Keys) \in Nat
         /\ \A k \in Keys \ S : Cardinality(S \cup {k}) = Cardinality(S) + 1
<1>1. IsFiniteSet(Keys)
  BY KeepAliveAssumption
<1>2. IsFiniteSet(S) /\ Cardinality(S) <= Cardinality(Keys)
  BY <1>1, FS_Subset
<1>3. ASSUME NEW k \in Keys \ S PROVE Cardinality(S \cup {k}) = Cardinality(S) + 1
  BY <1>2, <1>3, FS_AddElement
<1> QED
  BY <1>1, <1>2, <1>3, FS_CardinalityType

\* The time of a round is its work and its failed attempts, at most four a turn.
LEMMA TimeStep ==
  ASSUME IInv, Running => TurnInv /\ TimeInv, [TimedNext]_timedVars, Running'
  PROVE  TimeInv'
<1>1. Running /\ TurnInv /\ TimeInv
  BY DEF Running, Final, TimedNext, TimedPoll, TimedTurn, TimedRetry, KeepAlive, Untimed,
    timedVars, vars, PollFails, EndLoad, StartPublishing, MessageSent, SendFails, SkipPublish,
    OpenSucceeds, OpenFails, Wake, PollError, BulkLoad, IncrementalLoad, LoadAborts, LoadNew,
    LoadDestroy, LoadDelete, LoadSet, EndDirty, EndDelete, ConnectionLost, SendDone, Leave,
    Sigterm, Terminated
<1>2. /\ WorkTime \in Nat /\ numTries \in Nat /\ numTries <= 4
      /\ age \in Nat /\ failures \in Nat
      /\ Cardinality(spent) \in Nat
      /\ age <= WorkTime + 5 * failures
      /\ failures <= 4 * Cardinality(spent) + (IF pc = "reconnect" THEN numTries ELSE 0)
  <2>1. Cardinality(spent) \in Nat
    BY <1>1, SpentIsFinite DEF TurnInv
  <2> QED
    BY <1>1, <2>1, KeepAliveAssumption, SMT
    DEF TimeInv, IInv, TypeOK, TriesInv, MaxTries, RetrySleep
<1>3. CASE TimedPoll
  <2>1. /\ age = 0 /\ failures = 0 /\ age' = age + WorkTime /\ UNCHANGED <<failures, spent, numTries>>
        /\ pc' = "publish" /\ numTries = 0
    BY <1>1, <1>3 DEF TimedPoll, PollFails, EndLoad, StartPublishing, TimeInv, broker
  <2> QED
    BY <1>2, <2>1, SMT DEF TimeInv, MaxTries, RetrySleep
<1>4. CASE TimedTurn
  <2>1. UNCHANGED <<age, failures>> /\ spent' = spent \cup (todo \ todo')
    BY <1>4 DEF TimedTurn
  <2>2. CASE /\ \E k \in Keys : Current(k) /\ FinishIteration(k)
             /\ pc' = "publish"
             /\ numTries' = IF pc = "reconnect" THEN 0 ELSE numTries
    <3>1. PICK k \in Keys : Current(k) /\ FinishIteration(k)
      BY <2>2
    <3>2. spent' = spent \cup {k} /\ k \notin spent
      BY <1>1, <1>4, <2>1, <3>1, TurnOver, TurnCases
    <3>3. Cardinality(spent') = Cardinality(spent) + 1
      BY <1>1, <3>2, SpentIsFinite DEF TurnInv
    <3>4. numTries' = 0 /\ pc' = "publish"
      BY <1>1, <1>4, <2>2, TurnCases DEF TimeInv, Publishing
    <3> QED
      BY <1>2, <2>1, <3>3, <3>4, SMT DEF TimeInv, MaxTries, RetrySleep
  <2>3. CASE /\ UNCHANGED <<todo, queue, numTries>>
             /\ pc = "publish" /\ pc' = "reconnect"
    <3>1. spent' = spent /\ numTries' = numTries
      BY <2>1, <2>3
    <3> QED
      BY <1>1, <1>2, <2>1, <2>3, <3>1, SMT DEF TimeInv, MaxTries, RetrySleep
  <2> QED
    BY <1>4, <2>2, <2>3, TurnCases
<1>5. CASE TimedRetry
  <2>1. /\ pc = "reconnect" /\ pc' = "reconnect" /\ numTries' = numTries + 1
        /\ age' = age + 5 /\ failures' = failures + 1 /\ spent' = spent
    BY <1>5 DEF TimedRetry, OpenFails, RetrySleep, Running, Final
  <2> QED
    BY <1>2, <2>1, SMT DEF TimeInv, MaxTries, RetrySleep
<1>6. CASE KeepAlive
  <2>1. /\ age' = 0 /\ failures' = 0 /\ spent' = {} /\ numTries' = 0
        /\ pc' \in {"leave", "poll"} /\ Cardinality({}) = 0
    BY <1>1, <1>6, FS_EmptySet DEF KeepAlive, Wake, broker, TimeInv
  <2> QED
    BY <1>2, <2>1, SMT DEF TimeInv, MaxTries, RetrySleep
<1>7. CASE Untimed
  <2>1. UNCHANGED <<age, failures, spent>>
    BY <1>7 DEF Untimed, clock
  <2>2. \/ /\ pc = "connect"
           /\ pc' = "connect" \/ (pc' = "poll" /\ numTries' = 0)
        \/ /\ numTries' = numTries
           /\ pc = "connect" <=> pc' = "connect"
           /\ pc = "reconnect" <=> pc' = "reconnect"
           /\ pc' \in {"poll", "load"} => pc \in {"poll", "load"}
    BY <1>7 DEF Untimed, PollError, BulkLoad, IncrementalLoad, LoadAborts, LoadNew, LoadDestroy,
      LoadDelete, LoadSet, EndDirty, EndDelete, OpenSucceeds, OpenFails, ConnectionLost, SendDone,
      Leave, Sigterm, Terminated, vars, broker, Running, Final
  <2> QED
    BY <1>1, <2>1, <2>2 DEF TimeInv
<1>8. CASE UNCHANGED timedVars
  BY <1>1, <1>8 DEF timedVars, vars, clock, broker, TimeInv
<1> QED
  BY <1>3, <1>4, <1>5, <1>6, <1>7, <1>8 DEF TimedNext

\* What a message says of the wait before it.
LEMMA HeardStep ==
  ASSUME IInv, Running => TurnInv /\ TimeInv, NamesProcess, SilenceBounded,
         [TimedNext]_timedVars
  PROVE  NamesProcess' /\ SilenceBounded'
<1>1. CASE KeepAlive
  <2>1. /\ Running /\ TurnInv /\ TimeInv /\ pc = "sleep"
        /\ heard' = [message |-> kamessage, after |-> age + Interval, failures |-> failures]
    BY <1>1 DEF KeepAlive, Wake, Running, Final
  <2>2. NamesProcess'
    BY <2>1, MessageIsRead DEF NamesProcess
  <2>3. /\ Cardinality(spent) \in Nat /\ Cardinality(Keys) \in Nat
        /\ Cardinality(spent) <= Cardinality(Keys)
        /\ Interval \in Nat /\ WorkTime \in Nat
    BY <2>1, SpentIsFinite, KeepAliveAssumption DEF TurnInv
  <2>4. /\ age + Interval <= Interval + WorkTime + RetrySleep * failures
        /\ failures <= (MaxTries - 1) * Cardinality(Keys)
    BY <2>1, <2>3, SMT DEF TimeInv, MaxTries, RetrySleep
  <2> QED
    BY <2>1, <2>2, <2>4 DEF SilenceBounded
<1>2. CASE heard' = heard
  BY <1>2 DEF NamesProcess, SilenceBounded
<1> QED
  BY <1>1, <1>2 DEF TimedNext, TimedPoll, TimedTurn, TimedRetry, Untimed, timedVars, clock

\* The inductive invariant.
THEOREM KeepAliveConsistent == TimedSpec => [](IInv /\ KeepAliveInv)
<1>1. TimedInit => IInv /\ KeepAliveInv
  <2> SUFFICES ASSUME TimedInit PROVE KeepAliveInv
    BY InitInv DEF TimedInit
  <2>1. /\ age = 0 /\ failures = 0 /\ spent = {} /\ heard = Null /\ numTries = 0
        /\ g_dirty_jobs = {} /\ live = {} /\ pc \in {"connect", "poll"}
        /\ Cardinality({}) = 0 /\ WorkTime \in Nat
    BY FS_EmptySet, KeepAliveAssumption DEF TimedInit, Init, QueueInit
  <2>2. TurnInv /\ NamesProcess /\ SilenceBounded
    BY <2>1 DEF TurnInv, NamesProcess, SilenceBounded, Publishing
  <2>3. TimeInv
    BY <2>1, SMT DEF TimeInv, RetrySleep, MaxTries
  <2> QED
    BY <2>2, <2>3 DEF KeepAliveInv
<1>2. IInv /\ KeepAliveInv /\ [TimedNext]_timedVars => IInv' /\ KeepAliveInv'
  <2> SUFFICES ASSUME IInv, KeepAliveInv, [TimedNext]_timedVars PROVE IInv' /\ KeepAliveInv'
    OBVIOUS
  <2>1. IInv'
    BY TimedStepIsStep, TypeStep, TriesStep, QueueStep DEF IInv, QueueInv
  <2>2. KeepAliveInv'
    BY TurnStep, TimeStep, HeardStep DEF KeepAliveInv
  <2> QED
    BY <2>1, <2>2
<1> QED
  BY <1>1, <1>2, PTL DEF TimedSpec

\* The message names the process, for every process id of 16 bits.
THEOREM MessageNamesProcess == TimedSpec => []NamesProcess
<1>1. KeepAliveInv => NamesProcess
  BY DEF KeepAliveInv
<1> QED
  BY <1>1, KeepAliveConsistent, PTL

\* The master never waits longer than the interval, the work and twenty seconds for
\* each key, for any interval, time of work and number of keys.
THEOREM SilenceIsBounded == TimedSpec => []SilenceBounded
<1>1. KeepAliveInv => SilenceBounded
  BY DEF KeepAliveInv
<1> QED
  BY <1>1, KeepAliveConsistent, PTL
=============================================================================
