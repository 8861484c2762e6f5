------------------------- MODULE PublisherSinkProofs -------------------------
(***************************************************************************)
(* Proofs about PublisherSink: what the test of the repository compares,   *)
(* for any log, any triggers and any behaviour of the broker.              *)
(***************************************************************************)
EXTENDS PublisherSink, JobQueuePublisherProofs, SequenceTheorems

-----------------------------------------------------------------------------
(***************************************************************************)
(* What sequences of messages say.                                         *)
(***************************************************************************)
Sent == Messages \cup {Done}

\* A message that is sent after others.
LEMMA SentAppend ==
  ASSUME NEW s \in Seq(Sent), NEW t \in Seq(Sent), NEW m \in Sent
  PROVE  /\ s \o Append(t, m) = Append(s \o t, m)
         /\ s \o t \in Seq(Sent)
<1>1. <<m>> \in Seq(Sent) /\ s \o t \in Seq(Sent)
  BY ConcatProperties
<1>2. Append(t, m) = t \o <<m>> /\ Append(s \o t, m) = (s \o t) \o <<m>>
  BY <1>1, AppendIsConcat
<1> QED
  BY <1>1, <1>2, ConcatAssociative

\* A message that is fetched stays where it is among those sent.
LEMMA SentFetch ==
  ASSUME NEW s \in Seq(Sent), NEW t \in Seq(Sent), t # <<>>
  PROVE  /\ Head(t) \in Sent /\ Tail(t) \in Seq(Sent)
         /\ Append(s, Head(t)) \o Tail(t) = s \o t
         /\ Tail(t) = <<>> => s \o t = Append(s, Head(t))
<1>1. Head(t) \in Sent /\ Tail(t) \in Seq(Sent)
  BY HeadTailProperties
<1>2. t = <<Head(t)>> \o Tail(t)
  <2>1. Len(t) \in 1..Len(t) /\ 1 \in 1..Len(t)
    BY EmptySeq
  <2>2. SubSeq(t, 1, Len(t)) = <<t[1]>> \o SubSeq(t, 1 + 1, Len(t))
    BY <2>1, SubSeqRecursiveFirst
  <2>3. SubSeq(t, 1, Len(t)) = t /\ Tail(t) = SubSeq(t, 2, Len(t)) /\ Head(t) = t[1]
    BY SubSeqFull, TailIsSubSeq
  <2> QED
    BY <2>2, <2>3, 1 + 1 = 2
<1>3. PICK h, u : h = Head(t) /\ u = Tail(t)
  OBVIOUS
<1>4. <<h>> \in Seq(Sent) /\ h \in Sent /\ u \in Seq(Sent)
  BY <1>1, <1>3
<1>5. Append(s, h) = s \o <<h>>
  BY <1>4, AppendIsConcat
<1>6. (s \o <<h>>) \o u = s \o (<<h>> \o u)
  BY <1>4, ConcatAssociative
<1>7. u = <<>> => (s \o <<h>>) \o u = s \o <<h>>
  BY <1>4, ConcatEmptySeq, ConcatProperties
<1> QED
  BY <1>1, <1>2, <1>3, <1>5, <1>6, <1>7

\* The messages about a job after one more.
LEMMA SaysAppend ==
  ASSUME NEW s \in Seq(Sent), NEW j \in Jobs, NEW c, NEW m \in Sent
  PROVE  /\ m = Done \/ m.subject # j => (Says(Append(s, m), j, c) <=> Says(s, j, c))
         /\ m # Done /\ m.subject = j /\ Says(s, j, Null) /\ m.content \notin {Null, Lost} =>
              Says(Append(s, m), j, m.content)
<1> DEFINE a == Append(s, m)
           about == {i \in 1..Len(s) : s[i] # Done /\ s[i].subject = j}
           after == {i \in 1..Len(a) : a[i] # Done /\ a[i].subject = j}
<1>1. Len(s) \in Nat /\ Len(a) = Len(s) + 1 /\ a[Len(s) + 1] = m /\ \A i \in 1..Len(s) : a[i] = s[i]
  BY LenProperties, AppendProperties
<1> HIDE DEF a
<1>2. ASSUME m = Done \/ m.subject # j PROVE after = about
  BY <1>1, <1>2
<1>3. ASSUME m # Done, m.subject = j PROVE after = about \cup {Len(s) + 1}
  BY <1>1, <1>3
<1>4. \A d : /\ Says(s, j, d) <=> IF d \in {Null, Lost} THEN about = {}
                                  ELSE \E i \in about : about = {i} /\ s[i].content = d
             /\ Says(a, j, d) <=> IF d \in {Null, Lost} THEN after = {}
                                  ELSE \E i \in after : after = {i} /\ a[i].content = d
  BY DEF Says
<1>5. \A i \in about : a[i] = s[i]
  BY <1>1
<1> HIDE DEF about, after
<1>6. ASSUME m = Done \/ m.subject # j PROVE Says(a, j, c) <=> Says(s, j, c)
  BY <1>2, <1>4, <1>5, <1>6
<1>7. ASSUME m # Done, m.subject = j, Says(s, j, Null), m.content \notin {Null, Lost}
      PROVE  Says(a, j, m.content)
  <2>1. after = {Len(s) + 1}
    BY <1>3, <1>4, <1>7
  <2> QED
    BY <1>1, <1>4, <1>7, <2>1
<1> QED
  BY <1>6, <1>7 DEF a

-----------------------------------------------------------------------------
(***************************************************************************)
(* Main, with --dump.                                                      *)
(***************************************************************************)

\* Every step here is one of main, or leaves main alone.
LEMMA SinkStepIsMainStep ==
  ASSUME [SinkNext]_sinkVars
  PROVE  [Next]_vars
BY DEF SinkNext, sinkVars, Send, DumpAndSendDone, LeaveInSync, OtherStep, Fetch, Next, Publish

\* What a key's turn changes: with --dump a job that is not destroyed has had no message.
LEMMA TurnResult ==
  ASSUME IInv, config.dump, FirstTurnInv, NEW k \in Keys, MessageSent(k) \/ SendFails(k)
  PROVE  /\ pc = "publish" /\ UNCHANGED <<config, live, dead, phase>>
         /\ \/ pc' = "publish" /\ todo' = todo \ {k}
            \/ pc' = "reconnect" /\ todo' = todo /\ view'[k] = Lost
         /\ k \in Jobs => k \in live \cup dead
         /\ k \in Jobs \ dead => phase = "dirty" /\ view[k] = Null
         /\ view'[k] \in Attrs \cup {Lost}
         /\ \A l \in Keys \ {k} : view'[l] = view[l]
<1>1. /\ pc = "publish" /\ UNCHANGED <<config, live, dead, phase>> /\ Current(k) /\ Known(k)
      /\ \/ pc' = "publish" /\ todo' = todo \ {k}
         \/ pc' = "reconnect" /\ todo' = todo /\ view'[k] = Lost
      /\ \E c \in Contents(k) \cup {Lost} : view' = [view EXCEPT ![k] = c]
  <2>1. QueueTypeOK /\ view \in [Keys -> Attrs \cup {Null, Lost}]
    BY DEF IInv, TypeOK
  <2>2. CASE MessageSent(k)
    <3>1. /\ pc = "publish" /\ pc' = pc /\ UNCHANGED <<config, live, dead, phase>>
          /\ Current(k) /\ Known(k) /\ FinishIteration(k)
      BY <2>2 DEF MessageSent, source
    <3>2. \E c \in Contents(k) \cup {Lost} : view' = [view EXCEPT ![k] = c]
      BY <2>2 DEF MessageSent
    <3>3. todo' = todo \ {k}
      BY <3>1 DEF FinishIteration
    <3> QED
      BY <3>1, <3>2, <3>3
  <2>3. CASE SendFails(k)
    <3>1. /\ pc = "publish" /\ UNCHANGED <<config, live, dead, phase>>
          /\ Current(k) /\ Known(k)
          /\ \/ pc' = pc /\ FinishIteration(k)
             \/ pc' = "reconnect" /\ UNCHANGED todo
      BY <2>3 DEF SendFails, source
    <3>2. view' = [view EXCEPT ![k] = Lost] /\ view'[k] = Lost
      BY <2>1, <2>3 DEF SendFails
    <3>3. \/ pc' = "publish" /\ todo' = todo \ {k}
          \/ pc' = "reconnect" /\ todo' = todo
      BY <3>1 DEF FinishIteration
    <3> QED
      BY <3>1, <3>2, <3>3
  <2> QED
    BY <2>2, <2>3
<1>2. /\ QueueTypeOK /\ view \in [Keys -> Attrs \cup {Null, Lost}]
      /\ phase \in {"dirty", "delete"} /\ Publishing /\ Running
  BY <1>1 DEF IInv, TypeOK, Publishing, Running, Final
<1>3. Contents(k) \subseteq Attrs
  BY <1>1, <1>2, ContentsAreAttrs
<1>4. k \in todo
  BY <1>1 DEF Current
<1>5. k \in Jobs => k \in live \cup Doomed
  BY <1>1, <1>2 DEF IInv, MemoryInv
<1>6. Doomed \subseteq dead
  BY <1>2 DEF IInv, LoopInv, Doomed
<1>7. phase = "delete" => k \in dead
  BY <1>2, <1>4 DEF IInv, LoopInv
<1>8. phase = "dirty" => view[k] = Null
  BY <1>1, <1>2, <1>4 DEF FirstTurnInv
<1> QED
  BY <1>1, <1>2, <1>3, <1>5, <1>6, <1>7, <1>8

\* With --dump no key has a message before its turn in the first loop.
LEMMA FirstTurnStep ==
  ASSUME IInv, MessageInv, config.dump, FirstTurnInv, [Next]_vars
  PROVE  FirstTurnInv'
<1>1. TypeOK' /\ TypeOK
  BY TypeStep DEF IInv
<1>2. CASE pc \in {"connect", "poll", "load"} /\ view' = view
  <2>1. (\A k \in Keys : view'[k] = Null) /\ todo' \subseteq Keys
    BY <1>1, <1>2 DEF FirstTurnInv, TypeOK
  <2> QED
    BY <2>1, KeysAreClustersAndJobs DEF FirstTurnInv
<1>3. CASE UNCHANGED <<view, live, dead>> /\ pc' \notin {"connect", "poll", "load"}
           /\ ~(Publishing' /\ phase' = "dirty")
  BY <1>3 DEF FirstTurnInv
<1>4. CASE UNCHANGED <<view, live, dead, phase, todo, pc>>
  BY <1>4 DEF FirstTurnInv, Publishing, Current
<1>5. CASE UNCHANGED <<view, live, dead, phase>> /\ pc = "publish" /\ pc' = "publish" /\ todo' \subseteq todo
  BY <1>5 DEF FirstTurnInv, Publishing
<1>6. ASSUME NEW k \in Keys, MessageSent(k) \/ SendFails(k) PROVE FirstTurnInv'
  <2>1. /\ pc = "publish" /\ UNCHANGED <<live, dead, phase>>
        /\ (pc' = "publish" /\ todo' = todo \ {k}) \/ (pc' = "reconnect" /\ todo' = todo)
        /\ k \in Jobs => k \in live \cup dead
        /\ \A l \in Keys \ {k} : view'[l] = view[l]
    BY <1>6, TurnResult
  <2>2. todo \subseteq Keys
    BY <1>1 DEF TypeOK
  <2>3. ASSUME phase = "dirty", NEW l \in todo' PROVE view'[l] = Null \/ (pc' = "reconnect" /\ Current(l)')
    <3>1. l \in todo /\ view[l] = Null
      BY <2>1, <2>3 DEF FirstTurnInv, Publishing
    <3>2. CASE l # k
      BY <2>1, <2>2, <3>1, <3>2
    <3>3. CASE l = k
      <4>1. pc' = "reconnect" /\ todo' = todo /\ phase' = phase
        BY <2>1, <2>3, <3>3
      <4>2. Current(k)
        BY <1>6 DEF MessageSent, SendFails
      <4> QED
        BY <3>3, <4>1, <4>2 DEF Current
    <3> QED
      BY <3>2, <3>3
  <2>4. \A j \in Jobs : view'[j] # Null => j \in live \cup dead
    BY <2>1, KeysAreClustersAndJobs DEF FirstTurnInv
  <2> QED
    BY <2>1, <2>3, <2>4 DEF FirstTurnInv
<1>7. CASE OpenSucceeds /\ pc = "reconnect"
  <2>1. pc' = "publish" /\ UNCHANGED <<view, live, dead, phase>>
    BY <1>7 DEF OpenSucceeds, source
  <2>2. PICK k \in Keys : Current(k) /\ todo' = todo \ {k}
    BY <1>7 DEF OpenSucceeds, FinishIteration
  <2>3. todo \subseteq Keys
    BY <1>1 DEF TypeOK
  <2>4. ASSUME phase = "dirty", NEW l \in todo' PROVE view[l] = Null
    <3>1. l \in todo /\ l # k /\ l \in Keys
      BY <2>2, <2>3
    <3>2. ~Current(l)
      BY <2>2, <3>1, CurrentUnique
    <3> QED
      BY <1>7, <2>4, <3>1, <3>2 DEF FirstTurnInv, Publishing
  <2> QED
    BY <2>1, <2>4 DEF FirstTurnInv
<1>8. CASE OpenFails /\ pc = "reconnect"
  <2>1. UNCHANGED <<view, live, dead, phase, todo>> /\ pc' \in {"exited", pc}
    BY <1>8 DEF OpenFails, source
  <2> QED
    BY <1>3, <1>4, <2>1 DEF Publishing
<1>9. CASE Poll
  BY <1>2, <1>9 DEF Poll, PollFails, PollError, BulkLoad, IncrementalLoad, LoadNew, LoadDestroy, LoadSet,
    LoadDelete, EndLoad, LoadAborts, broker
<1>10. CASE (OpenSucceeds \/ OpenFails) /\ pc # "reconnect"
  BY <1>2, <1>10 DEF OpenSucceeds, OpenFails
<1>11. CASE \E k \in Keys : SkipPublish(k)
  BY <1>5, <1>11 DEF SkipPublish, FinishIteration, broker, source
<1>12. CASE EndDirty \/ EndDelete
  BY <1>3, <1>12 DEF EndDirty, EndDelete, broker, source, Publishing
<1>13. CASE SendDone \/ Leave
  BY <1>3, <1>13 DEF SendDone, Leave, broker, source, Publishing
<1>14. CASE ConnectionLost \/ Sigterm \/ Terminated \/ UNCHANGED vars
  BY <1>4, <1>14 DEF ConnectionLost, Sigterm, Terminated, vars, broker, source
<1>15. ~Wake
  BY DEF Wake, MessageInv, DumpInv
<1> QED
  BY <1>6, <1>7, <1>8, <1>9, <1>10, <1>11, <1>12, <1>13, <1>14, <1>15 DEF Next, Publish

-----------------------------------------------------------------------------
(***************************************************************************)
(* The channel.                                                            *)
(***************************************************************************)

\* What is in the channel is messages and DONE.
LEMMA WireFacts ==
  ASSUME WireInv
  PROVE  /\ printed \in Seq(Sent) /\ wire \in Seq(Sent) /\ sent \in Seq(Sent)
         /\ DoneSent <=> sink = "closed" \/ \E i \in 1..Len(wire) : wire[i] = Done
<1>1. printed \in Seq(Sent) /\ wire \in Seq(Sent)
  BY SeqMonotonic DEF WireInv, Sent
<1>2. sent \in Seq(Sent)
  BY <1>1, SentAppend DEF sent
<1>3. DOMAIN wire = 1..Len(wire)
  BY <1>1, LenProperties
<1> QED
  BY <1>1, <1>2, <1>3 DEF DoneSent, ToSet

\* A message, lost or sent.
LEMMA SendResult ==
  ASSUME IInv, WireInv, ~DoneSent, NEW k \in Keys, Send(k)
  PROVE  /\ WireInv' /\ ~DoneSent' /\ UNCHANGED <<sink, printed, dumped>>
         /\ \/ sent' = sent /\ (config.dump => view'[k] = Lost)
            \/ /\ config.dump /\ view'[k] \in Attrs
               /\ Message(k, view'[k]) \in Messages
               /\ sent' = Append(sent, Message(k, view'[k]))
<1>1. printed \in Seq(Sent) /\ wire \in Seq(Sent) /\ Len(wire) \in Nat
      /\ sink # "closed" /\ \A i \in 1..Len(wire) : wire[i] # Done
  BY WireFacts, LenProperties
<1>2. UNCHANGED <<sink, printed, dumped>>
      /\ wire' = IF config.dump /\ view'[k] # Lost THEN Append(wire, Message(k, view'[k])) ELSE wire
  BY DEF Send
<1>3. CASE wire' = wire /\ (config.dump => view'[k] = Lost)
  <2>1. WireInv'
    BY <1>2, <1>3 DEF WireInv
  <2>2. sent' = sent /\ ~DoneSent'
    BY <1>2, <1>3 DEF sent, DoneSent
  <2> QED
    BY <1>2, <1>3, <2>1, <2>2
<1>4. CASE config.dump /\ view'[k] # Lost
  <2>1. view'[k] \in Attrs
    <3>1. QueueTypeOK /\ view \in [Keys -> Attrs \cup {Null, Lost}]
      BY DEF IInv, TypeOK
    <3>2. Known(k) /\ \E c \in Contents(k) \cup {Lost} : view' = [view EXCEPT ![k] = c]
      BY DEF Send, MessageSent
    <3>3. Contents(k) \subseteq Attrs
      BY <3>1, <3>2, ContentsAreAttrs
    <3> QED
      BY <1>4, <3>1, <3>2, <3>3
  <2>2. PICK m : m = Message(k, view'[k])
    OBVIOUS
  <2>3. m \in Messages /\ m \in Sent /\ m # Done
    BY <2>1, <2>2, DoneAssumption DEF Message, Messages, Sent
  <2>4. wire' = Append(wire, m)
    BY <1>2, <1>4, <2>2
  <2>5. /\ wire' \in Seq(Sent) /\ Len(wire') = Len(wire) + 1 /\ wire'[Len(wire) + 1] = m
        /\ \A i \in 1..Len(wire) : wire'[i] = wire[i]
    BY <1>1, <2>3, <2>4, AppendProperties
  <2>6. \A i \in 1..Len(wire') : wire'[i] # Done
    BY <1>1, <2>3, <2>5
  <2>7. WireInv'
    BY <1>1, <1>2, <2>5, <2>6 DEF WireInv, Sent
  <2>8. ~DoneSent'
    <3>1. DOMAIN wire' = 1..Len(wire')
      BY <2>5, LenProperties
    <3> QED
      BY <1>1, <1>2, <2>6, <3>1 DEF DoneSent, ToSet
  <2>9. sent' = Append(sent, m)
    BY <1>1, <1>2, <2>3, <2>4, SentAppend DEF sent
  <2> QED
    BY <1>2, <1>4, <2>1, <2>2, <2>3, <2>7, <2>8, <2>9
<1> QED
  BY <1>2, <1>3, <1>4

\* Dump, and DONE unless it is lost.
LEMMA DoneResult ==
  ASSUME WireInv, ~DoneSent, DumpAndSendDone
  PROVE  /\ WireInv' /\ UNCHANGED <<sink, config, live, dead, view>>
         /\ pc = "dump" /\ pc' \in {"leave", "aborted"}
         /\ dumped' = [k \in Keys |-> IF Known(k) THEN Content(k) ELSE Null]
         /\ \/ sent' = sent /\ ~DoneSent'
            \/ sent' = Append(sent, Done) /\ config.address /\ pc' = "leave"
<1>1. printed \in Seq(Sent) /\ wire \in Seq(Sent) /\ Len(wire) \in Nat
      /\ sink # "closed" /\ \A i \in 1..Len(wire) : wire[i] # Done
  BY WireFacts, LenProperties
<1>2. /\ UNCHANGED <<sink, printed, config, live, dead, view>>
      /\ pc = "dump" /\ pc' \in {"leave", "aborted"}
      /\ dumped' = [k \in Keys |-> IF Known(k) THEN Content(k) ELSE Null]
      /\ \/ wire' = wire
         \/ wire' = Append(wire, Done) /\ config.address /\ pc' = "leave"
  BY DEF DumpAndSendDone, SendDone, source, broker
<1>3. CASE wire' = wire
  <2>1. WireInv' /\ sent' = sent /\ ~DoneSent'
    BY <1>2, <1>3 DEF WireInv, sent, DoneSent
  <2> QED
    BY <1>2, <2>1
<1>4. CASE wire' = Append(wire, Done) /\ config.address /\ pc' = "leave"
  <2>1. Done \in Sent
    BY DEF Sent
  <2>2. /\ wire' \in Seq(Sent) /\ Len(wire') = Len(wire) + 1
        /\ \A i \in 1..Len(wire) : wire'[i] = wire[i]
    BY <1>1, <1>4, <2>1, AppendProperties
  <2>3. WireInv'
    BY <1>1, <1>2, <2>2 DEF WireInv, Sent
  <2>4. sent' = Append(sent, Done)
    BY <1>1, <1>2, <1>4, <2>1, SentAppend DEF sent
  <2> QED
    BY <1>2, <1>4, <2>3, <2>4
<1> QED
  BY <1>2, <1>3, <1>4

\* A message is fetched, or DONE.
LEMMA FetchResult ==
  ASSUME WireInv, Fetch
  PROVE  /\ WireInv' /\ UNCHANGED vars /\ UNCHANGED dumped
         /\ sent # <<>>
         /\ DoneSent' => DoneSent
         /\ \/ sent' = sent
            \/ sink' = "closed" /\ sent' \in Seq(Sent) /\ sent = Append(sent', Done)
<1>1. printed \in Seq(Sent) /\ wire \in Seq(Sent) /\ Len(wire) \in Nat /\ wire # <<>>
      /\ wire' = Tail(wire) /\ sink = "fetch" /\ UNCHANGED vars /\ UNCHANGED dumped
  BY WireFacts, LenProperties DEF Fetch
<1>2. /\ Head(wire) \in Sent /\ Tail(wire) \in Seq(Sent)
      /\ Append(printed, Head(wire)) \o Tail(wire) = sent
      /\ Tail(wire) = <<>> => sent = Append(printed, Head(wire))
  BY <1>1, SentFetch DEF sent
<1>3. /\ Len(wire) # 0 /\ Len(wire') = Len(wire) - 1 /\ Head(wire) = wire[1]
      /\ \A i \in 1..Len(wire') : wire'[i] = wire[i + 1]
  BY <1>1, EmptySeq, HeadTailProperties
<1>4. \A i \in 1..Len(wire) : wire[i] = Done => i = Len(wire)
  BY DEF WireInv
<1>5. \A i \in 1..Len(wire') : wire'[i] = Done => i = Len(wire')
  <2> SUFFICES ASSUME NEW i \in 1..Len(wire'), wire'[i] = Done PROVE i = Len(wire')
    OBVIOUS
  <2>1. i + 1 \in 1..Len(wire) /\ i \in Nat
    BY <1>1, <1>3
  <2>2. i + 1 = Len(wire)
    <3>1. wire[i + 1] = Done
      BY <1>3
    <3> QED
      BY <1>4, <2>1, <3>1
  <2>3. Len(wire') = Len(wire) - 1
    BY <1>3
  <2> QED
    BY <2>1, <2>2, <2>3
<1>6. sent # <<>>
  BY <1>1, ConcatEqualIffEmpty DEF sent
<1>7. DOMAIN wire' = 1..Len(wire') /\ DOMAIN wire = 1..Len(wire)
  BY <1>1, <1>2, LenProperties
<1>8. CASE Head(wire) = Done
  <2>1. sink' = "closed" /\ printed' = printed
    BY <1>8 DEF Fetch
  <2>2. wire' = <<>>
    <3>1. 1 \in 1..Len(wire) /\ wire[1] = Done
      BY <1>1, <1>3, <1>8
    <3>2. Len(wire) = 1
      BY <1>4, <3>1
    <3>3. Len(wire') = 0 /\ wire' \in Seq(Sent)
      BY <1>1, <1>2, <1>3, <3>2
    <3> QED
      BY <3>3, EmptySeq
  <2>3. sent' = printed /\ sent = Append(printed, Done)
    BY <1>1, <1>2, <1>8, <2>1, <2>2, ConcatEmptySeq DEF sent
  <2>4. DoneSent
    BY <1>1, <1>3, <1>7, <1>8 DEF DoneSent, ToSet
  <2>5. WireInv'
    BY <1>5, <2>1, <2>2, EmptySeq DEF WireInv
  <2> QED
    BY <1>1, <1>6, <2>1, <2>3, <2>4, <2>5
<1>9. CASE Head(wire) # Done
  <2>1. sink' = sink /\ printed' = Append(printed, Head(wire)) /\ printed \in Seq(Messages)
    BY <1>9 DEF Fetch, WireInv
  <2>2. sent' = sent
    BY <1>1, <1>2, <2>1 DEF sent
  <2>3. Head(wire) \in Messages
    BY <1>2, <1>9 DEF Sent
  <2>4. printed' \in Seq(Messages)
    BY <2>1, <2>3, AppendProperties
  <2>5. WireInv'
    BY <1>1, <1>2, <1>5, <2>1, <2>4 DEF WireInv, Sent
  <2>6. DoneSent' => DoneSent
    <3>1. \A i \in 1..Len(wire') : i + 1 \in 1..Len(wire)
      BY <1>1, <1>3
    <3> QED
      BY <1>1, <1>3, <1>7, <2>1, <3>1 DEF DoneSent, ToSet
  <2> QED
    BY <1>1, <1>6, <2>2, <2>5, <2>6
<1> QED
  BY <1>8, <1>9

-----------------------------------------------------------------------------
(***************************************************************************)
(* What has been sent, with --dump.                                        *)
(***************************************************************************)
Early == pc \in {"connect", "poll", "load"}

\* Only a turn changes what the last messages are, and with --dump there is no second poll.
LEMMA OtherStepsKeepView ==
  ASSUME MessageInv, config.dump, [Next]_vars, \A k \in Keys : ~(MessageSent(k) \/ SendFails(k))
  PROVE  /\ view' = view
         /\ ~Early => ~Early' /\ dead' = dead
<1> USE DEF Early
<1>1. CASE Poll
  BY <1>1 DEF Poll, PollFails, PollError, BulkLoad, IncrementalLoad, LoadNew, LoadDestroy, LoadSet,
    LoadDelete, EndLoad, LoadAborts, broker
<1>2. CASE OpenSucceeds \/ OpenFails
  BY <1>2 DEF OpenSucceeds, OpenFails, source
<1>3. CASE EndDirty \/ EndDelete \/ (\E k \in Keys : SkipPublish(k))
  BY <1>3 DEF EndDirty, EndDelete, SkipPublish, broker, source
<1>4. CASE SendDone \/ Leave
  BY <1>4 DEF SendDone, Leave, broker, source
<1>5. CASE ConnectionLost \/ Sigterm \/ Terminated \/ UNCHANGED vars
  BY <1>5 DEF ConnectionLost, Sigterm, Terminated, vars, broker, source
<1>6. ~Wake
  BY DEF Wake, MessageInv, DumpInv
<1> QED
  BY <1>1, <1>2, <1>3, <1>4, <1>5, <1>6 DEF Next, Publish

\* Before anything is sent nothing is said about anyone.
LEMMA SaysNothing == \A j \in Jobs : Says(<<>>, j, Null)
BY EmptySeq DEF Says

\* The steps that leave what has been sent as it is.
LEMMA SentKeepsOneMessage ==
  ASSUME MessageInv, config.dump, FirstTurnInv, OneMessageInv, [Next]_vars, sent' = sent,
         \A k \in Keys : ~(MessageSent(k) \/ SendFails(k))
  PROVE  OneMessageInv'
<1>1. view' = view /\ (~Early => ~Early' /\ dead' = dead)
  BY OtherStepsKeepView
<1>2. CASE Early
  <2>1. sent' = <<>> /\ \A j \in Jobs : view'[j] = Null
    BY <1>1, <1>2, KeysAreClustersAndJobs DEF Early, FirstTurnInv, OneMessageInv
  <2> QED
    BY <2>1, SaysNothing DEF OneMessageInv
<1>3. CASE ~Early
  BY <1>1, <1>3 DEF Early, OneMessageInv
<1> QED
  BY <1>2, <1>3

\* A turn: the first message about a job that is not destroyed.
LEMMA TurnKeepsOneMessage ==
  ASSUME IInv, config.dump, WireInv, FirstTurnInv, OneMessageInv,
         NEW k \in Keys, MessageSent(k) \/ SendFails(k),
         \/ sent' = sent /\ view'[k] = Lost
         \/ /\ view'[k] \in Attrs /\ Message(k, view'[k]) \in Messages
            /\ sent' = Append(sent, Message(k, view'[k]))
  PROVE  OneMessageInv'
<1>1. /\ pc' \in {"publish", "reconnect"} /\ dead' = dead
      /\ k \in Jobs \ dead => view[k] = Null
      /\ \A l \in Keys \ {k} : view'[l] = view[l]
  BY TurnResult
<1>2. ASSUME NEW j \in Jobs \ dead PROVE Says(sent', j, view'[j])
  <2>1. Says(sent, j, view[j]) /\ sent \in Seq(Sent) /\ j \in Keys
    BY WireFacts, KeysAreClustersAndJobs DEF OneMessageInv
  <2>2. CASE sent' = sent /\ view'[k] = Lost
    BY <1>1, <2>1, <2>2 DEF Says
  <2>3. CASE /\ view'[k] \in Attrs /\ Message(k, view'[k]) \in Messages
             /\ sent' = Append(sent, Message(k, view'[k]))
    <3>1. PICK m, c : m = Message(k, view'[k]) /\ c = view'[k]
      OBVIOUS
    <3>2. m \in Sent /\ m # Done /\ m.subject = k /\ m.content = c /\ sent' = Append(sent, m)
      BY <2>3, <3>1, DoneAssumption DEF Message, Sent
    <3>3. CASE j = k
      <4>1. c \notin {Null, Lost} /\ view[j] = Null
        BY <1>1, <2>3, <3>1, <3>3, JobIsNotNull, LostAssumption
      <4>2. Says(Append(sent, m), j, m.content)
        BY <2>1, <3>2, <3>3, <4>1, SaysAppend
      <4> QED
        BY <3>1, <3>2, <3>3, <4>2
    <3>4. CASE j # k
      <4>1. view'[j] = view[j]
        BY <1>1, <2>1, <3>4
      <4>2. Says(Append(sent, m), j, view[j])
        BY <2>1, <3>2, <3>4, SaysAppend
      <4> QED
        BY <3>2, <4>1, <4>2
    <3> QED
      BY <3>3, <3>4
  <2> QED
    BY <2>2, <2>3
<1> QED
  BY <1>1, <1>2 DEF OneMessageInv

\* With --dump what has been sent about a job that is not destroyed is its last message.
LEMMA OneMessageStep ==
  ASSUME IInv, MessageInv, config.dump, WireInv, FirstTurnInv, OneMessageInv, DumpedInv,
         [SinkNext]_sinkVars
  PROVE  OneMessageInv'
<1>1. [Next]_vars
  BY SinkStepIsMainStep
<1>2. ASSUME NEW k \in Keys, Send(k) PROVE OneMessageInv'
  <2>1. ~DoneSent
    BY <1>2 DEF DumpedInv, Send, MessageSent
  <2> QED
    BY <1>2, <2>1, SendResult, TurnKeepsOneMessage DEF Send
<1>3. ASSUME NEW k \in Keys, SendFails(k), UNCHANGED channel PROVE OneMessageInv'
  <2>1. sent' = sent
    BY <1>3 DEF channel, sent
  <2>2. view'[k] = Lost
    BY <1>3 DEF SendFails, IInv, TypeOK
  <2> QED
    BY <1>3, <2>1, <2>2, TurnKeepsOneMessage
<1>4. ASSUME NEW m \in Sent, sent \in Seq(Sent), m = Done, sent' = Append(sent, m),
             ~Early', dead' = dead, view' = view
      PROVE  OneMessageInv'
  BY <1>4, SaysAppend DEF OneMessageInv, Early
<1>5. CASE DumpAndSendDone
  <2>1. ~DoneSent
    BY <1>5 DEF DumpedInv, DumpAndSendDone, SendDone
  <2>2. CASE sent' = sent
    BY <1>5, <2>1, <2>2, DoneResult DEF OneMessageInv
  <2>3. CASE sent' = Append(sent, Done)
    BY <1>4, <1>5, <2>1, <2>3, DoneResult, WireFacts DEF Early, Sent
  <2> QED
    BY <1>5, <2>1, <2>2, <2>3, DoneResult
<1>6. CASE Fetch
  <2>1. /\ UNCHANGED vars /\ sent # <<>>
        /\ \/ sent' = sent
           \/ sent' \in Seq(Sent) /\ sent = Append(sent', Done)
    BY <1>6, FetchResult
  <2>2. UNCHANGED <<pc, dead, view>>
    BY <2>1 DEF vars, broker, source
  <2>3. CASE sent' = sent
    BY <2>2, <2>3 DEF OneMessageInv
  <2>4. CASE sent' \in Seq(Sent) /\ sent = Append(sent', Done)
    <3>1. Done \in Sent
      BY DEF Sent
    <3>2. PICK s : s = sent'
      OBVIOUS
    <3>3. \A j \in Jobs : Says(sent, j, view[j]) => Says(s, j, view[j])
      BY <2>4, <3>1, <3>2, SaysAppend
    <3> QED
      BY <2>1, <2>2, <3>2, <3>3 DEF OneMessageInv
  <2> QED
    BY <2>1, <2>3, <2>4
<1>7. CASE UNCHANGED channel /\ \A k \in Keys : ~SendFails(k) /\ ~MessageSent(k)
  <2>1. sent' = sent
    BY <1>7 DEF channel, sent
  <2> QED
    BY <1>1, <1>7, <2>1, SentKeepsOneMessage
<1>8. LeaveInSync \/ OtherStep \/ UNCHANGED sinkVars => UNCHANGED channel
  BY DEF LeaveInSync, OtherStep, sinkVars
<1>9. ASSUME LeaveInSync \/ OtherStep \/ UNCHANGED sinkVars, \A l \in Keys : ~SendFails(l),
             NEW k \in Keys
      PROVE  ~MessageSent(k)
  <2> SUFFICES ASSUME MessageSent(k) PROVE FALSE
    OBVIOUS
  <2>1. pc = "publish" /\ config.address /\ k \in todo /\ todo' = todo \ {k}
    BY DEF MessageSent, Current, FinishIteration
  <2> QED
    BY <1>9, <2>1 DEF LeaveInSync, OtherStep, sinkVars, vars, Poll, PollFails, PollError, BulkLoad,
      IncrementalLoad, LoadNew, LoadDestroy, LoadSet, LoadDelete, EndLoad, LoadAborts, EndDirty,
      EndDelete, SkipPublish, OpenSucceeds, OpenFails, ConnectionLost, Wake, Sigterm, Terminated,
      Leave
<1> QED
  BY <1>2, <1>3, <1>5, <1>6, <1>7, <1>8, <1>9 DEF SinkNext

-----------------------------------------------------------------------------
(***************************************************************************)
(* The inductive invariant.                                                *)
(***************************************************************************)

\* What the channel holds keeps its form.
LEMMA WireStep == WireInv /\ IInv /\ DumpedInv /\ [SinkNext]_sinkVars => WireInv'
<1> SUFFICES ASSUME WireInv, IInv, DumpedInv, [SinkNext]_sinkVars PROVE WireInv'
  OBVIOUS
<1>1. ASSUME NEW k \in Keys, Send(k) PROVE WireInv'
  BY <1>1, SendResult DEF Send, MessageSent, DumpedInv
<1>2. CASE DumpAndSendDone
  BY <1>2, DoneResult DEF DumpAndSendDone, SendDone, DumpedInv
<1>3. CASE Fetch
  BY <1>3, FetchResult
<1>4. CASE UNCHANGED channel
  BY <1>4 DEF channel, WireInv
<1>5. LeaveInSync \/ OtherStep \/ UNCHANGED sinkVars => UNCHANGED channel
  BY DEF LeaveInSync, OtherStep, sinkVars
<1> QED
  BY <1>1, <1>2, <1>3, <1>4, <1>5 DEF SinkNext

\* After Dump main publishes nothing more.
LEMMA AfterDump ==
  ASSUME [Next]_vars, pc \in {"leave", "stopped", "aborted"}
  PROVE  pc' \in {"leave", "stopped", "aborted"} /\ UNCHANGED <<view, dead>>
BY DEF Next, vars, broker, source, Poll, Publish, PollFails, PollError, BulkLoad, IncrementalLoad,
  EndLoad, LoadAborts, LoadNew, LoadDestroy, LoadDelete, LoadSet, MessageSent, SendFails,
  SkipPublish, EndDirty, EndDelete, OpenSucceeds, OpenFails, ConnectionLost, SendDone, Wake, Leave,
  Sigterm, Terminated

\* Dump lists the jobs of the log, each with what its last message said.
LEMMA DumpAgrees ==
  ASSUME IInv, MessageInv, FirstTurnInv, pc = "dump", config.address, NEW j \in Jobs \ dead
  PROVE  /\ Known(j) => Content(j) # Null /\ view[j] \in {Content(j), Lost}
         /\ ~Known(j) => view[j] = Null
<1>1. /\ QueueTypeOK /\ ParentInv /\ MemoryInv /\ config.dump
      /\ Doomed = {} /\ Due = {}
  BY DEF IInv, TypeOK, LoopInv, MessageInv, Doomed, Due, Publishing, Running, Final
<1>2. Known(j) <=> j \in live
  BY <1>1 DEF MemoryInv
<1>3. j \in Keys
  BY KeysAreClustersAndJobs
<1>4. ASSUME Known(j) PROVE Content(j) # Null /\ view[j] \in {Content(j), Lost}
  <2>1. Content(j) \in Attrs
    BY <1>1, <1>3, <1>4, PublishedIsContent
  <2> QED
    BY <1>1, <1>2, <1>4, <2>1, JobIsNotNull DEF MessageInv, DumpInv
<1>5. ASSUME ~Known(j) PROVE view[j] = Null
  BY <1>2, <1>5 DEF FirstTurnInv
<1> QED
  BY <1>4, <1>5

\* From DONE on, what was dumped and what was published stay in agreement.
LEMMA DumpedStep ==
  ASSUME IInv, MessageInv, WireInv, config.dump => FirstTurnInv, DumpedInv, [SinkNext]_sinkVars
  PROVE  DumpedInv'
<1>1. [Next]_vars
  BY SinkStepIsMainStep
<1>2. ASSUME DoneSent' => DoneSent, UNCHANGED dumped PROVE DumpedInv'
  BY <1>1, <1>2, AfterDump DEF DumpedInv
<1>3. ASSUME NEW k \in Keys, Send(k) PROVE DumpedInv'
  <2>1. ~DoneSent'
    BY <1>3, SendResult DEF Send, MessageSent, DumpedInv
  <2> QED
    BY <2>1 DEF DumpedInv
<1>4. CASE Fetch
  BY <1>2, <1>4, FetchResult
<1>5. CASE UNCHANGED channel
  BY <1>2, <1>5 DEF channel, DoneSent
<1>6. CASE DumpAndSendDone
  <2>1. /\ UNCHANGED <<config, live, dead, view>> /\ pc = "dump"
        /\ dumped' = [k \in Keys |-> IF Known(k) THEN Content(k) ELSE Null]
        /\ ~DoneSent' \/ (config.address /\ pc' = "leave")
    BY <1>6, DoneResult DEF DumpAndSendDone, SendDone, DumpedInv
  <2>2. CASE ~DoneSent'
    BY <2>2 DEF DumpedInv
  <2>3. CASE config.address /\ pc' = "leave"
    <3>1. FirstTurnInv
      BY <2>1 DEF MessageInv
    <3>2. \A j \in Jobs \ dead :
            IF dumped'[j] = Null THEN view[j] = Null ELSE view[j] \in {dumped'[j], Lost}
      <4> SUFFICES ASSUME NEW j \in Jobs \ dead
                   PROVE  IF dumped'[j] = Null THEN view[j] = Null ELSE view[j] \in {dumped'[j], Lost}
        OBVIOUS
      <4>1. dumped'[j] = IF Known(j) THEN Content(j) ELSE Null
        BY <2>1, KeysAreClustersAndJobs
      <4>2. /\ Known(j) => Content(j) # Null /\ view[j] \in {Content(j), Lost}
            /\ ~Known(j) => view[j] = Null
        BY <2>1, <2>3, <3>1, DumpAgrees
      <4> QED
        BY <4>1, <4>2
    <3> QED
      BY <2>1, <2>3, <3>2 DEF DumpedInv
  <2> QED
    BY <2>1, <2>2, <2>3
<1>7. LeaveInSync \/ OtherStep \/ UNCHANGED sinkVars => UNCHANGED channel
  BY DEF LeaveInSync, OtherStep, sinkVars
<1> QED
  BY <1>3, <1>4, <1>5, <1>6, <1>7 DEF SinkNext

\* Without --dump sink gets nothing.
LEMMA NoDumpStep ==
  ASSUME IInv, MessageInv, WireInv, DumpedInv, ~config.dump, sent = <<>>, sink = "fetch",
         [SinkNext]_sinkVars
  PROVE  sent' = <<>> /\ sink' = "fetch"
<1>1. ASSUME NEW k \in Keys, Send(k) PROVE sent' = <<>> /\ sink' = "fetch"
  BY <1>1, SendResult DEF Send, MessageSent, DumpedInv
<1>2. ~DumpAndSendDone
  BY DEF DumpAndSendDone, SendDone, MessageInv
<1>3. ~Fetch
  BY FetchResult
<1>4. CASE UNCHANGED channel
  BY <1>4 DEF channel, sent
<1>5. LeaveInSync \/ OtherStep \/ UNCHANGED sinkVars => UNCHANGED channel
  BY DEF LeaveInSync, OtherStep, sinkVars
<1> QED
  BY <1>1, <1>2, <1>3, <1>4, <1>5 DEF SinkNext

\* The parts hold of a step together.
LEMMA SinkStep == SinkInv /\ IInv /\ MessageInv /\ [SinkNext]_sinkVars => SinkInv'
<1> SUFFICES ASSUME SinkInv, IInv, MessageInv, [SinkNext]_sinkVars PROVE SinkInv'
  OBVIOUS
<1>1. [Next]_vars /\ UNCHANGED config
  BY SinkStepIsMainStep, ConfigIsFixed
<1>2. WireInv'
  BY WireStep DEF SinkInv
<1>3. config.dump => FirstTurnInv'
  BY <1>1, FirstTurnStep DEF SinkInv
<1>4. config.dump => OneMessageInv'
  BY OneMessageStep DEF SinkInv
<1>5. ~config.dump => sent' = <<>> /\ sink' = "fetch"
  BY NoDumpStep DEF SinkInv
<1>6. DumpedInv'
  BY DumpedStep DEF SinkInv
<1> QED
  BY <1>1, <1>2, <1>3, <1>4, <1>5, <1>6 DEF SinkInv

\* The parts hold of the initial states.
LEMMA SinkInitInv == SinkInit => SinkInv
<1> SUFFICES ASSUME SinkInit PROVE SinkInv
  OBVIOUS
<1>1. sent = <<>> /\ sink = "fetch" /\ wire = <<>> /\ printed = <<>>
  BY EmptySeq, ConcatEmptySeq DEF SinkInit, sent
<1>2. WireInv
  BY <1>1, EmptySeq DEF WireInv
<1>3. ~DoneSent
  BY <1>1, <1>2, WireFacts, EmptySeq
<1>4. /\ \A k \in Keys : view[k] = Null
      /\ pc \in {"connect", "poll"}
  BY DEF SinkInit, Init
<1>5. FirstTurnInv
  BY <1>4, KeysAreClustersAndJobs DEF FirstTurnInv, Publishing
<1>6. OneMessageInv
  BY <1>1, <1>4, SaysNothing, KeysAreClustersAndJobs DEF OneMessageInv
<1> QED
  BY <1>1, <1>2, <1>3, <1>5, <1>6 DEF SinkInv, DumpedInv

\* Main, watched by sink, is the main of JobQueuePublisher: what is proved of it there
\* holds here.
THEOREM SinkWatchesMain == SinkSpec => Spec
<1>1. [SinkNext]_sinkVars => [Next]_vars
  BY SinkStepIsMainStep
<1> QED
  BY <1>1, PTL DEF SinkSpec, SinkInit, Spec

\* The messages that are sent and not lost are, until Dump, the last messages, one for
\* each job, and Dump agrees with them.
THEOREM SinkInductive == SinkSpec => []SinkInv
<1>1. SinkInit => SinkInv
  BY SinkInitInv
<1>2. SinkInv /\ IInv /\ MessageInv /\ [SinkNext]_sinkVars => SinkInv'
  BY SinkStep
<1> QED
  BY <1>1, <1>2, SinkWatchesMain, Consistent, MessagesConsistent, PTL DEF SinkSpec

\* The comparison that test_job_queue_publisher.sh makes never fails: for any log, any
\* triggers and any broker, what sink has printed at DONE is what Dump wrote, but for
\* messages that were lost and jobs destroyed in the log.
THEOREM SinkAgreesWithTheDump == SinkSpec => []SinkAgreesWithDump
<1>1. SinkInv => SinkAgreesWithDump
  <2> SUFFICES ASSUME SinkInv, sink = "closed", NEW j \in Jobs \ dead
               PROVE  Says(printed, j, IF view[j] = Lost THEN Lost ELSE dumped[j])
    BY DEF SinkAgreesWithDump
  <2>1. sent = printed
    BY ConcatEmptySeq DEF SinkInv, WireInv, sent
  <2>2. Says(printed, j, view[j])
    BY <2>1 DEF SinkInv, OneMessageInv
  <2>3. IF dumped[j] = Null THEN view[j] = Null ELSE view[j] \in {dumped[j], Lost}
    BY DEF SinkInv, DumpedInv, DoneSent
  <2> QED
    BY <2>2, <2>3
<1> QED
  BY <1>1, SinkInductive, PTL
=============================================================================
