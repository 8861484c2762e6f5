--------------------------- MODULE ScheddLogProofs ---------------------------
(***************************************************************************)
(* What the records of a log say, and what every file of the schedd is     *)
(* like: for any keys and attributes, any bounds, any set of record types  *)
(* and anything that may go wrong.                                         *)
(***************************************************************************)
EXTENDS ScheddLog, WellFoundedInduction, SequenceTheorems, TLAPS

-----------------------------------------------------------------------------
(***************************************************************************)
(* Numbers and sequences.                                                  *)
(***************************************************************************)

\* A set of numbers has a least element: what stands for induction here.
LEMMA LeastNumber ==
  ASSUME NEW T, T \subseteq Nat, T # {}
  PROVE  \E x \in T : \A y \in T : x <= y
<1> DEFINE R == {ss \in Nat \X Nat : ss[1] < ss[2]}
<1>1. IsWellFoundedOn(R, Nat)
  BY NatLessThanWellFounded, Zenon DEF OpToRel
<1>2. \A x, y \in Nat : ~ (<<y, x>> \in R) => x <= y
  OBVIOUS
<1> HIDE DEF R
<1>3. PICK x \in T : \A y \in T : ~ (<<y, x>> \in R)
  BY <1>1, WFMin
<1>4. \A y \in T : x <= y
  BY <1>2, <1>3
<1> QED
  BY <1>4

\* A bounded one has a greatest element.
LEMMA GreatestNumber ==
  ASSUME NEW b \in Nat, NEW T, T \subseteq 0..b, T # {}
  PROVE  \E x \in T : \A y \in T : y <= x
<1> DEFINE U == {n \in Nat : \E x \in T : n = b - x}
<1>1. U \subseteq Nat /\ U # {}
  <2>1. PICK x \in T : TRUE
    OBVIOUS
  <2>2. b - x \in U
    BY x \in 0..b
  <2> QED
    BY <2>2
<1> HIDE DEF U
<1>2. PICK u \in U : \A v \in U : u <= v
  BY <1>1, LeastNumber
<1>3. PICK x \in T : u = b - x
  BY <1>2 DEF U
<1>4. ASSUME NEW y \in T PROVE y <= x
  <2>1. b - y \in U /\ x \in 0..b /\ y \in 0..b
    BY y \in 0..b, x \in 0..b DEF U
  <2>2. b - x <= b - y
    BY <1>2, <1>3, <2>1
  <2> QED
    BY <2>1, <2>2
<1> QED
  BY <1>4

\* The first n records of a file.
LEMMA Prefix ==
  ASSUME NEW S, NEW s \in Seq(S), NEW n \in 0..Len(s)
  PROVE  /\ SubSeq(s, 1, n) \in Seq(S)
         /\ Len(SubSeq(s, 1, n)) = n
         /\ \A i \in 1..n : SubSeq(s, 1, n)[i] = s[i]
<1>1. Len(s) \in Nat /\ \A i \in 1..n : s[i] \in S
  BY ElementOfSeq, LenProperties
<1> QED
  BY <1>1, SubSeqProperties, n \in Int, 1 \in Int

\* Files that agree up to a record have the same prefix there.
LEMMA SamePrefix ==
  ASSUME NEW S, NEW s \in Seq(S), NEW t \in Seq(S), NEW n \in 0..Len(s), n <= Len(t),
         \A i \in 1..n : s[i] = t[i]
  PROVE  SubSeq(s, 1, n) = SubSeq(t, 1, n)
<1>1. n \in 0..Len(t)
  BY LenProperties
<1> DEFINE u == SubSeq(s, 1, n)
           v == SubSeq(t, 1, n)
<1>2. u \in Seq(S) /\ v \in Seq(S) /\ Len(u) = n /\ Len(v) = n
      /\ \A i \in 1..n : u[i] = s[i] /\ v[i] = t[i]
  BY <1>1, Prefix
<1> HIDE DEF u, v
<1>3. u = v
  BY <1>2, SeqEqual
<1> QED
  BY <1>3 DEF u, v

\* A prefix of a prefix.
LEMMA PrefixOfPrefix ==
  ASSUME NEW S, NEW s \in Seq(S), NEW n \in 0..Len(s), NEW m \in 0..n
  PROVE  SubSeq(SubSeq(s, 1, n), 1, m) = SubSeq(s, 1, m)
<1> DEFINE u == SubSeq(s, 1, n)
<1>1. u \in Seq(S) /\ Len(u) = n /\ \A i \in 1..n : u[i] = s[i]
  BY Prefix
<1>2. m \in 0..Len(u) /\ m <= Len(s) /\ \A i \in 1..m : u[i] = s[i]
  BY <1>1, LenProperties
<1> HIDE DEF u
<1>3. SubSeq(u, 1, m) = SubSeq(s, 1, m)
  BY <1>1, <1>2, SamePrefix
<1> QED
  BY <1>3 DEF u

\* One more record.
LEMMA PrefixGrows ==
  ASSUME NEW S, NEW s \in Seq(S), NEW n \in 0..Len(s), n < Len(s)
  PROVE  SubSeq(s, 1, n + 1) = Append(SubSeq(s, 1, n), s[n + 1])
<1> DEFINE u == SubSeq(s, 1, n + 1)
           v == SubSeq(s, 1, n)
           w == Append(v, s[n + 1])
<1>1. Len(s) \in Nat /\ n + 1 \in 0..Len(s) /\ s[n + 1] \in S
  BY LenProperties, ElementOfSeq
<1>2. u \in Seq(S) /\ Len(u) = n + 1 /\ \A i \in 1..n + 1 : u[i] = s[i]
  BY <1>1, Prefix
<1>3. v \in Seq(S) /\ Len(v) = n /\ \A i \in 1..n : v[i] = s[i]
  BY Prefix
<1>4. w \in Seq(S) /\ Len(w) = n + 1 /\ \A i \in 1..n + 1 : w[i] = s[i]
  <2> HIDE DEF v
  <2>1. w \in Seq(S) /\ Len(w) = Len(v) + 1 /\ w[Len(v) + 1] = s[n + 1]
        /\ \A i \in 1..Len(v) : w[i] = v[i]
    BY <1>1, <1>3, AppendProperties
  <2> QED
    BY <1>3, <2>1
<1> HIDE DEF u, w
<1>5. u = w
  BY <1>1, <1>2, <1>4, SeqEqual
<1> QED
  BY <1>5 DEF u, w

\* The prefixes of a file that is appended to stay the same.
LEMMA PrefixOfAppend ==
  ASSUME NEW S, NEW s \in Seq(S), NEW e \in S, NEW n \in 0..Len(s)
  PROVE  SubSeq(Append(s, e), 1, n) = SubSeq(s, 1, n)
<1> DEFINE t == Append(s, e)
<1>1. t \in Seq(S) /\ Len(t) = Len(s) + 1 /\ \A i \in 1..Len(s) : t[i] = s[i]
  BY AppendProperties
<1>2. Len(s) \in Nat
  BY LenProperties
<1> HIDE DEF t
<1>3. SubSeq(s, 1, n) = SubSeq(t, 1, n)
  BY <1>1, <1>2, SamePrefix
<1> QED
  BY <1>3 DEF t

-----------------------------------------------------------------------------
(***************************************************************************)
(* What the records of a log say.                                          *)
(***************************************************************************)

\* One more record creates an ad, destroys it, or leaves it as it is.
LEMMA AliveAppend ==
  ASSUME NEW s \in Seq(Record), NEW rec \in Record, NEW k
  PROVE  Alive(k, Append(s, rec)) <=>
           \/ Tells(rec, "NewClassAd", k)
           \/ Alive(k, s) /\ ~Tells(rec, "DestroyClassAd", k)
<1> DEFINE t == Append(s, rec)
<1>1. Len(s) \in Nat /\ Len(t) = Len(s) + 1 /\ t[Len(s) + 1] = rec /\ \A i \in 1..Len(s) : t[i] = s[i]
  BY AppendProperties, LenProperties
<1> HIDE DEF t
<1>2. ASSUME Alive(k, t) PROVE Tells(rec, "NewClassAd", k) \/ (Alive(k, s) /\ ~Tells(rec, "DestroyClassAd", k))
  <2>1. PICK i \in 1..Len(t) : Tells(t[i], "NewClassAd", k) /\ \A j \in i + 1 .. Len(t) : ~Tells(t[j], "DestroyClassAd", k)
    BY <1>2 DEF Alive
  <2>2. CASE i = Len(s) + 1
    BY <1>1, <2>1, <2>2
  <2>3. CASE i # Len(s) + 1
    <3>1. i \in 1..Len(s) /\ Len(s) + 1 \in i + 1 .. Len(t) /\ \A j \in i + 1 .. Len(s) : j \in i + 1 .. Len(t) /\ j \in 1..Len(s)
      BY <1>1, <2>3
    <3>2. ~Tells(rec, "DestroyClassAd", k) /\ Tells(s[i], "NewClassAd", k) /\ \A j \in i + 1 .. Len(s) : ~Tells(s[j], "DestroyClassAd", k)
      BY <1>1, <2>1, <3>1
    <3> QED
      BY <3>1, <3>2 DEF Alive
  <2> QED
    BY <2>2, <2>3
<1>3. ASSUME Tells(rec, "NewClassAd", k) PROVE Alive(k, t)
  <2>1. Len(s) + 1 \in 1..Len(t) /\ \A j \in Len(s) + 1 + 1 .. Len(t) : FALSE
    BY <1>1
  <2> QED
    BY <1>1, <1>3, <2>1 DEF Alive
<1>4. ASSUME Alive(k, s), ~Tells(rec, "DestroyClassAd", k) PROVE Alive(k, t)
  <2>1. PICK i \in 1..Len(s) : Tells(s[i], "NewClassAd", k) /\ \A j \in i + 1 .. Len(s) : ~Tells(s[j], "DestroyClassAd", k)
    BY <1>4 DEF Alive
  <2>2. i \in 1..Len(t) /\ \A j \in i + 1 .. Len(t) : j = Len(s) + 1 \/ (j \in i + 1 .. Len(s) /\ j \in 1..Len(s))
    BY <1>1
  <2>3. Tells(t[i], "NewClassAd", k) /\ \A j \in i + 1 .. Len(t) : ~Tells(t[j], "DestroyClassAd", k)
    BY <1>1, <1>4, <2>1, <2>2
  <2> QED
    BY <2>2, <2>3 DEF Alive
<1> QED
  BY <1>2, <1>3, <1>4 DEF t

\* An ad that is there was created.
LEMMA AliveIsCreated ==
  ASSUME NEW s, NEW k, Alive(k, s)
  PROVE  Created(k, s)
BY DEF Alive, Created, Tells

\* Every attribute of an ad that is there has a record that decides about it last.
LEMMA LastWordExists ==
  ASSUME NEW s \in Seq(Record), NEW k, NEW n, Alive(k, s)
  PROVE  LastWord(k, n, s) \in 1..Len(s) /\ IsLastWord(LastWord(k, n, s), k, n, s)
<1> DEFINE T == {i \in 1..Len(s) : Decides(s[i], k, n)}
<1>1. Len(s) \in Nat /\ T \subseteq 0..Len(s)
  BY LenProperties
<1>2. T # {}
  <2>1. PICK i \in 1..Len(s) : Tells(s[i], "NewClassAd", k)
    BY DEF Alive
  <2>2. i \in T
    BY <2>1 DEF Decides
  <2> QED
    BY <2>2
<1>3. PICK i \in T : \A j \in T : j <= i
  <2> HIDE DEF T
  <2> QED
    BY <1>1, <1>2, GreatestNumber
<1>4. i \in 1..Len(s) /\ IsLastWord(i, k, n, s)
  <2>1. ASSUME NEW j \in i + 1 .. Len(s) PROVE ~Decides(s[j], k, n)
    <3>1. j \in 1..Len(s) /\ ~ (j <= i)
      BY <1>1, <1>3
    <3> QED
      BY <1>3, <3>1
  <2> QED
    BY <1>3, <2>1 DEF IsLastWord
<1> QED
  BY <1>4 DEF LastWord

\* There is only one.
LEMMA LastWordIsOne ==
  ASSUME NEW s \in Seq(Record), NEW k, NEW n,
         NEW i \in 1..Len(s), IsLastWord(i, k, n, s)
  PROVE  LastWord(k, n, s) = i
<1>1. Len(s) \in Nat
  BY LenProperties
<1>2. ASSUME NEW j \in 1..Len(s), IsLastWord(j, k, n, s) PROVE j = i
  <2>1. ~ (j \in i + 1 .. Len(s)) /\ ~ (i \in j + 1 .. Len(s))
    BY <1>2 DEF IsLastWord
  <2> QED
    BY <1>1, <2>1
<1> QED
  BY <1>2 DEF LastWord

\* One more record has the last word on what it decides, and no other.
LEMMA LastWordAppend ==
  ASSUME NEW s \in Seq(Record), NEW rec \in Record, NEW k, NEW n
  PROVE  /\ Decides(rec, k, n) => LastWord(k, n, Append(s, rec)) = Len(s) + 1
         /\ ~Decides(rec, k, n) /\ Alive(k, s) => LastWord(k, n, Append(s, rec)) = LastWord(k, n, s)
<1> DEFINE t == Append(s, rec)
<1>1. Len(s) \in Nat /\ t \in Seq(Record) /\ Len(t) = Len(s) + 1 /\ t[Len(s) + 1] = rec
      /\ \A i \in 1..Len(s) : t[i] = s[i]
  BY AppendProperties, LenProperties
<1> HIDE DEF t
<1>2. ASSUME Decides(rec, k, n) PROVE LastWord(k, n, t) = Len(s) + 1
  <2>1. Len(s) + 1 \in 1..Len(t) /\ \A j \in Len(s) + 1 + 1 .. Len(t) : FALSE
    BY <1>1
  <2>2. IsLastWord(Len(s) + 1, k, n, t)
    BY <1>1, <1>2, <2>1 DEF IsLastWord
  <2> QED
    BY <1>1, <2>1, <2>2, LastWordIsOne
<1>3. ASSUME ~Decides(rec, k, n), Alive(k, s) PROVE LastWord(k, n, t) = LastWord(k, n, s)
  <2> DEFINE i == LastWord(k, n, s)
  <2>1. i \in 1..Len(s) /\ IsLastWord(i, k, n, s)
    BY <1>3, LastWordExists
  <2> HIDE DEF i
  <2>2. i \in 1..Len(t) /\ \A j \in i + 1 .. Len(t) : j = Len(s) + 1 \/ (j \in i + 1 .. Len(s) /\ j \in 1..Len(s))
    BY <1>1, <2>1
  <2>3. IsLastWord(i, k, n, t)
    BY <1>1, <1>3, <2>1, <2>2 DEF IsLastWord
  <2>4. LastWord(k, n, t) = i
    BY <1>1, <2>2, <2>3, LastWordIsOne
  <2> QED
    BY <2>4 DEF i
<1> QED
  BY <1>2, <1>3 DEF t

\* No ads, or attribute maps.
LEMMA ReplayType ==
  ASSUME NEW s \in Seq(Record)
  PROVE  /\ Replay(s) \in [Keys -> Attrs \cup {Null}]
         /\ \A k \in Keys : Replay(s)[k] = Null <=> ~Alive(k, s)
<1>1. ASSUME NEW k \in Keys, Alive(k, s)
      PROVE  [n \in Names |-> s[LastWord(k, n, s)].value] \in Attrs
  <2>1. ASSUME NEW n \in Names PROVE s[LastWord(k, n, s)].value \in Values \cup {Null}
    <3>1. s[LastWord(k, n, s)] \in Record
      BY <1>1, LastWordExists, ElementOfSeq
    <3> QED
      BY <3>1 DEF Record
  <2> QED
    BY <2>1 DEF Attrs
<1> QED
  BY <1>1, NullAssumption DEF Replay

\* What one more record changes about an ad: as the consumer is to do it.
LEMMA ReplayAppend ==
  ASSUME NEW s \in Seq(Record), NEW rec \in Record, NEW k \in Keys
  PROVE  LET old == Replay(s)[k]
             new == Replay(Append(s, rec))[k]
         IN /\ Tells(rec, "NewClassAd", k) /\ rec.value = Null => new = NoAttrs
            /\ Tells(rec, "DestroyClassAd", k) => new = Null
            /\ Tells(rec, "SetAttribute", k) \/ Tells(rec, "DeleteAttribute", k) =>
                 new = IF old = Null THEN Null ELSE [old EXCEPT ![rec.name] = rec.value]
            /\ (\A op \in AdOps : ~Tells(rec, op, k)) => new = old
<1> DEFINE t == Append(s, rec)
           old == Replay(s)[k]
           new == Replay(t)[k]
<1>1. Len(s) \in Nat /\ t \in Seq(Record) /\ t[Len(s) + 1] = rec /\ \A i \in 1..Len(s) : t[i] = s[i]
  BY AppendProperties, LenProperties
<1>2. /\ Alive(k, t) <=> \/ Tells(rec, "NewClassAd", k)
                         \/ Alive(k, s) /\ ~Tells(rec, "DestroyClassAd", k)
      /\ \A n \in Names : Decides(rec, k, n) => LastWord(k, n, t) = Len(s) + 1
      /\ \A n \in Names : ~Decides(rec, k, n) /\ Alive(k, s) => LastWord(k, n, t) = LastWord(k, n, s)
  BY AliveAppend, LastWordAppend
<1>3. \A n \in Names : Alive(k, s) => LastWord(k, n, s) \in 1..Len(s)
  BY LastWordExists
<1>4. /\ old = IF Alive(k, s) THEN [n \in Names |-> s[LastWord(k, n, s)].value] ELSE Null
      /\ new = IF Alive(k, t) THEN [n \in Names |-> t[LastWord(k, n, t)].value] ELSE Null
  BY DEF Replay
<1>5. old = Null <=> ~Alive(k, s)
  BY ReplayType
<1> HIDE DEF t, old, new
<1>6. ASSUME Tells(rec, "NewClassAd", k), rec.value = Null PROVE new = NoAttrs
  <2>1. \A n \in Names : t[LastWord(k, n, t)].value = Null
    BY <1>1, <1>2, <1>6 DEF Decides
  <2> QED
    BY <1>2, <1>4, <1>6, <2>1 DEF NoAttrs
<1>7. ASSUME Tells(rec, "DestroyClassAd", k) PROVE new = Null
  <2>1. ~Tells(rec, "NewClassAd", k)
    BY <1>7 DEF Tells
  <2> QED
    BY <1>2, <1>4, <1>7, <2>1
<1>8. ASSUME Tells(rec, "SetAttribute", k) \/ Tells(rec, "DeleteAttribute", k)
      PROVE  new = IF old = Null THEN Null ELSE [old EXCEPT ![rec.name] = rec.value]
  <2>1. ~Tells(rec, "NewClassAd", k) /\ ~Tells(rec, "DestroyClassAd", k)
    BY <1>8 DEF Tells
  <2>2. CASE ~Alive(k, s)
    BY <1>2, <1>4, <1>5, <2>1, <2>2
  <2>3. CASE Alive(k, s)
    <3>1. \A n \in Names : Decides(rec, k, n) <=> n = rec.name
      BY <1>8, <2>1 DEF Decides
    <3>2. \A n \in Names : t[LastWord(k, n, t)].value
                             = IF n = rec.name THEN rec.value ELSE s[LastWord(k, n, s)].value
      BY <1>1, <1>2, <1>3, <2>3, <3>1
    <3>3. old = [n \in Names |-> s[LastWord(k, n, s)].value] /\ Alive(k, t)
      BY <1>2, <1>4, <2>1, <2>3
    <3>4. [n \in Names |-> t[LastWord(k, n, t)].value] = [old EXCEPT ![rec.name] = rec.value]
      BY <3>2, <3>3
    <3> QED
      BY <1>4, <1>5, <2>3, <3>3, <3>4
  <2> QED
    BY <2>2, <2>3
<1>9. ASSUME \A op \in AdOps : ~Tells(rec, op, k) PROVE new = old
  <2>1. ~Tells(rec, "NewClassAd", k) /\ ~Tells(rec, "DestroyClassAd", k) /\ \A n \in Names : ~Decides(rec, k, n)
    BY <1>9 DEF Decides, AdOps
  <2>2. Alive(k, s) => \A n \in Names : t[LastWord(k, n, t)].value = s[LastWord(k, n, s)].value
    BY <1>1, <1>2, <1>3, <2>1
  <2> QED
    BY <1>2, <1>4, <2>1, <2>2
<1> QED
  BY <1>6, <1>7, <1>8, <1>9 DEF t, old, new

\* A log without records holds nothing.
LEMMA ReplayNothing == \A k \in Keys : Replay(<<>>)[k] = Null
<1>1. \A k \in Keys : ~Alive(k, <<>>)
  BY EmptySeq DEF Alive
<1> QED
  BY <1>1 DEF Replay

\* One more record, for what has been created and destroyed at all.
LEMMA CreatedAppend ==
  ASSUME NEW s \in Seq(Record), NEW rec \in Record, NEW k
  PROVE  /\ Created(k, Append(s, rec)) <=> Created(k, s) \/ (rec.op = "NewClassAd" /\ rec.key = k)
         /\ Destroyed(k, Append(s, rec)) <=> Destroyed(k, s) \/ (rec.op = "DestroyClassAd" /\ rec.key = k)
<1> DEFINE t == Append(s, rec)
<1>1. Len(s) \in Nat /\ Len(t) = Len(s) + 1 /\ t[Len(s) + 1] = rec /\ \A i \in 1..Len(s) : t[i] = s[i]
  BY AppendProperties, LenProperties
<1> HIDE DEF t
<1>2. Len(s) + 1 \in 1..Len(t) /\ 1..Len(s) \subseteq 1..Len(t) /\ \A i \in 1..Len(t) : i = Len(s) + 1 \/ i \in 1..Len(s)
  BY <1>1
<1>3. Created(k, t) <=> Created(k, s) \/ (rec.op = "NewClassAd" /\ rec.key = k)
  BY <1>1, <1>2 DEF Created
<1>4. Destroyed(k, t) <=> Destroyed(k, s) \/ (rec.op = "DestroyClassAd" /\ rec.key = k)
  BY <1>1, <1>2 DEF Destroyed
<1> QED
  BY <1>3, <1>4 DEF t

-----------------------------------------------------------------------------
(***************************************************************************)
(* The lengths that the schedd and the reader look for in a file.          *)
(***************************************************************************)

\* The records before the first that cannot be read.
LEMMA ReadableLenResult ==
  ASSUME NEW s \in Seq(Record)
  PROVE  /\ ReadableLen(s) \in 0..Len(s)
         /\ \A i \in 1..ReadableLen(s) : ~Unreadable(s[i])
         /\ ReadableLen(s) < Len(s) => Unreadable(s[ReadableLen(s) + 1])
<1>1. Len(s) \in Nat
  BY LenProperties
<1>2. \E n \in 0..Len(s) : (\A i \in 1..n : ~Unreadable(s[i])) /\ (n < Len(s) => Unreadable(s[n + 1]))
  <2> DEFINE T == {i \in 1..Len(s) : Unreadable(s[i])}
  <2>1. CASE T = {}
    BY <1>1, <2>1
  <2>2. CASE T # {}
    <3>1. PICK i \in T : \A j \in T : i <= j
      <4> HIDE DEF T
      <4>1. T \subseteq Nat
        BY <1>1 DEF T
      <4> QED
        BY <2>2, <4>1, LeastNumber
    <3>2. i \in 1..Len(s) /\ i - 1 \in 0..Len(s) /\ i - 1 + 1 = i
      BY <1>1
    <3>3. ASSUME NEW j \in 1..i - 1 PROVE ~Unreadable(s[j])
      <4>1. j \in 1..Len(s) /\ ~ (i <= j)
        BY <1>1, <3>2
      <4> QED
        BY <3>1, <4>1
    <3> QED
      BY <3>2, <3>3
  <2> QED
    BY <2>1, <2>2
<1> QED
  BY <1>2 DEF ReadableLen

\* It is known from the records around it.
LEMMA ReadableLenIs ==
  ASSUME NEW s \in Seq(Record), NEW n \in 0..Len(s),
         \A i \in 1..n : ~Unreadable(s[i]),
         n < Len(s) => Unreadable(s[n + 1])
  PROVE  ReadableLen(s) = n
<1>1. Len(s) \in Nat /\ ReadableLen(s) \in 0..Len(s)
  BY LenProperties, ReadableLenResult
<1>2. ~ (n < ReadableLen(s))
  <2> SUFFICES ASSUME n < ReadableLen(s) PROVE FALSE
    OBVIOUS
  <2>1. n + 1 \in 1..ReadableLen(s) /\ n < Len(s)
    BY <1>1
  <2> QED
    BY <2>1, ReadableLenResult
<1>3. ~ (ReadableLen(s) < n)
  <2> SUFFICES ASSUME ReadableLen(s) < n PROVE FALSE
    OBVIOUS
  <2>1. ReadableLen(s) + 1 \in 1..n /\ ReadableLen(s) < Len(s)
    BY <1>1
  <2> QED
    BY <2>1, ReadableLenResult
<1> QED
  BY <1>1, <1>2, <1>3

\* The last record of a type, 0 if there is none.
LEMMA LastOfResult ==
  ASSUME NEW s \in Seq(Record), NEW op
  PROVE  /\ LastOf(op, s) \in 0..Len(s)
         /\ LastOf(op, s) # 0 => s[LastOf(op, s)].op = op
<1> DEFINE at == {i \in 1..Len(s) : s[i].op = op /\ s[i].ok}
<1>1. Len(s) \in Nat /\ at \subseteq 0..Len(s)
  BY LenProperties
<1>2. LastOf(op, s) = IF at = {} THEN 0 ELSE CHOOSE i \in at : \A j \in at : j <= i
  BY DEF LastOf
<1>3. CASE at = {}
  BY <1>1, <1>2, <1>3
<1>4. CASE at # {}
  <2>1. \E i \in at : \A j \in at : j <= i
    <3> HIDE DEF at
    <3> QED
      BY <1>1, <1>4, GreatestNumber
  <2>2. LastOf(op, s) \in at
    BY <1>2, <1>4, <2>1
  <2> QED
    BY <1>1, <2>2
<1> QED
  BY <1>3, <1>4

\* What is wiped out never includes the sequence number.
LEMMA CommittedLenResult ==
  ASSUME NEW s \in Seq(Record), NEW g, Numbered(s, g)
  PROVE  CommittedLen(s) \in 0..Len(s) /\ (s # <<>> => CommittedLen(s) >= 1)
<1>1. Len(s) \in Nat /\ (s # <<>> => Len(s) >= 1)
  BY LenProperties, EmptySeq
<1>2. CASE InTransaction(s)
  <2> DEFINE b == LastOf("BeginTransaction", s)
  <2>1. b \in 0..Len(s) /\ LastOf("EndTransaction", s) \in 0..Len(s) /\ (b # 0 => s[b].op = "BeginTransaction")
    BY LastOfResult
  <2>2. b > 0
    BY <1>1, <1>2, <2>1 DEF InTransaction
  <2> HIDE DEF b
  <2>3. s # <<>>
    BY <1>1, <2>1, <2>2, EmptySeq
  <2>4. b # 1
    BY <2>1, <2>2, <2>3 DEF Numbered, SeqNumRecord, Rec
  <2>5. CommittedLen(s) = b - 1
    BY <1>2 DEF CommittedLen, b
  <2> QED
    BY <1>1, <2>1, <2>2, <2>4, <2>5
<1>3. CASE ~InTransaction(s)
  <2>1. CASE s # <<>> /\ ~s[Len(s)].ok
    <3>1. CommittedLen(s) = Len(s) - 1
      BY <1>3, <2>1 DEF CommittedLen
    <3>2. s[1].ok
      BY <2>1 DEF Numbered, SeqNumRecord, Rec
    <3>3. Len(s) >= 2
      BY <1>1, <2>1, <3>2
    <3> QED
      BY <1>1, <3>1, <3>3
  <2>2. CASE ~ (s # <<>> /\ ~s[Len(s)].ok)
    BY <1>1, <1>3, <2>2 DEF CommittedLen
  <2> QED
    BY <2>1, <2>2
<1> QED
  BY <1>2, <1>3

-----------------------------------------------------------------------------
(***************************************************************************)
(* Files that are well-formed.                                             *)
(***************************************************************************)

\* A prefix of one is one.
LEMMA WellFormedPrefix ==
  ASSUME NEW s, WellFormed(s), NEW n \in 0..Len(s)
  PROVE  WellFormed(SubSeq(s, 1, n))
<1> DEFINE u == SubSeq(s, 1, n)
<1>1. s \in Seq(Record)
  BY DEF WellFormed
<1>2. Len(s) \in Nat /\ u \in Seq(Record) /\ Len(u) = n /\ \A i \in 1..n : u[i] = s[i]
  BY <1>1, Prefix, LenProperties
<1>3. ASSUME NEW i \in 1..n PROVE Legal(u[i], Before(u, i))
  <2>1. Before(u, i) = Before(s, i)
    <3>1. i - 1 \in 0..n
      BY <1>2
    <3> QED
      BY <1>1, <3>1, PrefixOfPrefix DEF Before
  <2>2. i \in 1..Len(s)
    BY <1>2
  <2> QED
    BY <1>2, <2>1, <2>2 DEF WellFormed
<1> QED
  BY <1>2, <1>3 DEF WellFormed

\* So is one with a record more that may follow it.
LEMMA WellFormedAppend ==
  ASSUME NEW s, WellFormed(s), NEW rec, Legal(rec, s)
  PROVE  WellFormed(Append(s, rec))
<1> DEFINE t == Append(s, rec)
<1>1. s \in Seq(Record) /\ rec \in Record /\ Len(s) \in Nat
  BY LenProperties DEF WellFormed, Legal
<1>2. t \in Seq(Record) /\ Len(t) = Len(s) + 1 /\ t[Len(s) + 1] = rec /\ \A i \in 1..Len(s) : t[i] = s[i]
  BY <1>1, AppendProperties
<1>3. \A n \in 0..Len(s) : SubSeq(t, 1, n) = SubSeq(s, 1, n)
  BY <1>1, PrefixOfAppend
<1> HIDE DEF t
<1>4. ASSUME NEW i \in 1..Len(t) PROVE Legal(t[i], Before(t, i))
  <2>1. CASE i = Len(s) + 1
    <3>1. i - 1 = Len(s) /\ Len(s) \in 0..Len(s) /\ SubSeq(s, 1, Len(s)) = s
      BY <1>1, <2>1, SubSeqFull
    <3>2. Before(t, i) = s
      BY <1>3, <3>1 DEF Before
    <3> QED
      BY <1>2, <2>1, <3>2
  <2>2. CASE i # Len(s) + 1
    <3>1. i \in 1..Len(s) /\ i - 1 \in 0..Len(s)
      BY <1>1, <1>2, <2>2
    <3>2. Before(t, i) = Before(s, i)
      BY <1>3, <3>1 DEF Before
    <3> QED
      BY <1>2, <3>1, <3>2 DEF WellFormed
  <2> QED
    BY <2>1, <2>2
<1>5. WellFormed(t)
  BY <1>2, <1>4 DEF WellFormed
<1> QED
  BY <1>5 DEF t

\* Whether the body of a record is there does not matter.
LEMMA LegalTornOrNot ==
  ASSUME NEW rec, NEW s, Legal(rec, s), NEW b \in BOOLEAN
  PROVE  Legal([rec EXCEPT !.ok = b], s)
<1> DEFINE r == [rec EXCEPT !.ok = b]
<1>1. r \in Record /\ r.op = rec.op /\ r.key = rec.key /\ r.name = rec.name /\ r.value = rec.value
  BY DEF Legal, Record
<1> HIDE DEF r
<1>2. Legal(r, s)
  BY <1>1 DEF Legal
<1> QED
  BY <1>2 DEF r

\* The rest of the last record is written.
LEMMA CompleteResult ==
  ASSUME NEW s \in Seq(Record), s # <<>>
  PROVE  LET t == [s EXCEPT ![Len(s)].ok = TRUE]
         IN /\ t \in Seq(Record)
            /\ Len(t) = Len(s)
            /\ \A i \in 1..Len(s) :
                 t[i] = IF i = Len(s) THEN [s[Len(s)] EXCEPT !.ok = TRUE] ELSE s[i]
<1> DEFINE r == [s[Len(s)] EXCEPT !.ok = TRUE]
           t == [s EXCEPT ![Len(s)] = r]
<1>1. Len(s) \in 1..Len(s) /\ Len(s) \in Nat
  BY LenProperties, EmptySeq
<1>2. s[Len(s)] \in Record
  BY <1>1, ElementOfSeq
<1>3. r \in Record
  BY <1>2 DEF Record
<1>4. t \in Seq(Record) /\ Len(t) = Len(s) /\ \A i \in 1..Len(s) : t[i] = IF i = Len(s) THEN r ELSE s[i]
  <2> HIDE DEF r
  <2> QED
    BY <1>1, <1>3, ExceptSeq
<1>5. t = [s EXCEPT ![Len(s)].ok = TRUE]
  OBVIOUS
<1> HIDE DEF t
<1> QED
  BY <1>4, <1>5

\* A well-formed file stays one by it.
LEMMA WellFormedComplete ==
  ASSUME NEW s, WellFormed(s), s # <<>>
  PROVE  WellFormed([s EXCEPT ![Len(s)].ok = TRUE])
<1> DEFINE r == [s[Len(s)] EXCEPT !.ok = TRUE]
           t == [s EXCEPT ![Len(s)].ok = TRUE]
<1>1. s \in Seq(Record) /\ Len(s) \in 1..Len(s) /\ Len(s) \in Nat
  BY LenProperties, EmptySeq DEF WellFormed
<1>2. Legal(s[Len(s)], Before(s, Len(s)))
  BY <1>1 DEF WellFormed
<1>3. Legal(r, Before(s, Len(s)))
  BY <1>2, LegalTornOrNot
<1>4. t \in Seq(Record) /\ Len(t) = Len(s) /\ \A i \in 1..Len(s) : t[i] = IF i = Len(s) THEN r ELSE s[i]
  BY <1>1, CompleteResult
<1> HIDE DEF t, r
<1>5. ASSUME NEW i \in 1..Len(s) PROVE Legal(t[i], Before(t, i))
  <2>1. i - 1 \in 0..Len(s) /\ \A j \in 1..i - 1 : j \in 1..Len(s) /\ j # Len(s)
    BY <1>1
  <2>2. Before(s, i) = Before(t, i)
    BY <1>1, <1>4, <2>1, SamePrefix DEF Before
  <2> QED
    BY <1>1, <1>3, <1>4, <2>2 DEF WellFormed
<1>6. WellFormed(t)
  BY <1>4, <1>5 DEF WellFormed
<1> QED
  BY <1>6 DEF t

\* The fields of a record that is complete.
LEMMA RecFields ==
  ASSUME NEW op \in KnownOps \cup {"unsupported"}, NEW key \in Keys \cup Nat \cup {Null},
         NEW name \in Names \cup {Null}, NEW value \in Values \cup {Null}
  PROVE  LET rec == Rec(op, key, name, value)
         IN /\ rec \in Record
            /\ rec.op = op /\ rec.key = key /\ rec.name = name /\ rec.value = value /\ rec.ok
BY DEF Rec, Record

\* What a schedd may write next may follow what there is.
LEMMA WritableIsLegal ==
  ASSUME NEW s, WellFormed(s), NEW rec \in Writable(s)
  PROVE  Legal(rec, s) /\ rec.ok
<1>1. s \in Seq(Record)
  BY DEF WellFormed
<1>2. \A k \in Keys : Replay(s)[k] # Null => Alive(k, s) /\ Replay(s)[k] \in Attrs
  BY <1>1, ReplayType
<1>3. \A j \in Jobs : j \in Keys /\ (Alive(j, s) => Replay(s)[j] # Null)
  BY <1>1, ReplayType DEF Keys
<1>4. /\ AdOps \subseteq KnownOps /\ {"BeginTransaction", "EndTransaction"} \subseteq KnownOps
      /\ "NewClassAd" \in AdOps /\ "DestroyClassAd" \in AdOps
      /\ "SetAttribute" \in AdOps /\ "DeleteAttribute" \in AdOps
  BY DEF AdOps, KnownOps
<1>5. ASSUME NEW k \in Keys, ~Created(k, s), k \in Jobs => ~Destroyed(ClusterOf[k], s),
             rec = Rec("NewClassAd", k, Null, Null)
      PROVE  Legal(rec, s) /\ rec.ok
  <2>1. rec \in Record /\ rec.op = "NewClassAd" /\ rec.key = k /\ rec.value = Null /\ rec.ok
    BY <1>4, <1>5, RecFields
  <2> QED
    BY <1>5, <2>1 DEF Legal
<1>6. ASSUME NEW k \in Keys, Alive(k, s), \A j \in Jobs : Alive(j, s) => ClusterOf[j] # k,
             rec = Rec("DestroyClassAd", k, Null, Null)
      PROVE  Legal(rec, s) /\ rec.ok
  <2>1. rec \in Record /\ rec.op = "DestroyClassAd" /\ rec.key = k /\ rec.ok
    BY <1>4, <1>6, RecFields
  <2> QED
    BY <1>6, <2>1 DEF Legal
<1>7. ASSUME NEW k \in Keys, Alive(k, s), NEW n \in Names, NEW v \in Values,
             rec = Rec("SetAttribute", k, n, v)
      PROVE  Legal(rec, s) /\ rec.ok
  <2>1. rec \in Record /\ rec.op = "SetAttribute" /\ rec.key = k /\ rec.name = n /\ rec.value = v /\ rec.ok
    BY <1>4, <1>7, RecFields
  <2> QED
    BY <1>7, <2>1 DEF Legal
<1>8. ASSUME NEW k \in Keys, Alive(k, s), NEW n \in Names,
             rec = Rec("DeleteAttribute", k, n, Null)
      PROVE  Legal(rec, s) /\ rec.ok
  <2>1. rec \in Record /\ rec.op = "DeleteAttribute" /\ rec.key = k /\ rec.name = n
        /\ rec.value = Null /\ rec.ok
    BY <1>4, <1>8, RecFields
  <2> QED
    BY <1>8, <2>1 DEF Legal
<1>9. ASSUME NEW op \in {"BeginTransaction", "EndTransaction", "unsupported"},
             rec = Rec(op, Null, Null, Null)
      PROVE  Legal(rec, s) /\ rec.ok
  <2>1. rec \in Record /\ rec.op = op /\ rec.ok
    BY <1>4, <1>9, RecFields
  <2> QED
    BY <2>1 DEF Legal
<1>10. CASE rec \in NewRecords(s)
  BY <1>5, <1>10 DEF NewRecords
<1>11. CASE rec \in ChangeRecords(s)
  <2> DEFINE alive == {k \in Keys : Replay(s)[k] # Null}
  <2>1. \/ \E k \in {l \in alive : \A j \in alive \cap Jobs : ClusterOf[j] # l} :
             rec = Rec("DestroyClassAd", k, Null, Null)
        \/ \E k \in alive, n \in Names, v \in Values : rec = Rec("SetAttribute", k, n, v)
        \/ \E k \in alive, n \in Names : rec = Rec("DeleteAttribute", k, n, Null)
    BY <1>11 DEF ChangeRecords
  <2>2. \A k \in alive : k \in Keys /\ Alive(k, s)
    BY <1>2
  <2>3. \A j \in Jobs : Alive(j, s) => j \in alive \cap Jobs
    BY <1>3
  <2> HIDE DEF alive
  <2> QED
    BY <1>6, <1>7, <1>8, <2>1, <2>2, <2>3
<1>12. CASE rec \in MarkRecords(s) \/ rec = Rec("unsupported", Null, Null, Null)
  BY <1>9, <1>12 DEF MarkRecords
<1> QED
  BY <1>10, <1>11, <1>12 DEF Writable

\* Nothing comes before the first record.
LEMMA NothingBefore ==
  ASSUME NEW s \in Seq(Record)
  PROVE  Before(s, 1) = <<>>
<1>1. 1 - 1 = 0 /\ 0 \in 0..Len(s)
  BY LenProperties
<1> QED
  BY <1>1, Prefix, EmptySeq DEF Before

\* The first record of a file.
LEMMA SeqNumIsLegal ==
  ASSUME NEW g \in Nat
  PROVE  /\ SeqNumRecord(g) \in Record
         /\ SeqNumRecord(g).op = "LogHistoricalSequenceNumber"
         /\ SeqNumRecord(g).key = g /\ SeqNumRecord(g).ok
         /\ WellFormed(<<SeqNumRecord(g)>>)
<1> DEFINE r == SeqNumRecord(g)
<1>1. r \in Record /\ r.op = "LogHistoricalSequenceNumber" /\ r.key = g /\ r.ok
  BY RecFields DEF SeqNumRecord, KnownOps
<1>2. Legal(r, <<>>)
  BY <1>1 DEF Legal
<1> HIDE DEF r
<1>3. PICK u : u = <<r>>
  OBVIOUS
<1>4. u \in Seq(Record) /\ Len(u) = 1 /\ u[1] = r
  BY <1>1, <1>3
<1>5. Legal(u[1], Before(u, 1))
  BY <1>2, <1>4, NothingBefore
<1>6. \A i \in 1..Len(u) : i = 1
  BY <1>4
<1>7. WellFormed(u)
  BY <1>4, <1>5, <1>6 DEF WellFormed
<1> QED
  BY <1>1, <1>3, <1>7 DEF r

\* The records of the ads that are left.
LEMMA AdRecordsResult ==
  ASSUME NEW ads, \A k \in Keys : ads[k] # Null => ads[k] \in Attrs,
         NEW rec \in AdRecords(ads)
  PROVE  /\ rec \in Record /\ rec.ok
         /\ rec.key \in Keys /\ ads[rec.key] # Null
         /\ \/ rec.op = "NewClassAd" /\ rec.value = Null
            \/ rec.op = "SetAttribute" /\ rec.name \in Names /\ rec.value \in Values
<1>1. "NewClassAd" \in KnownOps /\ "SetAttribute" \in KnownOps
  BY DEF KnownOps, AdOps
<1>2. CASE \E k \in {l \in Keys : ads[l] # Null} : rec = Rec("NewClassAd", k, Null, Null)
  BY <1>1, <1>2, RecFields
<1>3. ASSUME NEW k \in Keys, ads[k] # Null, NEW n \in Names, NEW v \in Values,
             rec = Rec("SetAttribute", k, n, v)
      PROVE  /\ rec \in Record /\ rec.ok /\ rec.key = k
             /\ rec.op = "SetAttribute" /\ rec.name \in Names /\ rec.value \in Values
  BY <1>1, <1>3, RecFields
<1>4. CASE \E k \in {l \in Keys : ads[l] # Null} : \E n \in {m \in Names : ads[k][m] # Null} :
             rec = Rec("SetAttribute", k, n, ads[k][n])
  <2>1. PICK k \in Keys : ads[k] # Null /\ \E n \in {m \in Names : ads[k][m] # Null} :
             rec = Rec("SetAttribute", k, n, ads[k][n])
    BY <1>4
  <2>2. PICK n \in Names : ads[k][n] \in Values /\ rec = Rec("SetAttribute", k, n, ads[k][n])
    BY <2>1 DEF Attrs
  <2> QED
    BY <1>3, <2>1, <2>2
<1> QED
  BY <1>2, <1>4 DEF AdRecords

\* A compressed log is a log.
LEMMA SnapshotsAreWellFormed ==
  ASSUME NEW s \in Seq(Record), NEW g \in Nat, NEW file \in Snapshots(g, Replay(s))
  PROVE  /\ WellFormed(file) /\ file # <<>> /\ file[1] = SeqNumRecord(g) /\ Len(file) <= MaxLen
         /\ \A i \in 1..Len(file) : file[i].ok
<1> DEFINE ads == Replay(s)
           first == SeqNumRecord(g)
<1>0. PICK n \in 0 .. MaxLen - 1 : \E order \in Bijection(1..n, AdRecords(ads)) :
        ByAd(order) /\ file = <<first>> \o order
  BY DEF Snapshots
<1>1. PICK order \in Bijection(1..n, AdRecords(ads)) : ByAd(order) /\ file = <<first>> \o order
  BY <1>0
<1>2. /\ \A k \in Keys : ads[k] # Null => ads[k] \in Attrs
      /\ MaxLen \in Nat
  BY ReplayType, WriterAssumption
<1> HIDE DEF ads
<1>3. ASSUME NEW rec \in AdRecords(ads)
      PROVE  /\ rec \in Record /\ rec.ok
             /\ rec.key \in Keys /\ ads[rec.key] # Null
             /\ \/ rec.op = "NewClassAd" /\ rec.value = Null
                \/ rec.op = "SetAttribute" /\ rec.name \in Names /\ rec.value \in Values
  BY <1>2, AdRecordsResult
<1>4. /\ order \in Seq(Record) /\ Len(order) = n
      /\ \A i \in 1..n : order[i] \in AdRecords(ads)
      /\ \A i, j \in 1..n : order[i] = order[j] => i = j
      /\ \A rec \in AdRecords(ads) : \E i \in 1..n : order[i] = rec
  <2>1. /\ order \in [1..n -> AdRecords(ads)]
        /\ \A i, j \in 1..n : order[i] = order[j] => i = j
        /\ \A rec \in AdRecords(ads) : \E i \in 1..n : order[i] = rec
    BY <1>1 DEF Bijection, Injection, Surjection, IsInjective
  <2>2. order \in [1..n -> Record] /\ n \in Nat
    BY <1>2, <1>3, <2>1
  <2> QED
    BY <2>1, <2>2
<1>5. first \in Record /\ first.op = "LogHistoricalSequenceNumber" /\ <<first>> \in Seq(Record)
  BY SeqNumIsLegal DEF WellFormed
<1> HIDE DEF first
<1>6. /\ file \in Seq(Record) /\ Len(file) = n + 1 /\ file[1] = first
      /\ \A i \in 2..n + 1 : file[i] = order[i - 1]
  <2>1. Len(<<first>>) = 1 /\ <<first>>[1] = first /\ n \in Nat
    BY <1>2
  <2>2. file \in Seq(Record) /\ Len(file) = 1 + n
        /\ \A i \in 1..1 + n : file[i] = IF i <= 1 THEN <<first>>[i] ELSE order[i - 1]
    BY <1>1, <1>4, <1>5, <2>1, ConcatProperties
  <2> QED
    BY <2>1, <2>2
<1>7. ASSUME NEW i \in 2..n + 1
      PROVE  Legal(file[i], Before(file, i))
  <2> DEFINE rec == order[i - 1]
             u == Before(file, i)
  <2>1. rec \in AdRecords(ads) /\ file[i] = rec /\ i - 1 \in 1..n /\ n \in Nat
    BY <1>4, <1>6
  <2>2. Len(u) = i - 1 /\ u \in Seq(Record) /\ \A m \in 1..i - 1 : u[m] = file[m]
    <3>1. i - 1 \in 0..Len(file)
      BY <1>6, <2>1
    <3> QED
      BY <1>6, <3>1, Prefix DEF Before
  <2>3. u[1] = first /\ \A m \in 2..i - 1 : u[m] = order[m - 1] /\ m - 1 \in 1..n
    BY SMTT(30), <1>6, <2>1, <2>2
  <2> HIDE DEF rec, u
  <2>4. \A m \in 1..Len(u) : u[m].op # "DestroyClassAd" /\ (m # 1 => u[m] = order[m - 1])
    <3>1. ASSUME NEW m \in 1..Len(u), m # 1 PROVE m \in 2..i - 1 /\ u[m].op # "DestroyClassAd"
      <4>1. m \in 2..i - 1
        BY <2>2, <3>1
      <4>2. order[m - 1] \in AdRecords(ads)
        BY <1>4, <2>3, <4>1
      <4> QED
        BY <1>3, <2>3, <4>1, <4>2
    <3> QED
      BY <1>5, <2>3, <3>1
  <2>5. \A l : ~Destroyed(l, u)
    BY <2>4 DEF Destroyed
  <2>6. CASE rec.op = "NewClassAd"
    <3>1. ASSUME Created(rec.key, u) PROVE FALSE
      <4>1. PICK m \in 1..Len(u) : u[m].op = "NewClassAd" /\ u[m].key = rec.key
        BY <3>1 DEF Created
      <4>2. m \in 2..i - 1 /\ m - 1 \in 1..n /\ m - 1 < i - 1
        BY <1>5, <2>1, <2>2, <2>3, <4>1
      <4>3. order[m - 1].key = order[i - 1].key /\ order[i - 1].op = "NewClassAd"
        BY <2>3, <2>6, <4>1, <4>2 DEF rec
      <4> QED
        BY SMTT(30), <1>1, <1>4, <2>1, <4>2, <4>3 DEF ByAd
    <3>2. rec \in Record /\ rec.key \in Keys /\ rec.value = Null
      BY <1>3, <2>1, <2>6
    <3> QED
      BY <2>1, <2>5, <2>6, <3>1, <3>2 DEF Legal, u
  <2>7. CASE rec.op = "SetAttribute"
    <3> DEFINE new == Rec("NewClassAd", rec.key, Null, Null)
    <3>1. new \in AdRecords(ads) /\ Tells(new, "NewClassAd", rec.key)
      BY <1>3, <2>1 DEF AdRecords, Rec, Tells
    <3>2. PICK p \in 1..n : order[p] = new
      BY <1>4, <3>1
    <3>3. p < i - 1
      <4>1. p # i - 1
        BY <2>7, <3>2 DEF rec, Rec
      <4>2. ~ (i - 1 < p)
        BY <1>1, <1>4, <2>1, <3>2 DEF ByAd, rec, Rec
      <4> QED
        BY <2>1, <4>1, <4>2
    <3>4. p + 1 \in 2..i - 1 /\ p + 1 \in 1..Len(u) /\ p + 1 - 1 = p
      BY <2>1, <2>2, <3>3
    <3>5. Tells(u[p + 1], "NewClassAd", rec.key)
      BY <2>3, <3>1, <3>2, <3>4
    <3>6. Alive(rec.key, u)
      <4>1. \A m \in p + 1 + 1 .. Len(u) : m \in 1..Len(u)
        BY <2>1, <2>2
      <4> QED
        BY <2>4, <3>4, <3>5, <4>1 DEF Alive, Tells
    <3> QED
      BY <1>3, <2>1, <2>7, <3>6 DEF Legal, u
  <2> QED
    BY <1>3, <2>1, <2>6, <2>7
<1>8. Legal(file[1], Before(file, 1))
  BY <1>5, <1>6, NothingBefore DEF Legal
<1>9. WellFormed(file)
  <2>1. \A i \in 1..Len(file) : i = 1 \/ i \in 2..n + 1
    BY <1>2, <1>6
  <2> QED
    BY <1>6, <1>7, <1>8, <2>1 DEF WellFormed
<1>10. \A i \in 1..Len(file) : file[i].ok
  <2>1. first.ok
    BY SeqNumIsLegal DEF first
  <2>2. n \in Nat /\ Len(file) = n + 1
    BY <1>2, <1>6
  <2>3. \A i \in 1..Len(file) : i = 1 \/ (i \in 2..n + 1 /\ i - 1 \in 1..n)
    BY <2>2
  <2>4. \A i \in 1..n : order[i].ok
    BY <1>3, <1>4
  <2> QED
    BY <1>6, <2>1, <2>3, <2>4
<1> QED
  BY <1>2, <1>6, <1>9, <1>10, EmptySeq DEF first

-----------------------------------------------------------------------------
(***************************************************************************)
(* The steps of the schedd.                                                *)
(***************************************************************************)

\* What can become of a file that nothing is wiped out of.
Grows(old, new) ==
  \/ new = old
  \/ Len(old) < Len(new) /\ \A i \in 1..Len(old) : new[i] = old[i]
  \/ old # <<>> /\ ~old[Len(old)].ok /\ new = [old EXCEPT ![Len(old)].ok = TRUE]

\* A step that writes the log.
LEMMA WriteKeepsInv ==
  ASSUME WriterInv, gen # 0, UNCHANGED fp,
         NEW file, Write(file), WellFormed(file), Numbered(file, gen), Len(file) <= MaxLen
  PROVE  WriterInv'
<1>1. gen \in 1..MaxGen /\ MaxGen \in Nat /\ gen' = gen /\ fp' = fp
  BY WriterAssumption DEF WriterInv, Write
<1>2. DOMAIN files' = 1..MaxGen /\ files'[gen] = file /\ \A g \in 1..MaxGen : g # gen => files'[g] = files[g]
  BY <1>1 DEF WriterInv, Write
<1>3. ASSUME NEW g \in 1..MaxGen
      PROVE  WellFormed(files'[g]) /\ Numbered(files'[g], g) /\ Len(files'[g]) <= MaxLen
             /\ (g > gen' => files'[g] = <<>>)
  <2>1. CASE g = gen
    BY <1>1, <1>2, <2>1
  <2>2. CASE g # gen
    BY <1>1, <1>2, <2>2 DEF WriterInv
  <2> QED
    BY <2>1, <2>2
<1> QED
  BY <1>1, <1>2, <1>3 DEF WriterInv

\* A record that a schedd appends to the log, complete or not.
LEMMA AppendKeepsInv ==
  ASSUME WriterInv, gen # 0, UNCHANGED fp, Len(log) \in 1 .. MaxLen - 1,
         NEW rec, Legal(rec, log), Write(Append(log, rec))
  PROVE  WriterInv' /\ Grows(log, files'[gen])
<1> DEFINE t == Append(log, rec)
<1>1. gen \in 1..MaxGen /\ MaxGen \in Nat /\ MaxLen \in Nat /\ DOMAIN files = 1..MaxGen
  BY WriterAssumption DEF WriterInv
<1>2. WellFormed(log) /\ Numbered(log, gen) /\ log \in Seq(Record) /\ rec \in Record
  BY <1>1 DEF WriterInv, log, WellFormed, Legal
<1>3. WellFormed(t)
  BY <1>2, WellFormedAppend
<1>4. Len(t) = Len(log) + 1 /\ \A i \in 1..Len(log) : t[i] = log[i]
  BY <1>2, AppendProperties
<1>5. Len(log) \in Nat /\ log # <<>> /\ 1 \in 1..Len(log)
  BY <1>2, EmptySeq, LenProperties
<1>6. Numbered(t, gen) /\ Len(t) <= MaxLen
  BY <1>1, <1>2, <1>4, <1>5 DEF Numbered
<1>7. files'[gen] = t
  BY <1>1 DEF Write
<1> HIDE DEF t
<1>8. Write(t)
  BY DEF t
<1> QED
  BY <1>3, <1>4, <1>5, <1>6, <1>7, <1>8, WriteKeepsInv DEF Grows

\* The rest of a record.
LEMMA CompleteKeepsInv ==
  ASSUME WriterInv, UNCHANGED fp, Complete
  PROVE  WriterInv' /\ Grows(log, files'[gen])
<1> DEFINE t == [log EXCEPT ![Len(log)].ok = TRUE]
<1>1. gen \in 1..MaxGen /\ MaxGen \in Nat /\ DOMAIN files = 1..MaxGen /\ gen # 0
  BY WriterAssumption DEF WriterInv, Complete, Pending
<1>2. WellFormed(log) /\ Numbered(log, gen) /\ log \in Seq(Record) /\ Len(log) <= MaxLen
      /\ log # <<>> /\ ~log[Len(log)].ok
  BY <1>1 DEF WriterInv, log, WellFormed, Complete, Pending
<1>3. Len(log) \in Nat /\ 1 \in 1..Len(log) /\ Len(log) # 1
  <2>1. log[1] = SeqNumRecord(gen) /\ gen \in Nat
    BY <1>1, <1>2 DEF Numbered
  <2>2. log[1].ok
    BY <2>1, SeqNumIsLegal
  <2> QED
    BY <1>2, <2>2, EmptySeq, LenProperties
<1>4. WellFormed(t)
  BY <1>2, WellFormedComplete
<1>5. Len(t) = Len(log) /\ t[1] = log[1]
  BY <1>2, <1>3, CompleteResult
<1>6. Write(t) /\ files'[gen] = t
  BY <1>1 DEF Complete, Write
<1>7. Numbered(t, gen) /\ Len(t) <= MaxLen
  BY <1>2, <1>3, <1>5 DEF Numbered
<1>8. Grows(log, t)
  BY <1>2 DEF Grows
<1> HIDE DEF t
<1> QED
  BY <1>1, <1>4, <1>6, <1>7, <1>8, WriteKeepsInv

\* The log is cut back to where the open transaction began.
LEMMA BacktrackKeepsInv ==
  ASSUME WriterInv, UNCHANGED fp, Backtrack
  PROVE  WriterInv'
<1> DEFINE n == CommittedLen(log)
           t == SubSeq(log, 1, n)
<1>1. gen \in 1..MaxGen /\ MaxGen \in Nat /\ DOMAIN files = 1..MaxGen /\ gen # 0
  BY WriterAssumption DEF WriterInv, Backtrack
<1>2. WellFormed(log) /\ Numbered(log, gen) /\ log \in Seq(Record) /\ Len(log) <= MaxLen
  BY <1>1 DEF WriterInv, log, WellFormed
<1>3. n \in 0..Len(log) /\ Len(log) \in Nat /\ (log # <<>> => n >= 1)
  BY <1>2, CommittedLenResult, LenProperties
<1>4. WellFormed(t) /\ t \in Seq(Record) /\ Len(t) = n /\ \A i \in 1..n : t[i] = log[i]
  BY <1>2, <1>3, WellFormedPrefix, Prefix
<1>5. MaxLen \in Nat /\ files' = [files EXCEPT ![gen] = t] /\ gen' = gen /\ fp' = fp
  BY WriterAssumption DEF Backtrack, Committed
<1> HIDE DEF n, t
<1>6. Len(t) <= MaxLen /\ Numbered(t, gen)
  <2>1. t # <<>> => log # <<>> /\ 1 \in 1..n
    BY <1>3, <1>4, EmptySeq
  <2> QED
    BY <1>2, <1>3, <1>4, <1>5, <2>1 DEF Numbered
<1>7. ASSUME NEW g \in 1..MaxGen
      PROVE  WellFormed(files'[g]) /\ Numbered(files'[g], g) /\ Len(files'[g]) <= MaxLen
             /\ (g > gen' => files'[g] = <<>>)
  <2>1. CASE g = gen
    BY <1>1, <1>4, <1>5, <1>6, <2>1
  <2>2. CASE g # gen
    BY <1>1, <1>5, <2>2 DEF WriterInv
  <2> QED
    BY <2>1, <2>2
<1> QED
  BY <1>1, <1>5, <1>7 DEF WriterInv

\* A log that is not there yet, or not any more, is no log to go wrong.
LEMMA EmptyFile == WellFormed(<<>>) /\ Len(<<>>) <= MaxLen /\ \A g : Numbered(<<>>, g)
BY EmptySeq, WriterAssumption DEF WellFormed, Numbered

\* A new log takes the place of the old one.
LEMMA CompressKeepsInv ==
  ASSUME WriterInv, UNCHANGED fp, Compress
  PROVE  WriterInv' /\ gen' = gen + 1 /\ (gen = fp => files'[gen] = files[gen])
<1>1. gen \in 1..MaxGen /\ MaxGen \in Nat /\ DOMAIN files = 1..MaxGen /\ gen + 1 \in 1..MaxGen
      /\ gen' = gen + 1 /\ fp' = fp /\ gen \in Nat
  BY WriterAssumption DEF WriterInv, Compress
<1>2. PICK file \in Snapshots(gen + 1, Replay(Committed(log))) :
        files' = [files EXCEPT ![gen] = IF fp = gen THEN @ ELSE <<>>, ![gen + 1] = file]
  BY DEF Compress
<1>3. WellFormed(log) /\ Numbered(log, gen) /\ log \in Seq(Record)
  BY <1>1 DEF WriterInv, log, WellFormed
<1>4. Committed(log) \in Seq(Record)
  BY <1>3, CommittedLenResult, Prefix DEF Committed
<1>5. WellFormed(file) /\ Numbered(file, gen + 1) /\ Len(file) <= MaxLen
  BY <1>1, <1>4, SnapshotsAreWellFormed DEF Numbered
<1>6. /\ DOMAIN files' = 1..MaxGen
      /\ files'[gen + 1] = file
      /\ files'[gen] = IF fp = gen THEN files[gen] ELSE <<>>
      /\ \A g \in 1..MaxGen \ {gen, gen + 1} : files'[g] = files[g]
  BY <1>1, <1>2
<1>7. ASSUME NEW g \in 1..MaxGen
      PROVE  WellFormed(files'[g]) /\ Numbered(files'[g], g) /\ Len(files'[g]) <= MaxLen
             /\ (g > gen' => files'[g] = <<>>)
  <2>1. CASE g = gen + 1
    BY <1>1, <1>5, <1>6, <2>1
  <2>2. CASE g # gen + 1
    BY <1>1, <1>6, <2>2, EmptyFile DEF WriterInv
  <2> QED
    BY <2>1, <2>2
<1> QED
  BY <1>1, <1>6, <1>7 DEF WriterInv

\* The first log.
LEMMA CreateLogKeepsInv ==
  ASSUME WriterInv, UNCHANGED fp, CreateLog
  PROVE  WriterInv' /\ gen' = 1
<1>1. 1 \in 1..MaxGen /\ MaxGen \in Nat /\ DOMAIN files = 1..MaxGen /\ gen' = 1 /\ gen = 0
      /\ fp' = 0 /\ MaxLen \in Nat \ {0}
  BY WriterAssumption DEF WriterInv, CreateLog
<1> DEFINE t == <<SeqNumRecord(1)>>
<1>2. WellFormed(t) /\ Numbered(t, 1) /\ Len(t) <= MaxLen
  BY <1>1, SeqNumIsLegal DEF Numbered
<1>3. files' = [files EXCEPT ![1] = t] \/ files' = files
  BY DEF CreateLog
<1> HIDE DEF t
<1>4. ASSUME NEW g \in 1..MaxGen
      PROVE  WellFormed(files'[g]) /\ Numbered(files'[g], g) /\ Len(files'[g]) <= MaxLen
             /\ (g > gen' => files'[g] = <<>>)
  BY <1>1, <1>2, <1>3 DEF WriterInv
<1> QED
  BY <1>1, <1>3, <1>4 DEF WriterInv

\* The first record of a log that was created empty.
LEMMA FirstRecordKeepsInv ==
  ASSUME WriterInv, UNCHANGED fp, FirstRecord
  PROVE  WriterInv' /\ Grows(log, files'[gen])
<1> DEFINE t == <<SeqNumRecord(gen)>>
<1>1. gen \in 1..MaxGen /\ gen \in Nat /\ MaxGen \in Nat /\ DOMAIN files = 1..MaxGen /\ gen # 0
      /\ MaxLen \in Nat \ {0}
  BY WriterAssumption DEF WriterInv, FirstRecord
<1>2. WellFormed(t) /\ Numbered(t, gen) /\ Len(t) <= MaxLen /\ Len(t) = 1
  BY <1>1, SeqNumIsLegal DEF Numbered
<1>3. Write(t) /\ files'[gen] = t /\ log = <<>>
  BY <1>1 DEF FirstRecord, Write
<1> HIDE DEF t
<1>4. Grows(log, t)
  BY <1>2, <1>3, EmptySeq DEF Grows
<1> QED
  BY <1>1, <1>2, <1>3, <1>4, WriteKeepsInv

\* A file that the reader or the schedd has, and will have, only grows, unless records
\* are wiped out.
WriterGrows ==
  /\ gen' \in {gen, gen + 1}
  /\ "backtrack" \notin Faults =>
       \A g \in 1..gen : g \in {gen', fp} => Grows(files[g], files'[g])

\* Every step of the schedd keeps all that is known of its files.
LEMMA WriterStepKeepsInv ==
  ASSUME WriterInv, WriterStep, UNCHANGED fp
  PROVE  WriterInv' /\ WriterGrows
<1>1. gen \in 0..MaxGen /\ MaxGen \in Nat /\ DOMAIN files = 1..MaxGen /\ fp \in 0..gen
  BY WriterAssumption DEF WriterInv
<1>2. ASSUME gen # 0, gen' = gen, Grows(log, files'[gen]),
             \A g \in 1..MaxGen : g # gen => files'[g] = files[g]
      PROVE  WriterGrows
  <2>1. \A f : Grows(f, f)
    BY DEF Grows
  <2>2. \A g \in 1..gen : Grows(files[g], files'[g])
    BY <1>1, <1>2, <2>1 DEF log
  <2> QED
    BY <1>2, <2>2 DEF WriterGrows
<1>3. ASSUME NEW file, Write(file) PROVE gen' = gen /\ \A g \in 1..MaxGen : g # gen => files'[g] = files[g]
  BY <1>1, <1>3 DEF Write
<1>4. CASE CreateLog
  BY <1>1, <1>4, CreateLogKeepsInv DEF WriterGrows, CreateLog
<1>5. CASE FirstRecord
  <2>1. gen # 0 /\ \E file : Write(file)
    BY <1>1, <1>5 DEF FirstRecord
  <2> QED
    BY <1>2, <1>3, <1>5, <2>1, FirstRecordKeepsInv
<1>6. CASE Complete
  <2>1. gen # 0 /\ \E file : Write(file)
    BY <1>1, <1>6 DEF Complete, Pending
  <2> QED
    BY <1>2, <1>3, <1>6, <2>1, CompleteKeepsInv
<1>7. CASE Backtrack
  BY <1>7, BacktrackKeepsInv DEF WriterGrows, Backtrack
<1>8. CASE Compress
  <2>1. WriterInv' /\ gen' = gen + 1 /\ (gen = fp => files'[gen] = files[gen])
    BY <1>8, CompressKeepsInv
  <2>2. \A g \in 1..MaxGen \ {gen, gen + 1} : files'[g] = files[g]
    BY <1>1, <1>8 DEF Compress
  <2>3. ASSUME NEW g \in 1..gen, g \in {gen', fp} PROVE files'[g] = files[g]
    BY <1>1, <2>1, <2>2, <2>3
  <2> QED
    BY <2>1, <2>3 DEF WriterGrows, Grows
<1>9. ASSUME gen > 0, Len(log) \in 1 .. MaxLen - 1, NEW rec \in Writable(log),
             Append1(rec) \/ CrashAndGoOn(rec)
      PROVE  WriterInv' /\ WriterGrows
  <2>1. gen # 0 /\ WellFormed(log)
    BY <1>1, <1>9 DEF WriterInv, log
  <2>2. Legal(rec, log) /\ Legal([rec EXCEPT !.ok = FALSE], log)
    BY <2>1, WritableIsLegal, LegalTornOrNot
  <2>3. PICK r : Legal(r, log) /\ Write(Append(log, r))
    BY <1>9, <2>2 DEF Append1, CrashAndGoOn
  <2>4. WriterInv' /\ Grows(log, files'[gen])
    BY <1>9, <2>1, <2>3, AppendKeepsInv
  <2> QED
    BY <1>2, <1>3, <2>1, <2>3, <2>4
<1> QED
  BY <1>4, <1>5, <1>6, <1>7, <1>8, <1>9 DEF WriterStep

\* What a file that has grown shares with what it was.
LEMMA GrowsResult ==
  ASSUME NEW old \in Seq(Record), NEW new \in Seq(Record), Grows(old, new)
  PROVE  /\ Len(old) <= Len(new)
         /\ \A i \in 1..Len(old) : ~Unreadable(old[i]) => new[i] = old[i]
         /\ \A n \in 0..Len(old) :
              (\A i \in 1..n : ~Unreadable(old[i])) => SubSeq(new, 1, n) = SubSeq(old, 1, n)
         /\ ReadableLen(old) <= ReadableLen(new)
<1>1. Len(old) \in Nat /\ Len(new) \in Nat
  BY LenProperties
<1>2. Len(old) <= Len(new) /\ \A i \in 1..Len(old) : ~Unreadable(old[i]) => new[i] = old[i]
  <2>1. CASE new = old
    BY <1>1, <2>1
  <2>2. CASE Len(old) < Len(new) /\ \A i \in 1..Len(old) : new[i] = old[i]
    BY <1>1, <2>2
  <2>3. CASE old # <<>> /\ ~old[Len(old)].ok /\ new = [old EXCEPT ![Len(old)].ok = TRUE]
    <3>1. Len(new) = Len(old) /\ \A i \in 1..Len(old) : i # Len(old) => new[i] = old[i]
      BY <2>3, CompleteResult
    <3> QED
      BY <1>1, <2>3, <3>1 DEF Unreadable
  <2> QED
    BY <2>1, <2>2, <2>3 DEF Grows
<1>3. ASSUME NEW n \in 0..Len(old), \A i \in 1..n : ~Unreadable(old[i])
      PROVE  SubSeq(new, 1, n) = SubSeq(old, 1, n)
  <2>1. n <= Len(new) /\ \A i \in 1..n : i \in 1..Len(old) /\ old[i] = new[i]
    BY <1>1, <1>2, <1>3
  <2> QED
    BY <2>1, SamePrefix
<1>4. ReadableLen(old) <= ReadableLen(new)
  <2> DEFINE m == ReadableLen(old)
             n == ReadableLen(new)
  <2>1. m \in 0..Len(old) /\ n \in 0..Len(new) /\ (\A i \in 1..m : ~Unreadable(old[i]))
        /\ (n < Len(new) => Unreadable(new[n + 1]))
    BY ReadableLenResult
  <2> HIDE DEF m, n
  <2>2. SUFFICES ASSUME n < m PROVE FALSE
    BY <1>1, <2>1 DEF m, n
  <2>3. n + 1 \in 1..m /\ n + 1 \in 1..Len(old) /\ n < Len(new)
    BY <1>1, <1>2, <2>1, <2>2
  <2> QED
    BY <1>2, <2>1, <2>3
<1> QED
  BY <1>2, <1>3, <1>4

\* Where no record is written in two parts, every record is complete, in a new log too.
LEMMA UntornStep ==
  ASSUME WriterInv, Untorn, WriterStep, UNCHANGED fp, "tear" \notin Faults
  PROVE  Untorn'
<1>1. gen \in 0..MaxGen /\ MaxGen \in Nat /\ DOMAIN files = 1..MaxGen /\ MaxGen # 0
  BY WriterAssumption DEF WriterInv
<1>2. gen # 0 => WellFormed(log) /\ Numbered(log, gen) /\ log \in Seq(Record)
                 /\ \A i \in 1..Len(log) : log[i].ok
  BY <1>1 DEF WriterInv, WellFormed, Untorn, log
<1>3. ASSUME gen # 0, NEW file, Write(file), \A i \in 1..Len(file) : file[i].ok
      PROVE  Untorn'
  BY <1>1, <1>3 DEF Untorn, Write
<1>4. ~Pending
  <2>1. gen # 0 /\ log # <<>> => Len(log) \in 1..Len(log)
    BY <1>2, LenProperties, EmptySeq
  <2> QED
    BY <1>1, <1>2, <2>1 DEF Pending
<1>5. ASSUME NEW n \in Nat PROVE \A i \in 1..Len(<<SeqNumRecord(n)>>) : <<SeqNumRecord(n)>>[i].ok
  BY SeqNumIsLegal
<1>6. CASE CreateLog
  <2>1. files' = [files EXCEPT ![1] = <<SeqNumRecord(1)>>] \/ files' = files
    BY <1>6 DEF CreateLog
  <2> QED
    BY <1>1, <1>5, <2>1 DEF Untorn
<1>7. CASE FirstRecord
  <2>1. gen # 0 /\ gen \in Nat /\ Write(<<SeqNumRecord(gen)>>)
    BY <1>1, <1>7 DEF FirstRecord
  <2> QED
    BY <1>3, <1>5, <2>1
<1>8. CASE Complete
  BY <1>4, <1>8 DEF Complete
<1>9. CASE Backtrack
  <2>1. gen # 0 /\ CommittedLen(log) \in 0..Len(log) /\ files' = [files EXCEPT ![gen] = Committed(log)]
    BY <1>1, <1>2, <1>9, CommittedLenResult DEF Backtrack
  <2>2. Len(log) \in Nat /\ \A i \in 1..CommittedLen(log) : i \in 1..Len(log)
    BY <1>2, <2>1, LenProperties
  <2>3. \A i \in 1..Len(Committed(log)) : Committed(log)[i].ok
    BY <1>2, <2>1, <2>2, Prefix DEF Committed
  <2> QED
    BY <1>1, <2>1, <2>3 DEF Untorn
<1>10. CASE Compress
  <2>1. gen # 0 /\ gen + 1 \in 1..MaxGen /\ gen + 1 \in Nat
    BY <1>1, <1>10 DEF Compress
  <2>2. Committed(log) \in Seq(Record)
    BY <1>2, <2>1, CommittedLenResult, Prefix DEF Committed
  <2>3. PICK file \in Snapshots(gen + 1, Replay(Committed(log))) :
          files' = [files EXCEPT ![gen] = IF fp = gen THEN @ ELSE <<>>, ![gen + 1] = file]
    BY <1>10 DEF Compress
  <2>4. \A i \in 1..Len(file) : file[i].ok
    BY <2>1, <2>2, SnapshotsAreWellFormed
  <2>5. /\ files'[gen + 1] = file /\ (files'[gen] = files[gen] \/ files'[gen] = <<>>)
        /\ \A g \in 1..MaxGen \ {gen, gen + 1} : files'[g] = files[g]
    BY <1>1, <2>1, <2>3
  <2>6. \A g \in 1..MaxGen : files'[g] = file \/ files'[g] = files[g] \/ files'[g] = <<>>
    BY <2>5
  <2> QED
    BY <2>4, <2>6, EmptySeq DEF Untorn
<1>11. ASSUME gen > 0, Len(log) \in 1 .. MaxLen - 1, NEW rec \in Writable(log),
              Append1(rec) \/ CrashAndGoOn(rec)
       PROVE  Untorn'
  <2>1. gen # 0 /\ rec.ok /\ rec \in Record
    BY <1>1, <1>2, <1>11, WritableIsLegal DEF Legal
  <2>2. Write(Append(log, rec))
    BY <1>4, <1>11 DEF Append1, CrashAndGoOn
  <2>3. \A i \in 1..Len(Append(log, rec)) : Append(log, rec)[i].ok
    <3>1. Len(Append(log, rec)) = Len(log) + 1 /\ Append(log, rec)[Len(log) + 1] = rec
          /\ Len(log) \in Nat /\ \A i \in 1..Len(log) : Append(log, rec)[i] = log[i]
      BY <1>2, <2>1, AppendProperties, LenProperties
    <3> QED
      BY <1>2, <2>1, <3>1
  <2> QED
    BY <1>3, <2>1, <2>2, <2>3
<1> QED
  BY <1>6, <1>7, <1>8, <1>9, <1>10, <1>11 DEF WriterStep
=============================================================================
