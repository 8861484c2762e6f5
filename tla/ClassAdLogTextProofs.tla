------------------------ MODULE ClassAdLogTextProofs ------------------------
(***************************************************************************)
(* Proofs about the characters of a log, for any records that meet the     *)
(* assumptions of ClassAdLogText and wherever the file is cut off.         *)
(***************************************************************************)
EXTENDS ClassAdLogText, WellFoundedInduction, SequenceTheorems, TLAPS

-----------------------------------------------------------------------------
(***************************************************************************)
(* The first character of some kind.                                       *)
(***************************************************************************)

\* A set of numbers has a least element: what stands for induction here.
LEMMA LeastNumber ==
  ASSUME NEW T, T \subseteq Nat, T # {}
  PROVE  \E x \in T : \A y \in T : x <= y
<1> DEFINE R == {ss \in Nat \X Nat : ss[1] < ss[2]}
<1>1. IsWellFoundedOn(R, Nat)
  BY NatLessThanWellFounded, Zenon DEF OpToRel
<1>2. \A x, y \in Nat : ~ (<<y, x>> \in R) => x <= y
  OBVIOUS
<1> HIDE DEF R
<1>3. PICK x \in T : \A y \in T : ~ (<<y, x>> \in R)
  BY <1>1, WFMin
<1>4. \A y \in T : x <= y
  BY <1>2, <1>3
<1> QED
  BY <1>4

\* The least element is the one that Min chooses.
LEMMA MinIs ==
  ASSUME NEW S, S \subseteq Nat, NEW m \in S, \A y \in S : m <= y
  PROVE  Min(S) = m
<1>1. \A x \in S : (\A y \in S : x <= y) => x = m
  OBVIOUS
<1> QED
  BY <1>1 DEF Min

\* FirstIn is where the first such character is, or the end.
LEMMA FirstInIs ==
  ASSUME NEW T \in Seq(Chars), NEW i \in Nat, NEW chars, NEW e \in i..Len(T) + 1,
         \A j \in i..e - 1 : T[j] \notin chars, e <= Len(T) => T[e] \in chars
  PROVE  FirstIn(T, i, chars) = e
<1> DEFINE S == {j \in i .. Len(T) : T[j] \in chars} \cup {Len(T) + 1}
<1>1. Len(T) \in Nat
  BY LenProperties
<1>2. S \subseteq Nat /\ e \in S
  BY <1>1
<1>3. \A y \in S : e <= y
  BY <1>1
<1> HIDE DEF S
<1>4. Min(S) = e
  BY <1>2, <1>3, MinIs
<1> QED
  BY <1>4 DEF S, FirstIn

\* FirstNotIn is where the first other character is, or the end.
LEMMA FirstNotInIs ==
  ASSUME NEW C, NEW T \in Seq(C), NEW i \in Nat, NEW chars, NEW e \in i..Len(T) + 1,
         \A j \in i..e - 1 : T[j] \in chars, e <= Len(T) => T[e] \notin chars
  PROVE  FirstNotIn(T, i, chars) = e
<1> DEFINE S == {j \in i .. Len(T) : T[j] \notin chars} \cup {Len(T) + 1}
<1>1. Len(T) \in Nat
  BY LenProperties
<1>2. S \subseteq Nat /\ e \in S
  BY <1>1
<1>3. \A y \in S : e <= y
  BY <1>1
<1> HIDE DEF S
<1>4. Min(S) = e
  BY <1>2, <1>3, MinIs
<1> QED
  BY <1>4 DEF S, FirstNotIn

-----------------------------------------------------------------------------
(***************************************************************************)
(* Reading a word or a line that is in a text, as far as the text goes.    *)
(***************************************************************************)

\* A text holds two parts, one after the other, where it holds them put together.
LEMMA AtConcat ==
  ASSUME NEW S, NEW T \in Seq(S), NEW p \in Nat, NEW C, NEW s \in Seq(C), NEW t \in Seq(C),
         NEW st, st = s \o t, At(T, p, st), NEW q, q = p + Len(s)
  PROVE  At(T, p, s) /\ At(T, q, t)
<1>1. /\ Len(s) \in Nat /\ Len(t) \in Nat /\ Len(st) = Len(s) + Len(t)
      /\ \A i \in 1..Len(s) : st[i] = s[i]
      /\ \A i \in 1..Len(t) : st[Len(s) + i] = t[i]
  BY ConcatProperties, LenProperties
<1>2. At(T, p, s)
  BY <1>1 DEF At
<1>3. ASSUME NEW i \in 1..Len(t), q + i <= Len(T) PROVE T[q + i] = t[i]
  <2>1. PICK k : k = Len(s) + i
    OBVIOUS
  <2>2. k \in 1..Len(st) /\ p + k = q + i
    BY <1>1, <2>1
  <2>3. T[p + k] = st[k]
    BY <1>3, <2>2 DEF At
  <2> QED
    BY <1>1, <2>1, <2>2, <2>3
<1> QED
  BY <1>1, <1>2, <1>3 DEF At

\* The part of a text that is all there.
LEMMA SubSeqAt ==
  ASSUME NEW S, NEW T \in Seq(S), NEW p \in Nat, NEW C, NEW f \in Seq(C), At(T, p, f), p + Len(f) <= Len(T)
  PROVE  SubSeq(T, p + 1, p + Len(f)) = f
<1>1. Len(T) \in Nat /\ Len(f) \in Nat
  BY LenProperties
<1>2. /\ SubSeq(T, p + 1, p + Len(f)) \in Seq(S)
      /\ Len(SubSeq(T, p + 1, p + Len(f))) = Len(f)
      /\ \A i \in 1..Len(f) : SubSeq(T, p + 1, p + Len(f))[i] = T[p + i]
  <2>1. CASE Len(f) = 0
    BY <1>1, <2>1, SubSeqProperties
  <2>2. CASE Len(f) > 0
    BY <1>1, <2>2, SubSeqProperties
  <2> QED
    BY <1>1, <2>1, <2>2
<1>3. ASSUME NEW i \in 1..Len(f) PROVE T[p + i] = f[i]
  <2>1. p + i <= Len(T)
    BY <1>1
  <2> QED
    BY <2>1 DEF At
<1>4. SubSeq(T, p + 1, p + Len(f)) \in Seq(S \cup C) /\ f \in Seq(S \cup C)
  BY <1>2, SeqMonotonic
<1> QED
  BY <1>2, <1>3, <1>4, SeqEqual

\* The end of n characters, none of which ends it, as far as the text goes.
LEMMA TokenEnd ==
  ASSUME NEW T \in Seq(Chars), NEW p \in 0..Len(T), NEW n \in Nat, NEW chars,
         \A i \in 1..n : p + i <= Len(T) => T[p + i] \notin chars,
         p + n < Len(T) => T[p + n + 1] \in chars
  PROVE  FirstIn(T, p + 1, chars) = IF p + n < Len(T) THEN p + n + 1 ELSE Len(T) + 1
<1>1. Len(T) \in Nat
  BY LenProperties
<1>2. PICK b, e : b = p + 1 /\ e = IF p + n < Len(T) THEN p + n + 1 ELSE Len(T) + 1
  OBVIOUS
<1>3. b \in Nat /\ e \in b..Len(T) + 1 /\ (e <= Len(T) => T[e] \in chars)
  BY <1>1, <1>2
<1>4. ASSUME NEW j \in b..e - 1 PROVE T[j] \notin chars
  <2>1. PICK i : i = j - p
    OBVIOUS
  <2>2. i \in 1..n /\ p + i = j /\ p + i <= Len(T)
    BY <1>1, <1>2, <2>1
  <2> QED
    BY <2>2
<1>5. FirstIn(T, b, chars) = e
  BY <1>3, <1>4, FirstInIs
<1> QED
  BY <1>2, <1>5

\* A word that ends with a space or a newline: it is read once that is there, and not
\* before.
LEMMA WordRead ==
  ASSUME NEW T \in Seq(Chars), NEW p \in 0..Len(T), NEW f \in Words, NEW t \in Spaces,
         At(T, p, Append(f, t))
  PROVE  /\ Len(f) \in Nat
         /\ Len(T) > p + Len(f) =>
              /\ readword(T, p).ok /\ readword(T, p).string = f
              /\ readword(T, p).pos = p + Len(f) + 1
         /\ Len(T) <= p + Len(f) => ~readword(T, p).ok /\ readword(T, p).pos = Len(T)
<1>1. /\ f \in Seq(Chars) /\ Len(f) \in Nat \ {0} /\ Len(T) \in Nat
      /\ \A i \in 1..Len(f) : f[i] \in Chars \ Spaces
  BY LenProperties, ElementOfSeq, SeqMonotonic, EmptySeq DEF Words
<1>2. /\ t \in Chars /\ Len(Append(f, t)) = Len(f) + 1 /\ Append(f, t)[Len(f) + 1] = t
      /\ \A i \in 1..Len(f) : Append(f, t)[i] = f[i]
  BY <1>1, AppendProperties, CharsAssumption
<1>3. ASSUME NEW i \in 1..Len(f), p + i <= Len(T) PROVE T[p + i] = f[i] /\ T[p + i] \notin Spaces \cup {NUL}
  BY SMTT(30), <1>1, <1>2, <1>3, CharsAssumption DEF At, Bad
<1>4. p + Len(f) < Len(T) => T[p + Len(f) + 1] = t
  BY <1>1, <1>2 DEF At
<1>5. At(T, p, f)
  BY <1>3 DEF At
<1>6. PICK end : end = IF p + Len(f) < Len(T) THEN p + Len(f) + 1 ELSE Len(T) + 1
  OBVIOUS
<1>7. FirstIn(T, p + 1, Spaces \cup {NUL}) = end
  <2>1. PICK n, stops : n = Len(f) /\ stops = Spaces \cup {NUL}
    OBVIOUS
  <2>2. /\ n \in Nat
        /\ \A i \in 1..n : p + i <= Len(T) => T[p + i] \notin stops
        /\ p + n < Len(T) => T[p + n + 1] \in stops
    BY <1>1, <1>3, <1>4, <2>1
  <2>3. FirstIn(T, p + 1, stops) = IF p + n < Len(T) THEN p + n + 1 ELSE Len(T) + 1
    BY <2>2, TokenEnd
  <2> QED
    BY <1>6, <2>1, <2>3
<1>8. FirstNotIn(T, p + 1, {Space}) = p + 1
  <2>1. PICK b, e, space : b = p + 1 /\ e = p + 1 /\ space = {Space}
    OBVIOUS
  <2>2. b \in Nat /\ e \in b..Len(T) + 1
    BY <1>1, <2>1
  <2>3. e <= Len(T) => T[e] \notin space
    BY <1>1, <1>3, <2>1 DEF Spaces
  <2>4. \A j \in b..e - 1 : T[j] \in space
    BY <2>1, <2>2
  <2> QED
    BY <2>1, <2>2, <2>3, <2>4, FirstNotInIs
<1>9. /\ readword(T, p).ok <=> end > p + 1 /\ CharAt(T, end) \notin Bad
      /\ readword(T, p).string = SubSeq(T, p + 1, end - 1)
      /\ readword(T, p).eof <=> end > Len(T)
      /\ readword(T, p).pos = IF end > Len(T) THEN Len(T) ELSE end
  BY <1>7, <1>8 DEF readword, Read
<1>10. CASE p + Len(f) < Len(T)
  <2>1. /\ end = p + Len(f) + 1 /\ end - 1 = p + Len(f) /\ ~(end > Len(T))
        /\ end > p + 1
    BY <1>1, <1>6, <1>10
  <2>2. CharAt(T, end) = t /\ t \notin Bad
    BY <1>1, <1>2, <1>4, <1>10, <2>1, CharsAssumption DEF CharAt
  <2>3. SubSeq(T, p + 1, end - 1) = f
    <3>1. p + Len(f) <= Len(T) /\ p \in Nat
      BY <1>1, <1>10
    <3> QED
      BY <1>1, <1>5, <2>1, <3>1, SubSeqAt
  <2> QED
    BY <1>1, <1>9, <1>10, <2>1, <2>2, <2>3
<1>11. CASE ~(p + Len(f) < Len(T))
  <2>1. CharAt(T, end) \in Bad /\ end > Len(T)
    BY <1>1, <1>6, <1>11 DEF CharAt, Bad
  <2> QED
    BY <1>1, <1>9, <1>11, <2>1
<1> QED
  BY <1>1, <1>10, <1>11

\* A line: it is read once its newline is there, unless it is empty.
LEMMA LineRead ==
  ASSUME NEW T \in Seq(Chars), NEW p \in 0..Len(T), NEW f \in Seq(Chars \ {Newline}),
         At(T, p, Append(f, Newline))
  PROVE  /\ Len(f) \in Nat
         /\ Len(T) > p + Len(f) =>
              /\ readline(T, p).ok <=> f # <<>>
              /\ readline(T, p).string = f /\ ~readline(T, p).eof
              /\ readline(T, p).pos = p + Len(f) + 1
         /\ Len(T) <= p + Len(f) =>
              ~readline(T, p).ok /\ readline(T, p).eof /\ readline(T, p).pos = Len(T)
<1>1. /\ f \in Seq(Chars) /\ Len(f) \in Nat /\ Len(T) \in Nat /\ (Len(f) > 0 <=> f # <<>>)
      /\ \A i \in 1..Len(f) : f[i] \in Chars \ {Newline}
  BY LenProperties, ElementOfSeq, SeqMonotonic, EmptySeq
<1>2. /\ Newline \in Chars /\ Len(Append(f, Newline)) = Len(f) + 1 /\ Append(f, Newline)[Len(f) + 1] = Newline
      /\ \A i \in 1..Len(f) : Append(f, Newline)[i] = f[i]
  BY <1>1, AppendProperties, CharsAssumption DEF Spaces
<1>3. ASSUME NEW i \in 1..Len(f), p + i <= Len(T) PROVE T[p + i] = f[i] /\ T[p + i] \notin {Newline, NUL}
  BY SMTT(30), <1>1, <1>2, <1>3, CharsAssumption DEF At, Bad
<1>4. p + Len(f) < Len(T) => T[p + Len(f) + 1] = Newline
  <2>1. Len(f) + 1 \in 1..Len(Append(f, Newline)) /\ p + (Len(f) + 1) = p + Len(f) + 1
    BY <1>1, <1>2
  <2>2. p + Len(f) < Len(T) => p + (Len(f) + 1) <= Len(T)
    BY <1>1
  <2> QED
    BY <1>2, <2>1, <2>2 DEF At
<1>5. At(T, p, f)
  BY <1>3 DEF At
<1>6. PICK end : end = IF p + Len(f) < Len(T) THEN p + Len(f) + 1 ELSE Len(T) + 1
  OBVIOUS
<1>7. FirstIn(T, p + 1, {Newline, NUL}) = end
  <2>1. PICK n, stops : n = Len(f) /\ stops = {Newline, NUL}
    OBVIOUS
  <2>2. /\ n \in Nat
        /\ \A i \in 1..n : p + i <= Len(T) => T[p + i] \notin stops
        /\ p + n < Len(T) => T[p + n + 1] \in stops
    BY <1>1, <1>3, <1>4, <2>1
  <2>3. FirstIn(T, p + 1, stops) = IF p + n < Len(T) THEN p + n + 1 ELSE Len(T) + 1
    BY <2>2, TokenEnd
  <2> QED
    BY <1>6, <2>1, <2>3
<1>8. /\ readline(T, p).ok <=> end > p + 1 /\ CharAt(T, end) \notin Bad
      /\ readline(T, p).string = SubSeq(T, p + 1, end - 1)
      /\ readline(T, p).eof <=> end > Len(T)
      /\ readline(T, p).pos = IF end > Len(T) THEN Len(T) ELSE end
  BY <1>7 DEF readline, Read
<1>9. CASE p + Len(f) < Len(T)
  <2>1. /\ end = p + Len(f) + 1 /\ end - 1 = p + Len(f) /\ ~(end > Len(T))
        /\ (end > p + 1 <=> f # <<>>)
    BY <1>1, <1>6, <1>9
  <2>2. CharAt(T, end) = Newline /\ Newline \notin Bad
    BY <1>1, <1>2, <1>4, <1>9, <2>1, CharsAssumption DEF CharAt
  <2>3. SubSeq(T, p + 1, end - 1) = f
    <3>1. p + Len(f) <= Len(T) /\ p \in Nat
      BY <1>1, <1>9
    <3> QED
      BY <1>1, <1>5, <2>1, <3>1, SubSeqAt
  <2> QED
    BY <1>1, <1>8, <1>9, <2>1, <2>2, <2>3
<1>10. CASE ~(p + Len(f) < Len(T))
  <2>1. CharAt(T, end) \in Bad /\ end > Len(T)
    BY <1>1, <1>6, <1>10 DEF CharAt, Bad
  <2> QED
    BY <1>1, <1>8, <1>10, <2>1
<1> QED
  BY <1>1, <1>9, <1>10

-----------------------------------------------------------------------------
(***************************************************************************)
(* The header of a record, and the number that a line begins with.         *)
(***************************************************************************)
\* The operations of the log.
Ops == Records!KnownOps \cup {"unsupported"}

\* A digit is the digit of one number, and neither a space nor a newline.
LEMMA DigitFacts ==
  /\ \A d \in 0..9 : Digit(d) \in Digits /\ Digit(d) \in Chars /\ Digit(d) \notin Spaces
  /\ \A d, e \in 0..9 : Digit(d) = Digit(e) => d = e
  /\ \A d \in 0..9 : DigitValue(Digit(d)) = d
  /\ Space \notin Digits /\ Newline \notin Digits /\ Space # Newline
<1>1. \A d \in 0..9 : \/ d = 0 /\ Digit(d) = "0"
                      \/ d = 1 /\ Digit(d) = "1"
                      \/ d = 2 /\ Digit(d) = "2"
                      \/ d = 3 /\ Digit(d) = "3"
                      \/ d = 4 /\ Digit(d) = "4"
                      \/ d = 5 /\ Digit(d) = "5"
                      \/ d = 6 /\ Digit(d) = "6"
                      \/ d = 7 /\ Digit(d) = "7"
                      \/ d = 8 /\ Digit(d) = "8"
                      \/ d = 9 /\ Digit(d) = "9"
  BY DEF Digit
<1>2. \A d, e \in 0..9 : Digit(d) = Digit(e) => d = e
  BY <1>1
<1>3. \A d \in 0..9 : Digit(d) \in Digits
  BY DEF Digits
<1>4. \A d \in 0..9 : Digit(d) \notin Spaces
  BY <1>1 DEF Spaces, Space, Newline
<1>5. \A d \in 0..9 : DigitValue(Digit(d)) = d
  BY <1>2 DEF DigitValue
<1>6. Space \notin Digits /\ Newline \notin Digits
  BY <1>4 DEF Digits, Spaces
<1> QED
  BY <1>2, <1>3, <1>4, <1>5, <1>6, CharsAssumption DEF Space, Newline

\* The op codes are numbers of three digits, and no two operations share one.
LEMMA OpCodes ==
  /\ \A op \in Ops : OpCode(op) \in {101, 102, 103, 104, 105, 106, 107, 999}
  /\ \A op \in Ops : /\ OpCode(op) = 101 <=> op = "NewClassAd"
                     /\ OpCode(op) = 102 <=> op = "DestroyClassAd"
                     /\ OpCode(op) = 103 <=> op = "SetAttribute"
                     /\ OpCode(op) = 104 <=> op = "DeleteAttribute"
                     /\ OpCode(op) = 105 <=> op = "BeginTransaction"
                     /\ OpCode(op) = 106 <=> op = "EndTransaction"
                     /\ OpCode(op) = 107 <=> op = "LogHistoricalSequenceNumber"
                     /\ OpCode(op) = 999 <=> op = "unsupported"
<1> SUFFICES ASSUME NEW op \in Ops
             PROVE  \/ op = "NewClassAd" /\ OpCode(op) = 101
                    \/ op = "DestroyClassAd" /\ OpCode(op) = 102
                    \/ op = "SetAttribute" /\ OpCode(op) = 103
                    \/ op = "DeleteAttribute" /\ OpCode(op) = 104
                    \/ op = "BeginTransaction" /\ OpCode(op) = 105
                    \/ op = "EndTransaction" /\ OpCode(op) = 106
                    \/ op = "LogHistoricalSequenceNumber" /\ OpCode(op) = 107
                    \/ op = "unsupported" /\ OpCode(op) = 999
  OBVIOUS
<1> QED
  BY DEF OpCode, Ops, Records!KnownOps, Records!AdOps

\* A header is made of the digits of its op code.
LEMMA HeaderIs ==
  ASSUME NEW op \in Ops
  PROVE  \E a \in 1..9, b \in 0..9, c \in 0..9 :
           /\ OpCode(op) = 100 * a + 10 * b + c
           /\ Header(op) = <<Digit(a), Digit(b), Digit(c)>>
<1>1. OpCode(op) \in {101, 102, 103, 104, 105, 106, 107, 999}
  BY OpCodes
<1>2. PICK a, b, c : /\ a = IF OpCode(op) = 999 THEN 9 ELSE 1
                     /\ b = IF OpCode(op) = 999 THEN 9 ELSE 0
                     /\ c = IF OpCode(op) = 999 THEN 9 ELSE OpCode(op) - 100
  OBVIOUS
<1>3. a \in 1..9 /\ b \in 0..9 /\ c \in 0..9 /\ OpCode(op) = 100 * a + 10 * b + c
  BY <1>1, <1>2
<1>4. a = OpCode(op) \div 100 /\ b = (OpCode(op) \div 10) % 10 /\ c = OpCode(op) % 10
  <2>1. CASE OpCode(op) = 999
    BY <1>2, <2>1
  <2>2. CASE OpCode(op) \in 101..107
    <3>1. PICK code : code = OpCode(op) /\ code \in 101..107
      BY <2>2
    <3>2. code \div 100 = 1 /\ code % 10 = code - 100
      BY <3>1
    <3>3. code \div 10 = 10 /\ 10 % 10 = 0
      BY <3>1
    <3> QED
      BY <1>2, <2>2, <3>1, <3>2, <3>3
  <2> QED
    BY <1>1, <2>1, <2>2
<1>5. Header(op) = <<Digit(a), Digit(b), Digit(c)>>
  BY <1>4 DEF Header
<1> QED
  BY <1>3, <1>5

\* It is a word of three characters.
LEMMA HeaderIsWord ==
  ASSUME NEW op \in Ops
  PROVE  Header(op) \in Words /\ Len(Header(op)) = 3
<1>1. PICK a \in 1..9, b \in 0..9, c \in 0..9 : Header(op) = <<Digit(a), Digit(b), Digit(c)>>
  BY HeaderIs
<1>2. Digit(a) \in Chars \ Spaces /\ Digit(b) \in Chars \ Spaces /\ Digit(c) \in Chars \ Spaces
  BY DigitFacts
<1> QED
  BY <1>1, <1>2 DEF Words

\* The number that a line begins with is its op code, whatever comes after the header.
LEMMA AtoiOfHeader ==
  ASSUME NEW op \in Ops, NEW w \in Seq(Chars), Len(w) >= 3,
         \A i \in 1..3 : w[i] = Header(op)[i], Len(w) > 3 => w[4] = Space
  PROVE  atoi(w) = OpCode(op)
<1>1. PICK a \in 1..9, b \in 0..9, c \in 0..9 :
           /\ OpCode(op) = 100 * a + 10 * b + c
           /\ Header(op) = <<Digit(a), Digit(b), Digit(c)>>
  BY HeaderIs
<1>2. w[1] = Digit(a) /\ w[2] = Digit(b) /\ w[3] = Digit(c) /\ Len(w) \in Nat
  BY <1>1, LenProperties
<1>3. /\ w[1] \notin {Space} /\ w[1] \notin {Digit(0)}
      /\ w[1] \in Digits /\ w[2] \in Digits /\ w[3] \in Digits
      /\ Len(w) > 3 => w[4] \notin Digits
  BY SMTT(30), <1>2, DigitFacts DEF Spaces
<1>4. FirstNotIn(w, 1, {Space}) = 1
  <2>1. PICK b1, e, chars : b1 = 1 /\ e = 1 /\ chars = {Space}
    OBVIOUS
  <2>2. b1 \in Nat /\ e \in b1..Len(w) + 1 /\ (e <= Len(w) => w[e] \notin chars)
    BY <1>2, <1>3, <2>1
  <2>3. \A j \in b1..e - 1 : w[j] \in chars
    BY <2>1
  <2>4. FirstNotIn(w, b1, chars) = e
    BY <2>2, <2>3, FirstNotInIs
  <2> QED
    BY <2>1, <2>4
<1>5. FirstNotIn(w, 1, {Digit(0)}) = 1
  <2>1. PICK b1, e, chars : b1 = 1 /\ e = 1 /\ chars = {Digit(0)}
    OBVIOUS
  <2>2. b1 \in Nat /\ e \in b1..Len(w) + 1 /\ (e <= Len(w) => w[e] \notin chars)
    BY <1>2, <1>3, <2>1
  <2>3. \A j \in b1..e - 1 : w[j] \in chars
    BY <2>1
  <2>4. FirstNotIn(w, b1, chars) = e
    BY <2>2, <2>3, FirstNotInIs
  <2> QED
    BY <2>1, <2>4
<1>6. FirstNotIn(w, 1, Digits) = 4
  <2>1. PICK b1, e : b1 = 1 /\ e = 4
    OBVIOUS
  <2>2. b1 \in Nat /\ e \in b1..Len(w) + 1 /\ (e <= Len(w) => w[e] \notin Digits)
    BY <1>2, <1>3, <2>1
  <2>3. \A j \in b1..e - 1 : w[j] \in Digits
    BY <1>3, <2>1
  <2>4. FirstNotIn(w, b1, Digits) = e
    BY <2>2, <2>3, FirstNotInIs
  <2> QED
    BY <2>1, <2>4
<1>7. LeadingDigits(w) = SubSeq(w, 1, 3)
  <2>1. LeadingDigits(w) = SubSeq(w, 1, 4 - 1)
    BY <1>4, <1>5, <1>6 DEF LeadingDigits
  <2> QED
    BY <2>1
<1>8. PICK d : d = LeadingDigits(w)
  OBVIOUS
<1>9. Len(d) = 3 /\ d[1] = Digit(a) /\ d[2] = Digit(b) /\ d[3] = Digit(c)
  <2>1. \A i \in 1..3 : w[i] \in Chars
    BY <1>2, ElementOfSeq
  <2> QED
    BY <1>2, <1>7, <1>8, <2>1, SubSeqProperties
<1>10. atoi(w) = 100 * DigitValue(d[1]) + 10 * DigitValue(d[2]) + DigitValue(d[3])
  BY <1>8, <1>9 DEF atoi
<1>11. DigitValue(d[1]) = a /\ DigitValue(d[2]) = b /\ DigitValue(d[3]) = c
  BY SMTT(30), <1>9, DigitFacts
<1> QED
  BY <1>1, <1>10, <1>11

-----------------------------------------------------------------------------
(***************************************************************************)
(* The text of a record and its parts.                                     *)
(***************************************************************************)
\* What field i of a record ends with, and where it begins in the text of the record.
Stop(line, i) == IF i = Len(line.fields) THEN Newline ELSE Space
Start(line, i) ==
  CASE i = 1 -> 4
    [] i = 2 -> 4 + Len(line.fields[1]) + 1
    [] i = 3 -> 4 + Len(line.fields[1]) + 1 + Len(line.fields[2]) + 1
    [] i = 4 -> 4 + Len(line.fields[1]) + 1 + Len(line.fields[2]) + 1 + Len(line.fields[3]) + 1

\* The number of fields is the one of the operation, and no field goes over the line.
LEMMA FieldFacts ==
  ASSUME NEW line, IsLine(line)
  PROVE  /\ line.op \in Ops
         /\ Len(line.fields) = FieldCount(line.op)
         /\ Len(line.fields) \in 0..3
         /\ line.fields = <<>> <=> Len(line.fields) = 0
         /\ \A i \in 1..Len(line.fields) :
              /\ line.fields[i] \in Seq(Chars \ {Newline}) /\ line.fields[i] \in Seq(Chars)
              /\ Len(line.fields[i]) \in Nat
         /\ line.op = "NewClassAd" => Len(line.fields) = 3
         /\ line.op = "DestroyClassAd" => Len(line.fields) = 1
         /\ line.op = "SetAttribute" => Len(line.fields) = 3
         /\ line.op = "DeleteAttribute" => Len(line.fields) = 2
         /\ line.op = "BeginTransaction" => Len(line.fields) = 0
         /\ line.op = "EndTransaction" => Len(line.fields) = 0
         /\ line.op = "LogHistoricalSequenceNumber" => Len(line.fields) = 3
<1>1. line.op \in Ops /\ line.fields \in Seq(Seq(Chars \ {Newline})) /\ Len(line.fields) = FieldCount(line.op)
  BY DEF IsLine, Ops
<1>2. \/ line.op = "NewClassAd" /\ FieldCount(line.op) = 3
      \/ line.op = "DestroyClassAd" /\ FieldCount(line.op) = 1
      \/ line.op = "SetAttribute" /\ FieldCount(line.op) = 3
      \/ line.op = "DeleteAttribute" /\ FieldCount(line.op) = 2
      \/ line.op = "BeginTransaction" /\ FieldCount(line.op) = 0
      \/ line.op = "EndTransaction" /\ FieldCount(line.op) = 0
      \/ line.op = "LogHistoricalSequenceNumber" /\ FieldCount(line.op) = 3
      \/ line.op = "unsupported" /\ FieldCount(line.op) = 1
  BY <1>1 DEF FieldCount, Ops, Records!KnownOps, Records!AdOps
<1>3. \A i \in 1..Len(line.fields) : line.fields[i] \in Seq(Chars \ {Newline})
  BY <1>1, ElementOfSeq
<1>4. \A f \in Seq(Chars \ {Newline}) : f \in Seq(Chars) /\ Len(f) \in Nat
  BY SeqMonotonic, LenProperties
<1>5. line.fields = <<>> <=> Len(line.fields) = 0
  BY <1>1, EmptySeq
<1> QED
  BY <1>1, <1>2, <1>3, <1>4, <1>5

\* A field and what it ends with.
LEMMA StoppedField ==
  ASSUME NEW line, IsLine(line), NEW i \in 1..Len(line.fields)
  PROVE  /\ Append(line.fields[i], Stop(line, i)) \in Seq(Chars)
         /\ Len(Append(line.fields[i], Stop(line, i))) = Len(line.fields[i]) + 1
<1>1. line.fields[i] \in Seq(Chars) /\ Stop(line, i) \in Chars
  BY FieldFacts, CharsAssumption DEF Stop, Spaces
<1> QED
  BY <1>1, AppendProperties

\* A header is followed by a space.
LEMMA StoppedHeader ==
  ASSUME NEW op \in Ops
  PROVE  /\ Append(Header(op), Space) \in Seq(Chars) /\ Len(Append(Header(op), Space)) = 4
<1>1. PICK h : h = Header(op) /\ h \in Seq(Chars) /\ Len(h) = 3
  <2>1. Header(op) \in Seq(Chars \ Spaces) /\ Len(Header(op)) = 3
    BY HeaderIsWord DEF Words
  <2> QED
    BY <2>1, SeqMonotonic
<1>2. PICK space \in Chars : space = Space
  BY CharsAssumption DEF Spaces
<1>3. Append(h, space) \in Seq(Chars) /\ Len(Append(h, space)) = Len(h) + 1
  BY ZenonT(30), <1>1, AppendProperties
<1> QED
  BY <1>1, <1>2, <1>3

\* The text of a record: its header, and its fields one after another.
LEMMA TextParts ==
  ASSUME NEW line, IsLine(line), NEW S, NEW T \in Seq(S), NEW p \in Nat, At(T, p, Text(line))
  PROVE  /\ Text(line) \in Seq(Chars)
         /\ Len(Text(line)) = IF line.fields = <<>> THEN 5 ELSE Start(line, Len(line.fields) + 1)
         /\ At(T, p, Append(Header(line.op), Space))
         /\ line.fields = <<>> => At(T, p + 4, <<Newline>>)
         /\ \A i \in 1..Len(line.fields) :
              At(T, p + Start(line, i), Append(line.fields[i], Stop(line, i)))
<1>1. PICK h : h = Append(Header(line.op), Space) /\ h \in Seq(Chars) /\ Len(h) = 4
  BY StoppedHeader, FieldFacts
<1>2. PICK n \in 0..3 : n = Len(line.fields) /\ (line.fields = <<>> <=> n = 0)
  BY FieldFacts
<1>3. \A i \in 1..n : /\ Append(line.fields[i], Stop(line, i)) \in Seq(Chars)
                      /\ Len(Append(line.fields[i], Stop(line, i))) = Len(line.fields[i]) + 1
                      /\ Len(line.fields[i]) \in Nat
  BY <1>2, StoppedField, FieldFacts
<1>4. PICK a, b, c : /\ a = IF n = 0 THEN <<Newline>> ELSE Append(line.fields[1], Stop(line, 1))
                     /\ b = IF n >= 2 THEN Append(line.fields[2], Stop(line, 2)) ELSE <<>>
                     /\ c = IF n = 3 THEN Append(line.fields[3], Stop(line, 3)) ELSE <<>>
  OBVIOUS
<1>5. /\ a \in Seq(Chars) /\ b \in Seq(Chars) /\ c \in Seq(Chars)
      /\ n = 0 => Len(a) = 1
  BY <1>3, <1>4, CharsAssumption DEF Spaces
<1>6. Text(line) = h \o ((a \o b) \o c)
  <2>1. PICK none : none = <<>> /\ \A s \in Seq(Chars) : s \o none = s
    BY ConcatEmptySeq
  <2>2. CASE n = 0
    <3>1. Text(line) = h \o a
      BY <1>1, <1>2, <1>4, <2>2 DEF Text, Write
    <3>2. (a \o b) \o c = a
      BY <1>4, <1>5, <2>1, <2>2
    <3> QED
      BY <3>1, <3>2
  <2>3. CASE n > 0
    <3>1. PICK s : s = line.fields
      OBVIOUS
    <3>2. Write(Header(line.op), s) =
             h \o (((CASE 1 > Len(s) -> <<>> [] 1 < Len(s) -> Append(s[1], Space)
                        [] 1 = Len(s) -> Append(s[1], Newline))
                 \o (CASE 2 > Len(s) -> <<>> [] 2 < Len(s) -> Append(s[2], Space)
                        [] 2 = Len(s) -> Append(s[2], Newline)))
                 \o (CASE 3 > Len(s) -> <<>> [] 3 < Len(s) -> Append(s[3], Space)
                        [] 3 = Len(s) -> Append(s[3], Newline)))
      <4>1. s # <<>>
        BY <1>2, <2>3, <3>1
      <4> QED
        BY <1>1, <4>1, Zenon DEF Write
    <3>3. a = CASE 1 > Len(s) -> <<>> [] 1 < Len(s) -> Append(s[1], Space)
                [] 1 = Len(s) -> Append(s[1], Newline)
      BY <1>2, <1>4, <2>3, <3>1 DEF Stop
    <3>4. b = CASE 2 > Len(s) -> <<>> [] 2 < Len(s) -> Append(s[2], Space)
                [] 2 = Len(s) -> Append(s[2], Newline)
      BY <1>2, <1>4, <2>3, <3>1 DEF Stop
    <3>5. c = CASE 3 > Len(s) -> <<>> [] 3 < Len(s) -> Append(s[3], Space)
                [] 3 = Len(s) -> Append(s[3], Newline)
      <4>1. CASE n = 3
        BY <1>2, <1>4, <2>3, <3>1, <4>1 DEF Stop
      <4>2. CASE n # 3
        <5>1. n \in 1..2 /\ Len(s) = n /\ c = <<>>
          BY <1>2, <1>4, <2>3, <3>1, <4>2
        <5> QED
          BY <5>1
      <4> QED
        BY <4>1, <4>2
    <3> QED
      BY <3>1, <3>2, <3>3, <3>4, <3>5, Zenon DEF Text
  <2> QED
    BY <2>2, <2>3
<1>7. /\ Text(line) \in Seq(Chars)
      /\ Len(Text(line)) = 4 + Len(a) + Len(b) + Len(c)
      /\ At(T, p, h) /\ At(T, p + 4, a)
      /\ At(T, p + 4 + Len(a), b) /\ At(T, p + 4 + Len(a) + Len(b), c)
  <2>1. Len(h) \in Nat /\ Len(a) \in Nat /\ Len(b) \in Nat /\ Len(c) \in Nat
    BY <1>1, <1>5, LenProperties
  <2>2. PICK pa, pb, pc : pa = p + Len(h) /\ pb = pa + Len(a) /\ pc = pb + Len(b)
    OBVIOUS
  <2>3. PICK ab : ab = a \o b /\ ab \in Seq(Chars) /\ Len(ab) = Len(a) + Len(b)
    BY <1>5, ConcatProperties
  <2>4. PICK abc : abc = ab \o c /\ abc \in Seq(Chars) /\ Len(abc) = Len(ab) + Len(c)
    BY <1>5, <2>3, ConcatProperties
  <2>5. PICK t : t = Text(line) /\ t = h \o abc
    BY <1>6, <2>3, <2>4
  <2>6. t \in Seq(Chars) /\ Len(t) = Len(h) + Len(abc)
    BY <1>1, <2>4, <2>5, ConcatProperties
  <2>7. At(T, p, h) /\ At(T, pa, abc)
    BY <1>1, <2>2, <2>4, <2>5, AtConcat
  <2>8. pa \in Nat /\ pc = pa + Len(ab)
    BY <2>1, <2>2, <2>3
  <2>9. At(T, pa, ab) /\ At(T, pc, c)
    BY <1>5, <2>3, <2>4, <2>7, <2>8, AtConcat
  <2>10. At(T, pa, a) /\ At(T, pb, b)
    BY <1>5, <2>2, <2>3, <2>8, <2>9, AtConcat
  <2>11. Len(t) = Len(h) + Len(a) + Len(b) + Len(c)
    BY <2>1, <2>3, <2>4, <2>6
  <2> QED
    BY <1>1, <2>2, <2>5, <2>6, <2>7, <2>9, <2>10, <2>11
<1>8. PICK k1, k2, k3 :
           /\ k1 = IF n >= 1 THEN Len(line.fields[1]) ELSE 0
           /\ k2 = IF n >= 2 THEN Len(line.fields[2]) ELSE 0
           /\ k3 = IF n = 3 THEN Len(line.fields[3]) ELSE 0
  OBVIOUS
<1>9. /\ k1 \in Nat /\ k2 \in Nat /\ k3 \in Nat
      /\ Len(a) = k1 + 1
      /\ Len(b) = IF n >= 2 THEN k2 + 1 ELSE 0
      /\ Len(c) = IF n = 3 THEN k3 + 1 ELSE 0
  <2>1. Len(<<>>) = 0
    OBVIOUS
  <2>2. CASE n = 0
    BY <1>4, <1>5, <1>8, <2>1, <2>2
  <2>3. CASE n = 1
    BY <1>3, <1>4, <1>8, <2>1, <2>3
  <2>4. CASE n = 2
    BY <1>3, <1>4, <1>8, <2>1, <2>4
  <2>5. CASE n = 3
    BY <1>3, <1>4, <1>8, <2>1, <2>5
  <2> QED
    BY <2>2, <2>3, <2>4, <2>5
<1>10. /\ Start(line, 1) = 4
       /\ n >= 1 => Start(line, 2) = 4 + k1 + 1
       /\ n >= 2 => Start(line, 3) = 4 + k1 + 1 + k2 + 1
       /\ n = 3 => Start(line, 4) = 4 + k1 + 1 + k2 + 1 + k3 + 1
  <2>1. n = 0 \/ n = 1 \/ n = 2 \/ n = 3
    OBVIOUS
  <2>2. Start(line, 1) = 4
    BY DEF Start
  <2>3. n >= 1 => Start(line, 2) = 4 + k1 + 1
    BY <1>8 DEF Start
  <2>4. n >= 2 => Start(line, 3) = 4 + k1 + 1 + k2 + 1
    <3>1. Start(line, 3) = 4 + Len(line.fields[1]) + 1 + Len(line.fields[2]) + 1
      BY DEF Start
    <3>2. n >= 2 => k1 = Len(line.fields[1]) /\ k2 = Len(line.fields[2])
      BY <1>8, <2>1
    <3> QED
      BY <3>1, <3>2, Zenon
  <2>5. n = 3 => Start(line, 4) = 4 + k1 + 1 + k2 + 1 + k3 + 1
    BY <1>8 DEF Start
  <2> QED
    BY <2>2, <2>3, <2>4, <2>5
<1>11. Len(Text(line)) = IF n = 0 THEN 5 ELSE Start(line, n + 1)
  <2>1. n = 0 \/ (n = 1 /\ n + 1 = 2) \/ (n = 2 /\ n + 1 = 3) \/ (n = 3 /\ n + 1 = 4)
    OBVIOUS
  <2>2. n = 0 => k1 = 0
    BY <1>8
  <2>3. CASE n = 0
    BY <1>7, <1>9, <2>2, <2>3
  <2>4. CASE n = 1
    BY <1>7, <1>9, <1>10, <2>1, <2>4
  <2>5. CASE n = 2
    BY <1>7, <1>9, <1>10, <2>1, <2>5
  <2>6. CASE n = 3
    BY <1>7, <1>9, <1>10, <2>1, <2>6
  <2> QED
    BY <2>3, <2>4, <2>5, <2>6
<1>12. ASSUME NEW i \in 1..n
       PROVE  At(T, p + Start(line, i), Append(line.fields[i], Stop(line, i)))
  <2>1. CASE i = 1
    BY <1>4, <1>7, <1>10, <2>1
  <2>2. CASE i = 2
    <3>1. b = Append(line.fields[2], Stop(line, 2)) /\ n >= 1
      BY <1>4, <2>2
    <3>2. p + Start(line, 2) = p + 4 + Len(a)
      BY <1>9, <1>10, <3>1
    <3> QED
      BY <1>7, <2>2, <3>1, <3>2
  <2>3. CASE i = 3
    <3>1. c = Append(line.fields[3], Stop(line, 3)) /\ n >= 2
      BY <1>4, <2>3
    <3>2. p + Start(line, 3) = p + 4 + Len(a) + Len(b)
      BY <1>9, <1>10, <3>1
    <3> QED
      BY <1>7, <2>3, <3>1, <3>2
  <2> QED
    BY <2>1, <2>2, <2>3
<1> QED
  BY <1>1, <1>2, <1>4, <1>7, <1>11, <1>12
\* Where the fields of a record are.
LEMMA StartFacts ==
  ASSUME NEW line, IsLine(line), NEW n, n = Len(line.fields)
  PROVE  /\ n \in 0..3
         /\ Start(line, 1) = 4
         /\ \A i \in 1..n + 1 : Start(line, i) \in Nat /\ Start(line, i) >= 4
         /\ \A i \in 1..n :
              /\ Len(line.fields[i]) \in Nat
              /\ Start(line, i + 1) = Start(line, i) + Len(line.fields[i]) + 1
              /\ Start(line, i + 1) <= Start(line, n + 1)
              /\ i < n => Start(line, i + 1) < Start(line, n + 1)
         /\ \A k \in Nat : k > 4 /\ k <= Start(line, n + 1) =>
              \E i \in 1..n : Start(line, i) < k /\ k <= Start(line, i + 1)
<1>1. n \in 0..3 /\ \A i \in 1..n : Len(line.fields[i]) \in Nat
  BY FieldFacts
<1>2. PICK k1, k2, k3 : k1 = Len(line.fields[1]) /\ k2 = Len(line.fields[2]) /\ k3 = Len(line.fields[3])
  OBVIOUS
<1>3. /\ Start(line, 1) = 4
      /\ Start(line, 2) = 4 + k1 + 1
      /\ Start(line, 3) = 4 + k1 + 1 + k2 + 1
      /\ Start(line, 4) = 4 + k1 + 1 + k2 + 1 + k3 + 1
  <2>1. Start(line, 1) = 4
    BY DEF Start
  <2>2. Start(line, 2) = 4 + k1 + 1
    BY <1>2 DEF Start
  <2>3. Start(line, 3) = 4 + k1 + 1 + k2 + 1
    <3>1. Start(line, 3) = 4 + Len(line.fields[1]) + 1 + Len(line.fields[2]) + 1
      BY DEF Start
    <3> QED
      BY <1>2, <3>1, Zenon
  <2>4. Start(line, 4) = 4 + k1 + 1 + k2 + 1 + k3 + 1
    <3>1. Start(line, 4) = 4 + Len(line.fields[1]) + 1 + Len(line.fields[2]) + 1
                             + Len(line.fields[3]) + 1
      BY DEF Start
    <3> QED
      BY <1>2, <3>1, Zenon
  <2> QED
    BY <2>1, <2>2, <2>3, <2>4
<1>4. CASE n = 0
  BY <1>3, <1>4
<1>5. CASE n = 1
  <2>1. k1 \in Nat /\ 1 \in 1..n
    BY <1>1, <1>2, <1>5
  <2> QED
    BY <1>2, <1>3, <1>5, <2>1
<1>6. CASE n = 2
  <2>1. k1 \in Nat /\ k2 \in Nat /\ 1 \in 1..n /\ 2 \in 1..n
    BY <1>1, <1>2, <1>6
  <2>2. \A i \in 1..n : i = 1 \/ i = 2
    BY <1>6
  <2>3. \A i \in 1..n + 1 : i = 1 \/ i = 2 \/ i = 3
    BY <1>6
  <2>4. n + 1 = 3 /\ 1 + 1 = 2 /\ 2 + 1 = 3
    BY <1>6
  <2>5. Start(line, 2) \in Nat /\ Start(line, 3) \in Nat
    BY <1>3, <2>1
  <2>6. \A i \in 1..n :
              /\ Len(line.fields[i]) \in Nat
              /\ Start(line, i + 1) = Start(line, i) + Len(line.fields[i]) + 1
              /\ Start(line, i + 1) <= Start(line, n + 1)
              /\ i < n => Start(line, i + 1) < Start(line, n + 1)
    <3>1. ASSUME NEW i \in 1..n
          PROVE  /\ Len(line.fields[i]) \in Nat
                 /\ Start(line, i + 1) = Start(line, i) + Len(line.fields[i]) + 1
                 /\ Start(line, i + 1) <= Start(line, n + 1)
                 /\ i < n => Start(line, i + 1) < Start(line, n + 1)
      <4>1. CASE i = 1
        <5>1. Len(line.fields[i]) = k1
          BY <1>2, <4>1
        <5>2. Start(line, i) = Start(line, 1) /\ Start(line, i + 1) = Start(line, 2) /\ Start(line, n + 1) = Start(line, 3)
          BY <2>4, <4>1
        <5> QED
          BY <1>3, <1>6, <2>1, <4>1, <5>1, <5>2
      <4>2. CASE i = 2
        <5>1. Len(line.fields[i]) = k2
          BY <1>2, <4>2
        <5>2. Start(line, i) = Start(line, 2) /\ Start(line, i + 1) = Start(line, 3) /\ Start(line, n + 1) = Start(line, 3)
          BY <2>4, <4>2
        <5> QED
          BY <1>3, <1>6, <2>1, <4>2, <5>1, <5>2
      <4> QED
        BY <2>2, <4>1, <4>2
    <3> QED
      BY <3>1
  <2>7. \A i \in 1..n + 1 : Start(line, i) \in Nat /\ Start(line, i) >= 4
    BY <1>3, <2>1, <2>3
  <2>8. ASSUME NEW k \in Nat, k > 4, k <= Start(line, n + 1)
        PROVE  \E i \in 1..n : Start(line, i) < k /\ k <= Start(line, i + 1)
    <3>1. CASE k <= Start(line, 2)
      BY <1>3, <2>1, <2>4, <2>8, <3>1
    <3>2. CASE k > Start(line, 2)
      BY <1>3, <2>1, <2>4, <2>8, <3>2
    <3> QED
      BY <2>5, <3>1, <3>2
  <2> QED
    BY <1>1, <1>3, <2>6, <2>7, <2>8
<1>7. CASE n = 3
  <2>1. /\ k1 \in Nat /\ k2 \in Nat /\ k3 \in Nat /\ 1 \in 1..n /\ 2 \in 1..n /\ 3 \in 1..n
    BY <1>1, <1>2, <1>7
  <2>2. \A i \in 1..n : i = 1 \/ i = 2 \/ i = 3
    BY <1>7
  <2>3. \A i \in 1..n + 1 : i = 1 \/ i = 2 \/ i = 3 \/ i = 4
    BY <1>7
  <2>4. n + 1 = 4 /\ 1 + 1 = 2 /\ 2 + 1 = 3 /\ 3 + 1 = 4
    BY <1>7
  <2>5. Start(line, 2) \in Nat /\ Start(line, 3) \in Nat /\ Start(line, 4) \in Nat
    BY <1>3, <2>1
  <2>6. \A i \in 1..n :
              /\ Len(line.fields[i]) \in Nat
              /\ Start(line, i + 1) = Start(line, i) + Len(line.fields[i]) + 1
              /\ Start(line, i + 1) <= Start(line, n + 1)
              /\ i < n => Start(line, i + 1) < Start(line, n + 1)
    <3>1. ASSUME NEW i \in 1..n
          PROVE  /\ Len(line.fields[i]) \in Nat
                 /\ Start(line, i + 1) = Start(line, i) + Len(line.fields[i]) + 1
                 /\ Start(line, i + 1) <= Start(line, n + 1)
                 /\ i < n => Start(line, i + 1) < Start(line, n + 1)
      <4>1. CASE i = 1
        <5>1. Len(line.fields[i]) = k1
          BY <1>2, <4>1
        <5>2. Start(line, i) = Start(line, 1) /\ Start(line, i + 1) = Start(line, 2) /\ Start(line, n + 1) = Start(line, 4)
          BY <2>4, <4>1
        <5> QED
          BY <1>3, <1>7, <2>1, <4>1, <5>1, <5>2
      <4>2. CASE i = 2
        <5>1. Len(line.fields[i]) = k2
          BY <1>2, <4>2
        <5>2. Start(line, i) = Start(line, 2) /\ Start(line, i + 1) = Start(line, 3) /\ Start(line, n + 1) = Start(line, 4)
          BY <2>4, <4>2
        <5> QED
          BY <1>3, <1>7, <2>1, <4>2, <5>1, <5>2
      <4>3. CASE i = 3
        <5>1. Len(line.fields[i]) = k3
          BY <1>2, <4>3
        <5>2. Start(line, i) = Start(line, 3) /\ Start(line, i + 1) = Start(line, 4) /\ Start(line, n + 1) = Start(line, 4)
          BY <2>4, <4>3
        <5> QED
          BY <1>3, <1>7, <2>1, <4>3, <5>1, <5>2
      <4> QED
        BY <2>2, <4>1, <4>2, <4>3
    <3> QED
      BY <3>1
  <2>7. \A i \in 1..n + 1 : Start(line, i) \in Nat /\ Start(line, i) >= 4
    BY <1>3, <2>1, <2>3
  <2>8. ASSUME NEW k \in Nat, k > 4, k <= Start(line, n + 1)
        PROVE  \E i \in 1..n : Start(line, i) < k /\ k <= Start(line, i + 1)
    <3>1. CASE k <= Start(line, 2)
      BY <1>3, <2>1, <2>4, <2>8, <3>1
    <3>2. CASE k > Start(line, 2) /\ k <= Start(line, 3)
      BY <1>3, <2>1, <2>4, <2>8, <3>2
    <3>3. CASE k > Start(line, 3)
      BY <1>3, <2>1, <2>4, <2>8, <3>3
    <3> QED
      BY <2>5, <3>1, <3>2, <3>3
  <2> QED
    BY <1>1, <1>3, <2>6, <2>7, <2>8
<1> QED
  BY <1>1, <1>4, <1>5, <1>6, <1>7

\* The text of a record is at least a header, a space and a newline.
LEMMA TextFacts ==
  ASSUME NEW line, IsLine(line)
  PROVE  /\ Text(line) \in Seq(Chars)
         /\ Len(Text(line)) \in Nat /\ Len(Text(line)) >= 5
         /\ line.fields = <<>> => Len(Text(line)) = 5
         /\ line.fields # <<>> => Len(Text(line)) = Start(line, Len(line.fields) + 1)
<1>1. PICK T, S : S = {1} /\ T = <<>> /\ T \in Seq(S) /\ Len(T) = 0
  BY EmptySeq
<1>2. At(T, 0, Text(line))
  <2>1. \A i \in 1..Len(Text(line)) : ~(0 + i <= 0)
    OBVIOUS
  <2> QED
    BY <1>1, <2>1 DEF At
<1>3. Text(line) \in Seq(Chars) /\ Len(Text(line)) = IF line.fields = <<>> THEN 5 ELSE Start(line, Len(line.fields) + 1)
  BY <1>1, <1>2, TextParts
<1>4. line.fields # <<>> => Start(line, Len(line.fields) + 1) >= 5 /\ Start(line, Len(line.fields) + 1) \in Nat
  <2>1. PICK n : n = Len(line.fields) /\ n \in 0..3 /\ (line.fields = <<>> <=> n = 0)
    BY FieldFacts
  <2>2. ASSUME n \in 1..3
        PROVE  Start(line, n + 1) >= 5 /\ Start(line, n + 1) \in Nat
    <3>1. n \in 1..n /\ n \in 1..n + 1 /\ n + 1 \in 1..n + 1
      BY <2>2
    <3>2. /\ Start(line, n) \in Nat /\ Start(line, n) >= 4 /\ Len(line.fields[n]) \in Nat
          /\ Start(line, n + 1) = Start(line, n) + Len(line.fields[n]) + 1
      BY <2>1, <3>1, StartFacts
    <3> QED
      BY <3>2
  <2> QED
    BY <2>1, <2>2
<1> QED
  BY <1>3, <1>4

\* A word or a field, and what it ends with.
LEMMA Appended ==
  ASSUME NEW C, NEW f \in Seq(C), NEW t
  PROVE  /\ Len(f) \in Nat /\ Len(Append(f, t)) = Len(f) + 1
         /\ Append(f, t)[Len(f) + 1] = t
         /\ \A i \in 1..Len(f) : Append(f, t)[i] = f[i] /\ f[i] \in C
<1>1. f \in Seq(C \cup {t}) /\ t \in C \cup {t}
  BY SeqMonotonic
<1>2. \A i \in 1..Len(f) : f[i] \in C
  BY ElementOfSeq
<1> QED
  BY <1>1, <1>2, AppendProperties, LenProperties

\* Only the last character of a record is a newline.
LEMMA TextNewline ==
  ASSUME NEW line, IsLine(line), NEW k \in 1..Len(Text(line))
  PROVE  Text(line)[k] = Newline <=> k = Len(Text(line))
<1>1. PICK T : T = Text(line) /\ T \in Seq(Chars) /\ Len(T) \in Nat
  BY TextFacts
<1>2. At(T, 0, Text(line))
  BY <1>1 DEF At
<1>3. /\ At(T, 0, Append(Header(line.op), Space))
      /\ line.fields = <<>> => At(T, 0 + 4, <<Newline>>)
      /\ \A i \in 1..Len(line.fields) : At(T, 0 + Start(line, i), Append(line.fields[i], Stop(line, i)))
  BY <1>1, <1>2, TextParts
<1>4. Space # Newline
  BY DigitFacts
<1>5. CASE k \in 1..4
  <2>1. PICK h, hs : /\ h = Header(line.op) /\ h \in Seq(Chars \ Spaces) /\ Len(h) = 3
                     /\ hs = Append(h, Space)
    BY FieldFacts, HeaderIsWord DEF Words
  <2>2. /\ Len(hs) = 4 /\ hs[4] = Space
        /\ \A i \in 1..3 : hs[i] = h[i] /\ h[i] \in Chars \ Spaces
    <3>1. 3 + 1 = 4
      OBVIOUS
    <3> QED
      BY <2>1, <3>1, Appended
  <2>3. hs[k] # Newline
    BY <1>4, <1>5, <2>2 DEF Spaces
  <2>4. T[k] = hs[k]
    <3>1. 0 + k = k /\ k \in 1..Len(hs) /\ k <= Len(T)
      BY <1>1, <1>5, <2>2
    <3> QED
      BY <1>3, <2>1, <3>1 DEF At
  <2>5. k # Len(T)
    BY <1>1, <1>5, TextFacts
  <2> QED
    BY <1>1, <2>3, <2>4, <2>5
<1>6. CASE k > 4 /\ line.fields = <<>>
  <2>1. Len(T) = 5
    BY <1>1, <1>6, TextFacts
  <2>2. k = 5
    BY <1>1, <1>6, <2>1
  <2>3. At(T, 4, <<Newline>>)
    BY <1>3, <1>6
  <2>4. T[4 + 1] = <<Newline>>[1]
    <3>1. 1 \in 1..Len(<<Newline>>) /\ 4 + 1 <= Len(T)
      BY <2>1
    <3> QED
      BY <2>3, <3>1 DEF At
  <2> QED
    BY <1>1, <2>1, <2>2, <2>4
<1>7. CASE k > 4 /\ line.fields # <<>>
  <2>1. PICK n : n = Len(line.fields) /\ n \in 0..3 /\ n # 0 /\ Len(T) = Start(line, n + 1)
    BY <1>1, <1>7, FieldFacts, TextFacts
  <2>2. PICK i \in 1..n : k > Start(line, i) /\ k <= Start(line, i + 1)
    <3>1. k \in Nat /\ k <= Start(line, n + 1)
      BY <1>1, <2>1
    <3> QED
      BY <1>7, <2>1, <3>1, StartFacts
  <2>3. PICK f, s : /\ f = line.fields[i] /\ s = Start(line, i)
                    /\ f \in Seq(Chars \ {Newline}) /\ Len(f) \in Nat
    BY <2>1, FieldFacts
  <2>4. /\ s \in Nat /\ Start(line, i + 1) = s + Len(f) + 1
        /\ s + Len(f) + 1 <= Len(T)
        /\ i < n => s + Len(f) + 1 < Len(T)
    <3>1. Start(line, i) \in Nat
      <4>1. i \in 1..n + 1
        BY <2>1
      <4> QED
        BY <2>1, <4>1, StartFacts
    <3>2. /\ Start(line, i + 1) = Start(line, i) + Len(line.fields[i]) + 1
          /\ Start(line, i + 1) <= Start(line, n + 1)
          /\ i < n => Start(line, i + 1) < Start(line, n + 1)
      BY <2>1, StartFacts
    <3> QED
      BY <2>1, <2>3, <3>1, <3>2
  <2>5. PICK j, fs : j = k - s /\ fs = Append(f, Stop(line, i))
    OBVIOUS
  <2>6. j \in 1..Len(f) + 1 /\ s + j = k
    BY SMTT(30), <2>2, <2>3, <2>4, <2>5
  <2>7. /\ Len(fs) = Len(f) + 1 /\ fs[Len(f) + 1] = Stop(line, i)
        /\ \A m \in 1..Len(f) : fs[m] = f[m] /\ f[m] \in Chars \ {Newline}
    BY SMTT(30), <2>3, <2>5, Appended
  <2>8. T[k] = fs[j]
    <3>1. At(T, s, fs)
      <4>1. 0 + s = s /\ At(T, 0 + s, fs)
        BY <1>3, <2>1, <2>3, <2>4, <2>5
      <4> QED
        BY <4>1
    <3> QED
      BY <1>1, <2>6, <2>7, <3>1 DEF At
  <2>9. CASE j <= Len(f)
    <3>1. fs[j] # Newline
      BY <2>3, <2>6, <2>7, <2>9
    <3>2. k < Len(T)
      BY <1>1, <2>3, <2>4, <2>6, <2>9
    <3> QED
      BY <1>1, <2>8, <3>1, <3>2
  <2>10. CASE j = Len(f) + 1
    <3>1. fs[j] = Stop(line, i) /\ k = s + Len(f) + 1
      BY <2>3, <2>4, <2>6, <2>7, <2>10
    <3>2. CASE i = n
      <4>1. Stop(line, i) = Newline
        BY <2>1, <3>2 DEF Stop
      <4>2. Len(T) = s + Len(f) + 1
        BY <2>1, <2>4, <3>2
      <4> QED
        BY <1>1, <2>8, <3>1, <4>1, <4>2
    <3>3. CASE i < n
      <4>1. Stop(line, i) = Space
        BY <2>1, <3>3 DEF Stop
      <4> QED
        BY <1>1, <1>4, <2>4, <2>8, <3>1, <3>3, <4>1
    <3> QED
      BY <2>1, <3>2, <3>3
  <2> QED
    BY <2>3, <2>6, <2>9, <2>10
<1> QED
  BY <1>1, <1>5, <1>6, <1>7
-----------------------------------------------------------------------------
(***************************************************************************)
(* Reading the body of a record.                                           *)
(***************************************************************************)
\* The first i fields have been read, or the file ends before they do.
ReadTo(T, p, line, body, i) ==
  /\ Len(T) >= p + Start(line, i + 1) =>
       /\ body.ok /\ body.fields = SubSeq(line.fields, 1, i)
       /\ body.pos = p + Start(line, i + 1)
  /\ Len(T) < p + Start(line, i + 1) => ~body.ok /\ body.pos = Len(T)

\* The same for a last field that may be empty.
ReadToEnd(T, p, line, body, i) ==
  /\ line.fields[i] # <<>> => ReadTo(T, p, line, body, i)
  /\ line.fields[i] = <<>> =>
       /\ ~body.ok
       /\ body.pos = IF Len(T) >= p + Start(line, i + 1) THEN p + Start(line, i + 1) ELSE Len(T)

\* One field after another.
LEMMA SubSeqGrows ==
  ASSUME NEW C, NEW s \in Seq(C)
  PROVE  /\ SubSeq(s, 1, 0) = <<>> /\ SubSeq(s, 1, Len(s)) = s
         /\ \A i \in 0..Len(s) - 1 : Append(SubSeq(s, 1, i), s[i + 1]) = SubSeq(s, 1, i + 1)
<1>1. Len(s) \in Nat
  BY LenProperties
<1>2. SubSeq(s, 1, 0) = <<>>
  BY SubSeqEmpty
<1>3. SubSeq(s, 1, Len(s)) = s
  BY SubSeqFull
<1>4. ASSUME NEW i \in 0..Len(s) - 1
      PROVE  Append(SubSeq(s, 1, i), s[i + 1]) = SubSeq(s, 1, i + 1)
  BY <1>1, <1>4, SubSeqRecursiveSecond
<1> QED
  BY <1>2, <1>3, <1>4

\* A field that is a word is read as one, whatever came before it.
LEMMA WordStep ==
  ASSUME NEW T \in Seq(Chars), NEW p \in Nat, NEW line, IsLine(line), At(T, p, Text(line)),
         p + 4 <= Len(T), NEW i \in 0..Len(line.fields) - 1, line.fields[i + 1] \in Words,
         NEW body, ReadTo(T, p, line, body, i)
  PROVE  ReadTo(T, p, line, NextWord(T, body), i + 1)
<1>1. PICK n : n = Len(line.fields) /\ n \in 0..3 /\ line.fields \in Seq(Seq(Chars \ {Newline}))
  BY FieldFacts DEF IsLine
<1>2. PICK f, s, t : f = line.fields[i + 1] /\ s = Start(line, i + 1) /\ t = Stop(line, i + 1)
  OBVIOUS
<1>3. /\ s \in Nat /\ Len(f) \in Nat /\ Start(line, i + 2) = s + Len(f) + 1
      /\ t \in Spaces /\ At(T, p + s, Append(f, t))
  <2>1. PICK k : k = i + 1 /\ k \in 1..n /\ k \in 1..n + 1 /\ i + 2 = k + 1
    BY <1>1
  <2>2. s \in Nat
    BY <1>1, <1>2, <2>1, StartFacts
  <2>3. Len(f) \in Nat /\ Start(line, k + 1) = s + Len(f) + 1
    BY <1>1, <1>2, <2>1, StartFacts
  <2>4. At(T, p + s, Append(f, t))
    BY <1>1, <1>2, <2>1, TextParts
  <2> QED
    BY <1>2, <2>1, <2>2, <2>3, <2>4 DEF Stop, Spaces
<1>4. Len(T) \in Nat
  BY LenProperties
<1>5. CASE Len(T) < p + s
  <2>1. ~body.ok /\ body.pos = Len(T) /\ NextWord(T, body) = body
    BY <1>2, <1>5 DEF ReadTo, NextWord
  <2>2. Len(T) < p + Start(line, i + 2) /\ i + 2 = i + 1 + 1
    BY <1>3, <1>4, <1>5
  <2>3. ~(Len(T) >= p + Start(line, i + 2))
    BY <1>3, <1>4, <2>2
  <2> QED
    BY <2>1, <2>2, <2>3 DEF ReadTo
<1>6. CASE Len(T) >= p + s
  <2>1. body.ok /\ body.fields = SubSeq(line.fields, 1, i) /\ body.pos = p + s
    BY <1>2, <1>6 DEF ReadTo
  <2>2. PICK q : q = p + s /\ q \in 0..Len(T)
    BY <1>3, <1>4, <1>6
  <2>3. /\ NextWord(T, body).ok <=> readword(T, q).ok
        /\ NextWord(T, body).fields = Append(body.fields, readword(T, q).string)
        /\ NextWord(T, body).pos = readword(T, q).pos
    BY <2>1, <2>2 DEF NextWord, Field
  <2>4. /\ Len(T) > q + Len(f) =>
              /\ readword(T, q).ok /\ readword(T, q).string = f
              /\ readword(T, q).pos = q + Len(f) + 1
        /\ Len(T) <= q + Len(f) => ~readword(T, q).ok /\ readword(T, q).pos = Len(T)
    BY <1>2, <1>3, <2>2, WordRead
  <2>5. Append(SubSeq(line.fields, 1, i), f) = SubSeq(line.fields, 1, i + 1)
    BY <1>1, <1>2, SubSeqGrows
  <2>6. p + Start(line, i + 1 + 1) = q + Len(f) + 1
    BY <1>3, <2>2
  <2>7. Len(T) > q + Len(f) <=> Len(T) >= q + Len(f) + 1
    BY <1>3, <1>4, <2>2
  <2>8. Len(T) <= q + Len(f) <=> Len(T) < q + Len(f) + 1
    BY <1>3, <1>4, <2>2
  <2> QED
    BY <2>1, <2>3, <2>4, <2>5, <2>6, <2>7, <2>8 DEF ReadTo
<1> QED
  BY <1>3, <1>4, <1>5, <1>6

\* The last field is the rest of the line; if it is empty, it is not read.
LEMMA LineStep ==
  ASSUME NEW T \in Seq(Chars), NEW p \in Nat, NEW line, IsLine(line), At(T, p, Text(line)),
         p + 4 <= Len(T), NEW i \in Nat, Len(line.fields) = i + 1,
         NEW body, ReadTo(T, p, line, body, i)
  PROVE  ReadToEnd(T, p, line, NextLine(T, body), i + 1)
<1>0. PICK b, e : b = NextLine(T, body) /\ e = p + Start(line, i + 2)
  OBVIOUS
<1> SUFFICES /\ line.fields[i + 1] # <<>> => ReadTo(T, p, line, b, i + 1)
             /\ line.fields[i + 1] = <<>> => ~b.ok /\ b.pos = IF Len(T) >= e THEN e ELSE Len(T)
  <2>1. i + 2 = i + 1 + 1
    OBVIOUS
  <2> QED
    BY <1>0, <2>1 DEF ReadToEnd
<1>1. PICK n : n = Len(line.fields) /\ n \in 0..3 /\ line.fields \in Seq(Seq(Chars \ {Newline}))
  BY FieldFacts DEF IsLine
<1>2. PICK f, s : f = line.fields[i + 1] /\ s = Start(line, i + 1)
  OBVIOUS
<1>3. /\ s \in Nat /\ Len(f) \in Nat /\ Start(line, i + 2) = s + Len(f) + 1
      /\ f \in Seq(Chars \ {Newline}) /\ At(T, p + s, Append(f, Newline))
  <2>1. PICK k : k = i + 1 /\ k \in 1..n /\ k \in 1..n + 1 /\ i + 2 = k + 1
    BY <1>1
  <2>2. s \in Nat
    BY <1>1, <1>2, <2>1, StartFacts
  <2>3. Len(f) \in Nat /\ Start(line, k + 1) = s + Len(f) + 1
    BY <1>1, <1>2, <2>1, StartFacts
  <2>4. At(T, p + s, Append(f, Stop(line, k)))
    BY <1>1, <1>2, <2>1, TextParts
  <2>5. Stop(line, k) = Newline
    BY <2>1 DEF Stop
  <2>6. f \in Seq(Chars \ {Newline})
    BY <1>1, <1>2, <2>1, FieldFacts
  <2> QED
    BY <2>1, <2>2, <2>3, <2>4, <2>5, <2>6
<1>4. Len(T) \in Nat
  BY LenProperties
<1>5. CASE Len(T) < p + s
  <2>1. ~body.ok /\ body.pos = Len(T) /\ NextLine(T, body) = body
    BY <1>2, <1>5 DEF ReadTo, NextLine
  <2>2. Len(T) < p + Start(line, i + 2) /\ i + 2 = i + 1 + 1
    BY <1>3, <1>4, <1>5
  <2>3. ~(Len(T) >= p + Start(line, i + 2))
    BY <1>3, <1>4, <2>2
  <2> QED
    BY <1>0, <2>1, <2>2, <2>3 DEF ReadTo
<1>6. CASE Len(T) >= p + s
  <2>1. body.ok /\ body.fields = SubSeq(line.fields, 1, i) /\ body.pos = p + s
    BY <1>2, <1>6 DEF ReadTo
  <2>2. PICK q : q = p + s /\ q \in 0..Len(T)
    BY <1>3, <1>4, <1>6
  <2>3. /\ NextLine(T, body).ok <=> readline(T, q).ok
        /\ NextLine(T, body).fields = Append(body.fields, readline(T, q).string)
        /\ NextLine(T, body).pos = readline(T, q).pos
    BY <2>1, <2>2 DEF NextLine, Field
  <2>4. /\ Len(T) > q + Len(f) =>
              /\ readline(T, q).ok <=> f # <<>>
              /\ readline(T, q).string = f
              /\ readline(T, q).pos = q + Len(f) + 1
        /\ Len(T) <= q + Len(f) => ~readline(T, q).ok /\ readline(T, q).pos = Len(T)
    BY <1>3, <2>2, LineRead
  <2>5. Append(SubSeq(line.fields, 1, i), f) = SubSeq(line.fields, 1, i + 1)
    BY <1>1, <1>2, SubSeqGrows
  <2>6. p + Start(line, i + 1 + 1) = q + Len(f) + 1 /\ i + 2 = i + 1 + 1
    BY <1>3, <2>2
  <2>7. Len(T) > q + Len(f) <=> Len(T) >= q + Len(f) + 1
    BY <1>3, <1>4, <2>2
  <2>8. Len(T) <= q + Len(f) <=> Len(T) < q + Len(f) + 1
    BY <1>3, <1>4, <2>2
  <2>9. Len(T) > q + Len(f) \/ Len(T) <= q + Len(f)
    BY <1>3, <1>4, <2>2
  <2>10. f # <<>> => ReadTo(T, p, line, NextLine(T, body), i + 1)
    BY <1>0, <2>1, <2>3, <2>4, <2>5, <2>6, <2>7, <2>8 DEF ReadTo
  <2>11. ASSUME f = <<>>
         PROVE  /\ ~NextLine(T, body).ok
                /\ NextLine(T, body).pos = IF Len(T) >= q + Len(f) + 1 THEN q + Len(f) + 1 ELSE Len(T)
    BY <2>3, <2>4, <2>7, <2>8, <2>9, <2>11
  <2> QED
    BY <1>2, <1>3, <1>0, <2>2, <2>6, <2>10, <2>11
<1> QED
  BY <1>3, <1>4, <1>5, <1>6

\* A SetAttribute without a value can be written, but not read.
NoValue(line) == line.op = "SetAttribute" /\ line.fields[3] = <<>>

\* The body of a record is read once all of it is there; one without a value is not, but
\* read to its end.
LEMMA BodyRead ==
  ASSUME NEW T \in Seq(Chars), NEW p \in Nat, NEW line, IsLine(line), line.op # "unsupported",
         At(T, p, Text(line)), p + 4 <= Len(T),
         NEW b, b = readBody(T, p + 4, OpCode(line.op)), NEW e, e = p + Len(Text(line))
  PROVE  /\ Len(T) >= e /\ ~NoValue(line) => b.ok /\ b.fields = line.fields /\ b.pos = e
         /\ Len(T) >= e /\ NoValue(line) => ~b.ok /\ b.pos = e
         /\ Len(T) < e => ~b.ok /\ b.pos = Len(T)
<1>1. Len(T) \in Nat /\ e \in Nat /\ e >= p + 5
  BY LenProperties, TextFacts
<1>2. PICK n : /\ n = Len(line.fields) /\ n \in 0..3 /\ (line.fields = <<>> <=> n = 0)
               /\ line.fields \in Seq(Seq(Chars \ {Newline}))
  BY FieldFacts DEF IsLine
<1>3. n # 0 => e = p + Start(line, n + 1)
  BY <1>2, TextFacts
<1>4. \A i \in 1..n : \/ line.fields[i] \in Words
                      \/ i = 3 /\ line.op = "SetAttribute"
                      \/ i = 3 /\ line.op = "LogHistoricalSequenceNumber" /\ line.fields[i] # <<>>
  BY <1>2 DEF IsLine
<1>5. PICK b0, b1, b2 : /\ b0 = [ok |-> TRUE, fields |-> <<>>, pos |-> p + 4]
                        /\ b1 = NextWord(T, b0) /\ b2 = NextWord(T, b1)
  OBVIOUS
<1>6. ReadTo(T, p, line, b0, 0)
  <2>1. Start(line, 0 + 1) = 4
    <3>1. Start(line, 1) = 4 /\ 0 + 1 = 1
      BY <1>2, StartFacts
    <3> QED
      BY <3>1
  <2>2. b0.ok /\ b0.fields = SubSeq(line.fields, 1, 0) /\ b0.pos = p + 4
    BY <1>2, <1>5, SubSeqGrows
  <2>3. ~(Len(T) < p + 4)
    BY <1>1
  <2> QED
    BY <2>1, <2>2, <2>3 DEF ReadTo
<1>7. n >= 1 => ReadTo(T, p, line, b1, 1)
  <2>1. SUFFICES ASSUME n >= 1 PROVE ReadTo(T, p, line, b1, 0 + 1)
    OBVIOUS
  <2>2. 0 \in 0..n - 1 /\ line.fields[0 + 1] \in Words
    BY <1>2, <1>4, <2>1
  <2> QED
    BY <1>2, <1>5, <1>6, <2>2, WordStep
<1>8. n >= 2 => ReadTo(T, p, line, b2, 2)
  <2>1. SUFFICES ASSUME n >= 2 PROVE ReadTo(T, p, line, b2, 1 + 1)
    OBVIOUS
  <2>2. 1 \in 0..n - 1 /\ line.fields[1 + 1] \in Words /\ ReadTo(T, p, line, b1, 1)
    BY <1>2, <1>4, <1>7, <2>1
  <2> QED
    BY <1>2, <1>5, <2>2, WordStep
<1>9. SubSeq(line.fields, 1, n) = line.fields
  BY <1>2, SubSeqGrows
<1>10. ASSUME n # 0, ReadTo(T, p, line, b, n), ~NoValue(line)
       PROVE  /\ Len(T) >= e => b.ok /\ b.fields = line.fields /\ b.pos = e
              /\ Len(T) < e => ~b.ok /\ b.pos = Len(T)
  BY <1>3, <1>9, <1>10 DEF ReadTo
<1>11. CASE line.op = "NewClassAd"
  <2>1. n = 3 /\ OpCode(line.op) = 101 /\ ~NoValue(line)
    BY <1>2, <1>11, FieldFacts DEF OpCode, NoValue
  <2>2. b = NextWord(T, b2)
    BY <1>5, <2>1 DEF readBody
  <2>3. 2 \in 0..n - 1 /\ line.fields[2 + 1] \in Words /\ ReadTo(T, p, line, b2, 2)
    BY <1>4, <1>8, <1>11, <2>1
  <2>4. ReadTo(T, p, line, b, 2 + 1)
    BY <1>2, <2>2, <2>3, WordStep
  <2> QED
    BY <1>10, <2>1, <2>4
<1>12. CASE line.op = "DestroyClassAd"
  <2>1. n = 1 /\ OpCode(line.op) = 102 /\ ~NoValue(line)
    BY <1>2, <1>12, FieldFacts DEF OpCode, NoValue
  <2>2. b = b1
    BY <1>5, <2>1 DEF readBody
  <2> QED
    BY <1>7, <1>10, <2>1, <2>2
<1>13. CASE line.op = "DeleteAttribute"
  <2>1. n = 2 /\ OpCode(line.op) = 104 /\ ~NoValue(line)
    BY <1>2, <1>13, FieldFacts DEF OpCode, NoValue
  <2>2. b = b2
    BY <1>5, <2>1 DEF readBody
  <2> QED
    BY <1>8, <1>10, <2>1, <2>2
<1>14. CASE line.op \in {"SetAttribute", "LogHistoricalSequenceNumber"}
  <2>1. n = 3 /\ OpCode(line.op) \in {103, 107}
    BY <1>2, <1>14, FieldFacts DEF OpCode
  <2>2. b = NextLine(T, b2)
    BY <1>5, <2>1 DEF readBody
  <2>3. Len(line.fields) = 2 + 1 /\ ReadTo(T, p, line, b2, 2)
    BY <1>2, <1>8, <2>1
  <2>4. /\ line.fields[3] # <<>> => ReadTo(T, p, line, b, 3)
        /\ line.fields[3] = <<>> =>
             ~b.ok /\ b.pos = IF Len(T) >= p + Start(line, 4) THEN p + Start(line, 4) ELSE Len(T)
    <3>1. PICK i : i = 2 /\ i \in Nat /\ Len(line.fields) = i + 1 /\ ReadTo(T, p, line, b2, i)
      BY <2>3
    <3>2. ReadToEnd(T, p, line, b, i + 1)
      BY <2>2, <3>1, LineStep
    <3>3. i + 1 = 3 /\ 3 + 1 = 4
      BY <3>1
    <3> QED
      BY <3>2, <3>3 DEF ReadToEnd
  <2>5. e = p + Start(line, 4)
    BY <1>3, <2>1
  <2>6. NoValue(line) <=> line.fields[3] = <<>>
    <3>1. line.op = "LogHistoricalSequenceNumber" => line.fields[3] # <<>>
      <4>1. <<>> \notin Words
        BY DEF Words
      <4> QED
        BY <1>4, <2>1, <4>1
    <3> QED
      BY <1>14, <3>1 DEF NoValue
  <2>7. CASE line.fields[3] # <<>>
    BY <1>10, <2>1, <2>4, <2>6, <2>7
  <2>8. CASE line.fields[3] = <<>>
    <3>1. ~b.ok /\ b.pos = IF Len(T) >= e THEN e ELSE Len(T)
      BY <2>4, <2>5, <2>8
    <3>2. Len(T) < e <=> ~(Len(T) >= e)
      BY <1>1
    <3> QED
      BY <2>6, <2>8, <3>1, <3>2
  <2> QED
    BY <2>7, <2>8
<1>15. CASE line.op \in {"BeginTransaction", "EndTransaction"}
  <2>1. n = 0 /\ OpCode(line.op) \in {105, 106} /\ ~NoValue(line)
    BY <1>2, <1>15, FieldFacts DEF OpCode, NoValue
  <2>2. PICK q : q = p + 4 /\ e = q + 1 /\ line.fields = <<>> /\ q <= Len(T) /\ q \in Nat
    <3>1. line.fields = <<>> /\ Len(Text(line)) = 5
      BY <1>2, <2>1, TextFacts
    <3>2. e = p + 4 + 1
      BY <3>1
    <3> QED
      BY <3>1, <3>2
  <2>3. /\ b.ok <=> CharAt(T, q + 1) = Newline
        /\ b.fields = <<>>
        /\ b.pos = IF q = Len(T) THEN q ELSE q + 1
    <3>1. PICK op : op = OpCode(line.op) /\ op \in {105, 106} /\ b = readBody(T, q, op)
      BY <2>1, <2>2
    <3>2. PICK ok : ok = (CharAt(T, q + 1) = Newline)
      OBVIOUS
    <3>3. b = [ok |-> ok, fields |-> <<>>, pos |-> IF q = Len(T) THEN q ELSE q + 1]
      BY SMTT(30), <3>1, <3>2 DEF readBody
    <3>4. b.ok = ok /\ b.fields = <<>> /\ b.pos = IF q = Len(T) THEN q ELSE q + 1
      BY <3>3
    <3> QED
      BY <3>2, <3>4
  <2>4. CASE Len(T) >= e
    <3>1. At(T, q, <<Newline>>)
      BY <2>2, TextParts
    <3>2. T[q + 1] = <<Newline>>[1]
      <4>1. 1 \in 1..Len(<<Newline>>) /\ q + 1 <= Len(T)
        BY <2>2, <2>4
      <4> QED
        BY <3>1, <4>1 DEF At
    <3>3. CharAt(T, q + 1) = Newline /\ q # Len(T)
      BY <1>1, <2>2, <2>4, <3>2 DEF CharAt
    <3> QED
      BY <1>1, <2>1, <2>2, <2>3, <2>4, <3>3
  <2>5. CASE Len(T) < e
    <3>1. q = Len(T) /\ ~(q + 1 <= Len(T))
      BY <1>1, <2>2, <2>5
    <3>2. CharAt(T, q + 1) # Newline
      BY <3>1, CharsAssumption DEF CharAt, Spaces, Bad
    <3> QED
      BY <1>1, <2>1, <2>3, <2>5, <3>1, <3>2
  <2> QED
    BY <1>1, <2>4, <2>5
<1> QED
  BY <1>11, <1>12, <1>13, <1>14, <1>15, FieldFacts DEF Ops, Records!KnownOps, Records!AdOps

-----------------------------------------------------------------------------
(***************************************************************************)
(* Reading a record.                                                       *)
(***************************************************************************)
\* At the end of the file there is no line to be read.
LEMMA LineAtEnd ==
  ASSUME NEW T \in Seq(Chars)
  PROVE  ~readline(T, Len(T)).ok /\ readline(T, Len(T)).eof
<1>1. PICK n, b, stops : n = Len(T) /\ n \in Nat /\ b = n + 1 /\ stops = {Newline, NUL}
  BY LenProperties
<1>2. b \in Nat /\ b \in b..Len(T) + 1 /\ ~(b <= Len(T)) /\ \A j \in b..b - 1 : T[j] \notin stops
  BY <1>1
<1>3. FirstIn(T, b, stops) = b
  BY <1>2, FirstInIs
<1>4. FirstIn(T, n + 1, {Newline, NUL}) = n + 1
  BY <1>1, <1>3
<1>5. /\ readline(T, n).ok <=> n + 1 > n + 1 /\ CharAt(T, n + 1) \notin Bad
      /\ readline(T, n).eof <=> n + 1 > Len(T)
  BY <1>4 DEF readline, Read
<1> QED
  BY <1>1, <1>5

\* There is nothing to recover from at the end of the file.
LEMMA RecoveryAtEnd ==
  ASSUME NEW T \in Seq(Chars)
  PROVE  Recovery(T, Len(T)) = "FILE_READ_EOF"
<1>1. PICK n : n = Len(T) /\ n \in Nat /\ ~readline(T, n).ok /\ readline(T, n).eof
  BY LineAtEnd, LenProperties
<1> DEFINE starts == {n} \cup {i \in n + 1 .. Len(T) : T[i] = Newline}
           Ends(i) == ~readline(T, i).ok \/ atoi(readline(T, i).string) = 106
<1>2. {i \in starts : Ends(i)} = {n}
  BY <1>1
<1>3. Min({n}) = n
  <2>1. PICK S : S = {n}
    OBVIOUS
  <2>2. S \subseteq Nat /\ n \in S /\ \A y \in S : n <= y
    BY <1>1, <2>1
  <2>3. Min(S) = n
    BY <2>2, MinIs
  <2> QED
    BY <2>1, <2>3
<1>4. Recovery(T, n) =
        IF ~readline(T, Min({i \in starts : Ends(i)})).ok /\ readline(T, Min({i \in starts : Ends(i)})).eof
        THEN "FILE_READ_EOF" ELSE "FILE_FATAL_ERROR"
  BY DEF Recovery
<1> QED
  BY <1>1, <1>2, <1>3, <1>4

\* What reading the record at a position gives: nothing before all of its header is
\* there; then nothing, or an error that ends the process, if it is not a record to read,
\* and once all of it is there, the record.
LEMMA EntryRead ==
  ASSUME NEW T \in Seq(Chars), NEW p \in 0..Len(T), NEW line, IsLine(line), At(T, p, Text(line)),
         NEW r, r = readTextEntry(T, p), NEW e, e = p + Len(Text(line))
  PROVE  /\ Len(T) < p + 4 => r.err = "FILE_READ_EOF" /\ r.pos = p
         /\ Len(T) >= p + 4 /\ line.op = "unsupported" => r.err = "FILE_READ_ERROR" /\ r.pos = p
         /\ Len(T) >= e /\ line.op # "unsupported" /\ ~NoValue(line) =>
              /\ r.err = "FILE_READ_SUCCESS" /\ r.pos = e
              /\ r.op = OpCode(line.op) /\ r.fields = line.fields
         /\ Len(T) >= e /\ line.op # "unsupported" /\ NoValue(line) =>
              r.err = Recovery(T, e) /\ r.pos = p
         /\ Len(T) >= p + 4 /\ Len(T) < e /\ line.op # "unsupported" =>
              r.err = "FILE_READ_EOF" /\ r.pos = p
<1>1. Len(T) \in Nat /\ p \in Nat /\ e \in Nat /\ e >= p + 5
  BY LenProperties, TextFacts
<1>2. PICK h : h = Header(line.op) /\ h \in Words /\ Len(h) = 3 /\ h \in Seq(Chars) /\ line.op \in Ops
  <2>1. Header(line.op) \in Seq(Chars \ Spaces) /\ Header(line.op) \in Words /\ Len(Header(line.op)) = 3
        /\ line.op \in Ops
    BY FieldFacts, HeaderIsWord DEF Words
  <2> QED
    BY <2>1, SeqMonotonic
<1>3. /\ Len(T) >= p + 4 => /\ readword(T, p).ok /\ readword(T, p).string = h
                            /\ readword(T, p).pos = p + 4
      /\ Len(T) < p + 4 => ~readword(T, p).ok
  <2>1. PICK t \in Spaces : At(T, p, Append(h, t))
    BY <1>1, <1>2, TextParts DEF Spaces
  <2>2. /\ Len(T) > p + Len(h) =>
              /\ readword(T, p).ok /\ readword(T, p).string = h
              /\ readword(T, p).pos = p + Len(h) + 1
        /\ Len(T) <= p + Len(h) => ~readword(T, p).ok
    BY <1>2, <2>1, WordRead
  <2>3. p + Len(h) + 1 = p + 4 /\ (Len(T) > p + Len(h) <=> Len(T) >= p + 4)
        /\ (Len(T) <= p + Len(h) <=> Len(T) < p + 4)
    BY <1>1, <1>2
  <2> QED
    BY <2>2, <2>3
<1>4. atoi(h) = OpCode(line.op)
  BY <1>2, AtoiOfHeader
<1>5. CASE Len(T) < p + 4
  <2>1. readTextEntry(T, p) = [err |-> "FILE_READ_EOF", op |-> 0, fields |-> <<>>, pos |-> p]
    BY <1>3, <1>5 DEF readTextEntry
  <2> QED
    BY <1>1, <1>5, <2>1
<1>6. CASE Len(T) >= p + 4 /\ line.op = "unsupported"
  <2>1. OpCode(line.op) = 999
    BY <1>6 DEF OpCode
  <2>2. readTextEntry(T, p) = [err |-> "FILE_READ_ERROR", op |-> 999, fields |-> <<>>, pos |-> p]
    BY <1>3, <1>4, <1>6, <2>1 DEF readTextEntry
  <2> QED
    BY <1>1, <1>6, <2>2
<1>7. CASE Len(T) >= p + 4 /\ line.op # "unsupported"
  <2>1. OpCode(line.op) \in 101..107
    BY <1>2, <1>7, OpCodes
  <2>2. PICK b : b = readBody(T, p + 4, OpCode(line.op))
    OBVIOUS
  <2>3. readTextEntry(T, p) =
          [err |-> IF b.ok THEN "FILE_READ_SUCCESS" ELSE Recovery(T, b.pos),
           op |-> OpCode(line.op), fields |-> b.fields,
           pos |-> IF b.ok THEN b.pos ELSE p]
    BY <1>3, <1>4, <1>7, <2>1, <2>2 DEF readTextEntry
  <2>4. /\ r.err = IF b.ok THEN "FILE_READ_SUCCESS" ELSE Recovery(T, b.pos)
        /\ r.op = OpCode(line.op) /\ r.fields = b.fields
        /\ r.pos = IF b.ok THEN b.pos ELSE p
    BY <2>3
  <2>5. /\ Len(T) >= e /\ ~NoValue(line) => b.ok /\ b.fields = line.fields /\ b.pos = e
        /\ Len(T) >= e /\ NoValue(line) => ~b.ok /\ b.pos = e
        /\ Len(T) < e => ~b.ok /\ b.pos = Len(T)
    BY <1>1, <1>7, <2>2, BodyRead
  <2>6. Recovery(T, Len(T)) = "FILE_READ_EOF"
    BY RecoveryAtEnd
  <2> QED
    BY <1>1, <1>7, <2>4, <2>5, <2>6
<1> QED
  BY <1>1, <1>5, <1>6, <1>7

\* At the end of the file there is no word to be read either.
LEMMA ReadAtEnd ==
  ASSUME NEW T \in Seq(Chars), NEW r, r = readTextEntry(T, Len(T))
  PROVE  r.err = "FILE_READ_EOF" /\ r.pos = Len(T)
<1>1. PICK n, b, spaces, stops :
         n = Len(T) /\ n \in Nat /\ b = n + 1 /\ spaces = {Space} /\ stops = Spaces \cup {NUL}
  BY LenProperties
<1>2. /\ b \in Nat /\ b \in b..Len(T) + 1 /\ ~(b <= Len(T))
      /\ (\A j \in b..b - 1 : T[j] \notin stops) /\ \A j \in b..b - 1 : T[j] \in spaces
  BY <1>1
<1>3. FirstIn(T, b, stops) = b
  BY <1>2, FirstInIs
<1>4. FirstNotIn(T, b, spaces) = b
  BY <1>2, FirstNotInIs
<1>5. FirstIn(T, n + 1, Spaces \cup {NUL}) = n + 1 /\ FirstNotIn(T, n + 1, {Space}) = n + 1
  BY <1>1, <1>3, <1>4
<1>6. readword(T, n).ok <=> n + 1 > n + 1 /\ CharAt(T, n + 1) \notin Bad
  BY <1>5 DEF readword, Read
<1>7. ~readword(T, n).ok
  BY <1>1, <1>6
<1>8. readTextEntry(T, n) = [err |-> "FILE_READ_EOF", op |-> 0, fields |-> <<>>, pos |-> n]
  BY <1>7 DEF readTextEntry
<1> QED
  BY <1>1, <1>8

\* What reading a record from a file of records can give, at the offset m.
ParserReads(f, m, r) ==
  /\ m >= Len(f) => r.err = "FILE_READ_EOF"
  /\ m < Len(f) /\ f[m + 1].op \notin Records!KnownOps => r.err = "FILE_READ_ERROR"
  /\ m < Len(f) /\ f[m + 1].op \in Records!KnownOps /\ f[m + 1].ok =>
       /\ r.err = "FILE_READ_SUCCESS"
       /\ r.parser.cur = Records!Entry(f[m + 1], m)
  /\ m < Len(f) /\ f[m + 1].op \in Records!KnownOps /\ ~f[m + 1].ok =>
       r.err = IF Records!Bracketed(f, m) THEN "FILE_FATAL_ERROR" ELSE "FILE_READ_EOF"
  /\ r.parser = [nextOffset |-> IF r.err = "FILE_READ_SUCCESS" THEN m + 1 ELSE m,
                 cur |-> r.parser.cur, last |-> r.parser.last]

\* That is what it gives.
LEMMA ParserRead ==
  ASSUME NEW f, Len(f) \in Nat, NEW m \in Nat, NEW c, NEW l,
         NEW p, p = [nextOffset |-> m, cur |-> c, last |-> l],
         NEW r, r = Records!readLogEntry(f, p)
  PROVE  ParserReads(f, m, r)
<1> USE DEF ParserReads
<1>1. p.nextOffset = m /\ p.cur = c /\ p.last = l
  OBVIOUS
<1>2. PICK rec, last, blank : /\ rec = f[m + 1]
                              /\ last = Records!Assign(Records!Init0(c.op), c)
                              /\ blank = [Records!Init0(rec.op) EXCEPT !.offset = m]
  OBVIOUS
<1>3. PICK begun : begun = [p EXCEPT !.last = last, !.cur = blank]
  OBVIOUS
<1>4. begun = [nextOffset |-> m, cur |-> blank, last |-> last]
  BY <1>3
<1>5. CASE m >= Len(f)
  <2>1. r = [err |-> "FILE_READ_EOF", parser |-> p]
    BY <1>1, <1>5 DEF Records!readLogEntry
  <2> QED
    BY <1>1, <1>5, <2>1
<1>6. CASE m < Len(f) /\ rec.op \notin Records!KnownOps
  <2>1. r = [err |-> "FILE_READ_ERROR", parser |-> begun]
    BY <1>1, <1>2, <1>3, <1>6 DEF Records!readLogEntry
  <2> QED
    BY <1>2, <1>4, <1>6, <2>1
<1>7. CASE m < Len(f) /\ rec.op \in Records!KnownOps /\ rec.ok
  <2>1. PICK entry : entry = Records!Entry(rec, m)
    OBVIOUS
  <2>2. r = [err |-> "FILE_READ_SUCCESS",
             parser |-> [begun EXCEPT !.cur = entry, !.nextOffset = m + 1]]
    BY <1>1, <1>2, <1>3, <1>7, <2>1 DEF Records!readLogEntry
  <2>3. r.parser = [nextOffset |-> m + 1, cur |-> entry, last |-> last]
    <3>1. PICK next : next = m + 1
      OBVIOUS
    <3>2. [begun EXCEPT !.cur = entry, !.nextOffset = next] = [nextOffset |-> next, cur |-> entry, last |-> last]
      <4>1. PICK read : read = [begun EXCEPT !.cur = entry]
        OBVIOUS
      <4>2. read = [nextOffset |-> m, cur |-> entry, last |-> last]
        BY <1>4, <4>1
      <4>3. [begun EXCEPT !.cur = entry, !.nextOffset = next] = [read EXCEPT !.nextOffset = next]
        BY <1>4, <4>1
      <4> QED
        BY <4>2, <4>3
    <3> QED
      BY <2>2, <3>1, <3>2
  <2> QED
    BY <1>2, <1>7, <2>1, <2>2, <2>3
<1>8. CASE m < Len(f) /\ rec.op \in Records!KnownOps /\ ~rec.ok
  <2>1. CASE Records!Bracketed(f, m)
    <3>1. r = [err |-> "FILE_FATAL_ERROR", parser |-> begun]
      BY <1>1, <1>2, <1>3, <1>8, <2>1 DEF Records!readLogEntry
    <3> QED
      BY <1>2, <1>4, <1>8, <2>1, <3>1
  <2>2. CASE ~Records!Bracketed(f, m)
    <3>1. PICK again : again = [Records!Assign(begun.cur, begun.last) EXCEPT !.offset = m]
      OBVIOUS
    <3>2. Records!Rewound(begun, m) = [nextOffset |-> m, cur |-> again, last |-> last]
      BY <1>4, <3>1 DEF Records!Rewound
    <3>3. r = [err |-> "FILE_READ_EOF", parser |-> Records!Rewound(begun, m)]
      BY <1>1, <1>2, <1>3, <1>8, <2>2 DEF Records!readLogEntry
    <3> QED
      BY <1>2, <1>8, <2>2, <3>2, <3>3
  <2> QED
    BY <2>1, <2>2
<1> QED
  BY <1>2, <1>5, <1>6, <1>7, <1>8

-----------------------------------------------------------------------------
(***************************************************************************)
(* What is in the file.                                                    *)
(***************************************************************************)
\* The records lie one behind the other, and all but the last one are whole.
LEMMA WrittenFacts ==
  ASSUME WrittenInv, NEW n, n = Len(log)
  PROVE  /\ n \in Nat /\ Len(file) \in Nat /\ Begin(1) = 0
         /\ \A i \in 1..n : /\ log[i] \in Lines /\ IsLine(log[i])
                            /\ ends[i] \in Nat /\ Begin(i + 1) = ends[i]
                            /\ ends[i] = Begin(i) + Len(Text(log[i])) /\ ends[i] >= Begin(i) + 5
                            /\ Begin(i) <= Len(file)
                            /\ i < n => ends[i] <= Len(file)
                            /\ At(file, Begin(i), Text(log[i]))
         /\ \A i \in 1..n + 1 : Begin(i) \in Nat
         /\ Len(file) <= Begin(n + 1)
         /\ \A i, j \in 1..n : i < j => ends[i] <= Begin(j)
<1>1. /\ n \in Nat /\ Len(file) \in Nat /\ Len(ends) = n
      /\ \A i \in 1..n : log[i] \in Lines /\ ends[i] \in Nat
  BY LenProperties, ElementOfSeq DEF WrittenInv
<1>2. \A i \in 1..n : IsLine(log[i])
  BY <1>1, LinesAssumption
<1>3. Begin(1) = 0 /\ \A i \in 1..n : Begin(i + 1) = ends[i]
  BY <1>1 DEF Begin
<1>4. \A i \in 1..n + 1 : Begin(i) \in Nat
  BY <1>1 DEF Begin
<1>5. /\ \A i \in 1..n : ends[i] = Begin(i) + Len(Text(log[i])) /\ At(file, Begin(i), Text(log[i]))
      /\ \A i, j \in 1..n : i < j => ends[i] <= Begin(j)
  BY DEF WrittenInv
<1>6. \A i \in 1..n : Len(Text(log[i])) \in Nat /\ Len(Text(log[i])) >= 5
  BY <1>2, TextFacts
<1>7. \A i \in 1..n : ends[i] >= Begin(i) + 5
  <2>1. SUFFICES ASSUME NEW i \in 1..n PROVE ends[i] >= Begin(i) + 5
    OBVIOUS
  <2>2. Begin(i) \in Nat /\ Len(Text(log[i])) \in Nat /\ Len(Text(log[i])) >= 5
    BY <1>1, <1>4, <1>6
  <2> QED
    BY <1>5, <2>2
<1>8. Len(file) <= Begin(n + 1) /\ (n # 0 => Begin(n) <= Len(file))
  <2>1. log = <<>> <=> n = 0
    BY EmptySeq DEF WrittenInv
  <2>2. Begin(n + 1) \in Nat /\ (n # 0 => Begin(n) \in Nat)
    BY <1>1, <1>4
  <2> QED
    BY <2>1, <2>2 DEF WrittenInv
<1>9. ASSUME NEW i \in 1..n
      PROVE  Begin(i) <= Len(file) /\ (i < n => ends[i] <= Len(file))
  <2>1. n # 0 /\ n \in 1..n /\ Begin(i) \in Nat /\ Begin(n) \in Nat /\ ends[i] \in Nat /\ Begin(n) <= Len(file)
    BY <1>1, <1>4, <1>8
  <2>2. CASE i = n
    BY <1>1, <2>1, <2>2
  <2>3. CASE i < n
    <3>1. ends[i] <= Begin(n) /\ ends[i] >= Begin(i) + 5
      BY <1>5, <1>7, <2>1, <2>3
    <3> QED
      BY <1>1, <2>1, <3>1
  <2> QED
    BY <1>1, <2>2, <2>3
<1> QED
  BY <1>1, <1>2, <1>3, <1>4, <1>5, <1>7, <1>8, <1>9

\* What ClassAdLogParser sees of it: the records of whose header all is there.
LEMMA RecordsFacts ==
  ASSUME WrittenInv, NEW n, n = Len(log)
  PROVE  /\ Len(records) \in Nat /\ Len(records) <= n
         /\ \A i \in 1..n : i <= Len(records) <=> Len(file) >= Begin(i) + 4
         /\ \A i \in 1..Len(records) :
              /\ records[i].op = log[i].op
              /\ records[i].key = FieldOf(log[i], 1)
              /\ records[i].name = FieldOf(log[i], 2)
              /\ records[i].value = FieldOf(log[i], 3)
              /\ records[i].ok <=> Len(file) >= ends[i] /\ ~NoValue(log[i])
<1>1. /\ n \in Nat /\ Len(file) \in Nat
      /\ \A i \in 1..n : /\ IsLine(log[i]) /\ Begin(i) \in Nat /\ ends[i] \in Nat
                         /\ ends[i] >= Begin(i) + 5
                         /\ i < n => ends[i] <= Len(file)
  BY WrittenFacts
<1>2. \A i \in 1..n : Seen(i) <=> Len(file) >= Begin(i) + 4
  <2>1. SUFFICES ASSUME NEW i \in 1..n PROVE Seen(i) <=> Len(file) >= Begin(i) + 4
    OBVIOUS
  <2>2. Len(Header(log[i].op)) = 3
    BY <1>1, FieldFacts, HeaderIsWord
  <2>3. Begin(i) \in Nat
    BY <1>1
  <2> QED
    BY <1>1, <2>2, <2>3 DEF Seen
<1>3. \A i \in 1..n : i < n => Seen(i)
  <2>1. SUFFICES ASSUME NEW i \in 1..n, i < n PROVE Len(file) >= Begin(i) + 4
    BY <1>2
  <2>2. Begin(i) \in Nat /\ ends[i] \in Nat /\ ends[i] >= Begin(i) + 5 /\ ends[i] <= Len(file)
    BY <1>1, <2>1
  <2> QED
    BY <1>1, <2>2
<1>4. PICK k \in Nat : k <= n /\ \A i \in 1..n : i <= k <=> Seen(i)
  <2>1. CASE n = 0
    BY <2>1
  <2>2. CASE n > 0 /\ Seen(n)
    <3>1. \A i \in 1..n : i < n \/ i = n
      BY <1>1
    <3>2. \A i \in 1..n : Seen(i)
      BY <1>3, <2>2, <3>1
    <3>3. n \in Nat /\ n <= n /\ \A i \in 1..n : i <= n <=> Seen(i)
      BY <1>1, <3>2
    <3> QED
      BY <3>3
  <2>3. CASE n > 0 /\ ~Seen(n)
    <3>1. n - 1 \in Nat /\ n - 1 <= n
      BY <1>1, <2>3
    <3>2. \A i \in 1..n : i <= n - 1 <=> Seen(i)
      BY <1>1, <1>3, <2>3
    <3> QED
      BY <3>1, <3>2
  <2>4. n = 0 \/ n > 0
    BY <1>1
  <2> QED
    BY <2>1, <2>2, <2>3, <2>4
<1>5. {j \in 1..n : Seen(j)} = 1..k
  BY <1>1, <1>4
<1>6. records = [i \in 1..k |-> AsRecord(i)]
  BY <1>5 DEF records
<1>7. Len(records) = k /\ \A i \in 1..k : records[i] = AsRecord(i)
  <2>1. records \in [1..k -> {AsRecord(i) : i \in 1..k}]
    BY <1>6
  <2>2. records \in Seq({AsRecord(i) : i \in 1..k}) /\ DOMAIN records = 1..k
    BY <2>1, SeqDef
  <2> QED
    BY <1>6, <2>2, LenProperties
<1>8. ASSUME NEW i \in 1..k
      PROVE  /\ AsRecord(i).op = log[i].op
             /\ AsRecord(i).key = FieldOf(log[i], 1)
             /\ AsRecord(i).name = FieldOf(log[i], 2)
             /\ AsRecord(i).value = FieldOf(log[i], 3)
             /\ AsRecord(i).ok <=> Len(file) >= ends[i] /\ ~NoValue(log[i])
  <2>1. PICK ok : ok = /\ Len(file) >= ends[i]
                       /\ log[i].op = "SetAttribute" => FieldOf(log[i], 3) # <<>>
    OBVIOUS
  <2>2. AsRecord(i) = [op |-> log[i].op, key |-> FieldOf(log[i], 1), name |-> FieldOf(log[i], 2),
                       value |-> FieldOf(log[i], 3), ok |-> ok]
    BY <2>1, Zenon DEF AsRecord
  <2>3. log[i].op = "SetAttribute" => FieldOf(log[i], 3) = log[i].fields[3]
    <3>1. log[i].op = "SetAttribute" => Len(log[i].fields) = 3
      BY <1>1, <1>4, FieldFacts
    <3> QED
      BY <3>1 DEF FieldOf
  <2>4. ok <=> Len(file) >= ends[i] /\ ~NoValue(log[i])
    BY <2>1, <2>3 DEF NoValue
  <2>5. AsRecord(i).ok = ok
    BY <2>2
  <2> QED
    BY <2>2, <2>4, <2>5
<1> QED
  BY <1>1, <1>2, <1>4, <1>7, <1>8

\* The recovery ends with one of two results.
LEMMA RecoveryErrors ==
  ASSUME NEW T, NEW p
  PROVE  Recovery(T, p) \in {"FILE_READ_EOF", "FILE_FATAL_ERROR"}
BY Zenon DEF Recovery

\* The results of both are the same, unless record m + 1 is one to be recovered from.
SameError(m, text, record) ==
  \/ text.err = record.err
  \/ /\ m < Len(log) /\ log[m + 1].op # "unsupported" /\ NoValue(log[m + 1])
     /\ Len(file) >= ends[m + 1]
     /\ text.err = Recovery(file, ends[m + 1])
     /\ record.err = IF Records!Bracketed(records, m) THEN "FILE_FATAL_ERROR" ELSE "FILE_READ_EOF"

\* One call of readLogEntry, on the characters and on the records: each reads the next
\* record if it can be read, and its result is the same, unless a record without a value
\* is to be recovered from.
LEMMA Reading ==
  ASSUME TextInv, NEW n, n = Len(log), NEW m, m = Len(entries),
         NEW text, text = readTextEntry(file, offset),
         NEW record, record = Records!readLogEntry(records, parser)
  PROVE  /\ m \in Nat /\ n \in Nat /\ m <= n
         /\ record.parser = [nextOffset |-> IF record.err = "FILE_READ_SUCCESS" THEN m + 1 ELSE m,
                             cur |-> record.parser.cur, last |-> record.parser.last]
         /\ text.err = "FILE_READ_SUCCESS" =>
              /\ m < n /\ Len(file) >= ends[m + 1]
              /\ text.pos = ends[m + 1]
              /\ text.op = OpCode(log[m + 1].op) /\ text.fields = log[m + 1].fields
              /\ record.parser.cur.op = log[m + 1].op
              /\ record.parser.cur.key = FieldOf(log[m + 1], 1)
              /\ record.parser.cur.name = FieldOf(log[m + 1], 2)
              /\ record.parser.cur.value = FieldOf(log[m + 1], 3)
         /\ text.err # "FILE_READ_SUCCESS" => text.pos = offset
         /\ text.err = "FILE_READ_SUCCESS" <=> record.err = "FILE_READ_SUCCESS"
         /\ SameError(m, text, record)
<1> USE DEF SameError
<1>1. /\ m \in Nat /\ n \in Nat /\ m <= n /\ Len(file) \in Nat /\ file \in Seq(Chars)
      /\ offset = Begin(m + 1) /\ offset <= Len(file)
      /\ Begin(n + 1) \in Nat /\ Len(file) <= Begin(n + 1)
  <2>1. m \in Nat
    BY LenProperties DEF TextInv, ReaderInv
  <2>2. n \in Nat /\ Len(file) \in Nat /\ Len(file) <= Begin(n + 1) /\ Begin(n + 1) \in Nat
    <3>1. n \in Nat /\ Len(file) \in Nat /\ Len(file) <= Begin(n + 1) /\ \A i \in 1..n + 1 : Begin(i) \in Nat
      BY WrittenFacts DEF TextInv
    <3> QED
      BY <3>1
  <2> QED
    BY <2>1, <2>2 DEF TextInv, ReaderInv, WrittenInv, EntriesAreWritten
<1>2. /\ Len(records) \in Nat /\ Len(records) <= n
      /\ \A i \in 1..n : i <= Len(records) <=> Len(file) >= Begin(i) + 4
      /\ \A i \in 1..Len(records) :
              /\ records[i].op = log[i].op
              /\ records[i].key = FieldOf(log[i], 1)
              /\ records[i].name = FieldOf(log[i], 2)
              /\ records[i].value = FieldOf(log[i], 3)
              /\ records[i].ok <=> Len(file) >= ends[i] /\ ~NoValue(log[i])
  BY RecordsFacts DEF TextInv
<1>3. PICK c, l : parser = [nextOffset |-> m, cur |-> c, last |-> l]
  BY DEF TextInv, ReaderInv
<1>4. /\ m >= Len(records) => record.err = "FILE_READ_EOF"
      /\ m < Len(records) /\ records[m + 1].op \notin Records!KnownOps => record.err = "FILE_READ_ERROR"
      /\ m < Len(records) /\ records[m + 1].op \in Records!KnownOps /\ records[m + 1].ok =>
              /\ record.err = "FILE_READ_SUCCESS"
              /\ record.parser.cur = Records!Entry(records[m + 1], m)
      /\ m < Len(records) /\ records[m + 1].op \in Records!KnownOps /\ ~records[m + 1].ok =>
              record.err = IF Records!Bracketed(records, m) THEN "FILE_FATAL_ERROR" ELSE "FILE_READ_EOF"
      /\ record.parser = [nextOffset |-> IF record.err = "FILE_READ_SUCCESS" THEN m + 1 ELSE m,
                          cur |-> record.parser.cur, last |-> record.parser.last]
  <2>1. ParserReads(records, m, record)
    BY <1>1, <1>2, <1>3, ParserRead
  <2> QED
    BY <2>1 DEF ParserReads
<1>5. CASE m = n
  <2>1. offset = Len(file)
    BY <1>1, <1>5
  <2>2. text.err = "FILE_READ_EOF" /\ text.pos = Len(file)
    BY <1>1, <2>1, ReadAtEnd
  <2>3. record.err = "FILE_READ_EOF"
    BY <1>2, <1>4, <1>5
  <2> QED
    BY <1>1, <1>4, <2>1, <2>2, <2>3
<1>6. CASE m < n
  <2>1. PICK i, line : /\ i = m + 1 /\ line = log[i] /\ i \in 1..n
    BY <1>1, <1>6
  <2>2. /\ IsLine(line) /\ offset \in 0..Len(file) /\ ends[i] \in Nat /\ ends[i] >= offset + 5
        /\ At(file, offset, Text(line)) /\ ends[i] = offset + Len(Text(line))
        /\ i < n => ends[i] <= Len(file)
    <3>1. /\ IsLine(line) /\ ends[i] \in Nat /\ ends[i] = Begin(i) + Len(Text(line)) /\ ends[i] >= Begin(i) + 5
          /\ At(file, Begin(i), Text(line)) /\ Begin(i) \in Nat
          /\ i < n => ends[i] <= Len(file)
      <4>1. i \in 1..n + 1
        BY <1>1, <2>1
      <4> QED
        BY <2>1, <4>1, WrittenFacts DEF TextInv
    <3> QED
      BY <1>1, <2>1, <3>1
  <2>3. /\ Len(file) < offset + 4 => text.err = "FILE_READ_EOF" /\ text.pos = offset
        /\ Len(file) >= offset + 4 /\ line.op = "unsupported" =>
              text.err = "FILE_READ_ERROR" /\ text.pos = offset
        /\ Len(file) >= ends[i] /\ line.op # "unsupported" /\ ~NoValue(line) =>
              /\ text.err = "FILE_READ_SUCCESS" /\ text.pos = ends[i]
              /\ text.op = OpCode(line.op) /\ text.fields = line.fields
        /\ Len(file) >= ends[i] /\ line.op # "unsupported" /\ NoValue(line) =>
              text.err = Recovery(file, ends[i]) /\ text.pos = offset
        /\ Len(file) >= offset + 4 /\ Len(file) < ends[i] /\ line.op # "unsupported" =>
              text.err = "FILE_READ_EOF" /\ text.pos = offset
    BY SMTT(30), <1>1, <2>2, EntryRead
  <2>4. line.op \in Records!KnownOps <=> line.op # "unsupported"
    <3>1. line.op \in Records!KnownOps \cup {"unsupported"}
      BY <2>2 DEF IsLine
    <3>2. "unsupported" \notin Records!KnownOps
      BY DEF Records!KnownOps, Records!AdOps
    <3> QED
      BY <3>1, <3>2
  <2>5. m < Len(records) <=> Len(file) >= offset + 4
    <3>1. i <= Len(records) <=> Len(file) >= Begin(i) + 4
      BY <1>2, <2>1
    <3> QED
      BY <1>1, <1>2, <2>1, <3>1
  <2>6. m < Len(records) =>
          /\ records[i].op = line.op
          /\ records[i].key = FieldOf(line, 1)
          /\ records[i].name = FieldOf(line, 2)
          /\ records[i].value = FieldOf(line, 3)
          /\ records[i].ok <=> Len(file) >= ends[i] /\ ~NoValue(line)
    <3>1. m < Len(records) => i \in 1..Len(records)
      BY <1>1, <1>2, <2>1
    <3> QED
      BY <1>2, <2>1, <3>1
  <2>7. CASE Len(file) < offset + 4
    <3>1. ~(m < Len(records)) /\ m >= Len(records)
      BY <1>1, <1>2, <2>2, <2>5, <2>7
    <3> QED
      BY <1>1, <1>4, <2>3, <2>7, <3>1
  <2>8. CASE Len(file) >= offset + 4 /\ line.op = "unsupported"
    <3>1. record.err = "FILE_READ_ERROR"
      BY <1>4, <2>1, <2>4, <2>5, <2>6, <2>8
    <3> QED
      BY <1>1, <1>4, <2>3, <2>8, <3>1
  <2>9. CASE Len(file) >= ends[i] /\ line.op # "unsupported" /\ ~NoValue(line)
    <3>1. Len(file) >= offset + 4
      BY <1>1, <2>2, <2>9
    <3>2. record.err = "FILE_READ_SUCCESS" /\ record.parser.cur = Records!Entry(records[i], m)
      BY <1>4, <2>1, <2>4, <2>5, <2>6, <2>9, <3>1
    <3>3. /\ record.parser.cur.op = line.op
          /\ record.parser.cur.key = FieldOf(line, 1)
          /\ record.parser.cur.name = FieldOf(line, 2)
          /\ record.parser.cur.value = FieldOf(line, 3)
      BY <2>5, <2>6, <3>1, <3>2 DEF Records!Entry
    <3> QED
      BY <1>1, <1>4, <1>6, <2>1, <2>3, <2>9, <3>2, <3>3
  <2>10. CASE Len(file) >= ends[i] /\ line.op # "unsupported" /\ NoValue(line)
    <3>1. Len(file) >= offset + 4
      BY <1>1, <2>2, <2>10
    <3>2. record.err = IF Records!Bracketed(records, m) THEN "FILE_FATAL_ERROR" ELSE "FILE_READ_EOF"
      BY <1>4, <2>1, <2>4, <2>5, <2>6, <2>10, <3>1
    <3>3. text.err = Recovery(file, ends[i]) /\ text.pos = offset
      BY <2>3, <2>10
    <3>4. text.err # "FILE_READ_SUCCESS" /\ record.err # "FILE_READ_SUCCESS"
      BY <3>2, <3>3, RecoveryErrors
    <3> QED
      BY <1>1, <1>4, <1>6, <2>1, <2>10, <3>2, <3>3, <3>4
  <2>11. CASE Len(file) >= offset + 4 /\ Len(file) < ends[i] /\ line.op # "unsupported"
    <3>1. i = n
      BY <1>1, <2>1, <2>2, <2>11
    <3>2. ~Records!Bracketed(records, m)
      <4>1. \A k \in m + 2 .. Len(records) : FALSE
        BY <1>1, <1>2, <2>1, <3>1
      <4> QED
        BY <4>1 DEF Records!Bracketed
    <3>3. ~(Len(file) >= ends[i])
      BY <1>1, <2>2, <2>11
    <3>4. record.err = "FILE_READ_EOF"
      BY <1>4, <2>1, <2>4, <2>5, <2>6, <2>11, <3>2, <3>3
    <3> QED
      BY <1>1, <1>4, <2>3, <2>11, <3>4
  <2>12. \/ Len(file) < offset + 4
         \/ Len(file) >= offset + 4 /\ Len(file) < ends[i]
         \/ Len(file) >= offset + 4 /\ Len(file) >= ends[i]
    BY SMTT(30), <1>1, <2>2
  <2> QED
    BY <2>7, <2>8, <2>9, <2>10, <2>11, <2>12
<1> QED
  BY <1>1, <1>5, <1>6

-----------------------------------------------------------------------------
(***************************************************************************)
(* The invariant.                                                          *)
(***************************************************************************)
\* Nothing is written or read at first.
LEMMA InitText == Init => TextInv
<1> SUFFICES ASSUME Init PROVE TextInv
  OBVIOUS
<1>1. WrittenInv
  <2>1. log = <<>> /\ ends = <<>> /\ file = <<>> /\ Len(log) = 0 /\ Len(ends) = 0 /\ Len(file) = 0
    BY DEF Init
  <2>2. Begin(Len(log) + 1) = 0
    BY <2>1 DEF Begin
  <2> QED
    BY <2>1, <2>2 DEF WrittenInv
<1>2. ReaderInv
  <2>1. entries = <<>> /\ offset = 0 /\ file = <<>> /\ aborted = FALSE /\ parser = Records!Parser0
    BY DEF Init
  <2>2. entries \in Seq([op : Nat, fields : Seq(Seq(Chars))]) /\ Len(entries) = 0 /\ offset <= Len(file)
    BY <2>1
  <2>3. parser = [nextOffset |-> Len(entries), cur |-> parser.cur, last |-> parser.last]
    BY <2>1, <2>2 DEF Records!Parser0
  <2> QED
    BY <2>1, <2>2, <2>3 DEF ReaderInv
<1>3. EntriesAreWritten
  <2>1. entries = <<>> /\ log = <<>> /\ Len(entries) = 0 /\ Len(log) = 0 /\ offset = 0
    BY DEF Init
  <2>2. Begin(Len(entries) + 1) = 0
    BY <2>1 DEF Begin
  <2> QED
    BY <2>1, <2>2 DEF EntriesAreWritten
<1> QED
  BY <1>1, <1>2, <1>3 DEF TextInv

\* A new record begins where the file ends.
LEMMA BeginKeepsWritten ==
  ASSUME WrittenInv, NEW line \in Lines, BeginRecord(line), NEW n, n = Len(log)
  PROVE  /\ WrittenInv'
         /\ Len(log') = n + 1 /\ \A i \in 1..n : log'[i] = log[i]
         /\ \A i \in 1..n + 1 : Begin(i)' = Begin(i)
<1>1. /\ n \in Nat /\ Len(file) \in Nat
      /\ \A i \in 1..n : /\ log[i] \in Lines /\ ends[i] \in Nat /\ Begin(i + 1) = ends[i]
                         /\ ends[i] = Begin(i) + Len(Text(log[i])) /\ ends[i] >= Begin(i) + 5
                         /\ At(file, Begin(i), Text(log[i]))
                         /\ ends[i] <= Len(file)
      /\ \A i \in 1..n + 1 : Begin(i) \in Nat
      /\ \A i, j \in 1..n : i < j => ends[i] <= Begin(j)
  <2>1. Len(file) = Begin(n + 1)
    BY DEF BeginRecord, AllWritten
  <2>2. \A i \in 1..n : ends[i] <= Len(file)
    <3>1. SUFFICES ASSUME NEW i \in 1..n PROVE ends[i] <= Len(file)
      OBVIOUS
    <3>2. n \in Nat /\ Len(file) \in Nat /\ (i < n => ends[i] <= Len(file)) /\ Begin(i + 1) = ends[i]
      BY WrittenFacts
    <3> QED
      BY <2>1, <3>2
  <2> QED
    BY <2>2, WrittenFacts
<1>2. PICK k : k = Len(Text(line)) /\ k \in Nat /\ k >= 5
  BY LinesAssumption, TextFacts
<1>3. /\ log' = Append(log, line) /\ ends' = Append(ends, Len(file) + k) /\ file' = file
      /\ Len(file) = Begin(n + 1) /\ log \in Seq(Lines) /\ ends \in Seq(Nat) /\ Len(ends) = n
      /\ file \in Seq(Chars) /\ Len(file) + k \in Nat
  BY <1>1, <1>2 DEF BeginRecord, AllWritten, WrittenInv
<1>4. /\ Len(log') = n + 1 /\ log'[n + 1] = line /\ log' \in Seq(Lines)
      /\ \A i \in 1..n : log'[i] = log[i]
  BY <1>1, <1>3, AppendProperties
<1>5. /\ Len(ends') = n + 1 /\ ends'[n + 1] = Len(file) + k /\ ends' \in Seq(Nat)
      /\ \A i \in 1..n : ends'[i] = ends[i]
  BY <1>1, <1>3, AppendProperties
<1>6. \A i \in 1..n + 1 : Begin(i)' = Begin(i)
  <2>1. SUFFICES ASSUME NEW i \in 1..n + 1 PROVE Begin(i)' = Begin(i)
    OBVIOUS
  <2>2. i # 1 => i - 1 \in 1..n
    BY <1>1
  <2> QED
    BY <1>5, <2>2 DEF Begin
<1>7. Begin(n + 2)' = Len(file) + k
  <2>1. n + 2 # 1 /\ n + 2 - 1 = n + 1
    BY <1>1
  <2> QED
    BY <1>5, <2>1 DEF Begin
<1>8. ASSUME NEW i \in 1..n + 1
      PROVE  /\ ends'[i] = Begin(i)' + Len(Text(log'[i])) /\ At(file', Begin(i)', Text(log'[i]))
  <2>1. CASE i \in 1..n
    BY <1>1, <1>3, <1>4, <1>5, <1>6, <2>1
  <2>2. CASE i = n + 1
    <3>1. ends'[i] = Begin(i)' + Len(Text(log'[i]))
      BY <1>2, <1>3, <1>4, <1>5, <1>6, <2>2
    <3>2. Begin(i)' = Len(file) /\ Text(log'[i]) = Text(line)
      BY <1>3, <1>4, <1>6, <2>2
    <3>3. At(file, Len(file), Text(line))
      <4>1. \A j \in 1..Len(Text(line)) : ~(Len(file) + j <= Len(file))
        BY <1>1, <1>2
      <4> QED
        BY <4>1 DEF At
    <3> QED
      BY <1>3, <3>1, <3>2, <3>3
  <2> QED
    BY <1>1, <2>1, <2>2
<1>9. ASSUME NEW i \in 1..n + 1, NEW j \in 1..n + 1, i < j
      PROVE  ends'[i] <= Begin(j)'
  <2>1. i \in 1..n /\ ends'[i] = ends[i] /\ ends[i] \in Nat /\ Begin(j)' = Begin(j)
    <3>1. n \in Nat /\ \A x \in 1..n : ends[x] \in Nat
      BY <1>1
    <3>2. i \in 1..n
      BY <1>9, <3>1
    <3>3. Begin(j)' = Begin(j)
      BY <1>6
    <3> QED
      BY <1>5, <3>1, <3>2, <3>3
  <2>2. CASE j \in 1..n
    BY <1>1, <1>9, <2>1, <2>2
  <2>3. CASE j = n + 1
    BY <1>1, <1>3, <2>1, <2>3
  <2> QED
    BY <1>1, <2>2, <2>3
<1>10. Len(file') \in (IF log' = <<>> THEN 0 ELSE Begin(Len(log))') .. Begin(Len(log) + 1)'
  <2>1. log' # <<>>
    BY <1>1, <1>3, <1>4
  <2>2. Begin(Len(log))' = Len(file)
    <3>1. Begin(Len(log))' = Begin(n + 1)'
      BY <1>4 DEF Begin
    <3> QED
      BY <1>1, <1>3, <1>6, <3>1
  <2>3. Begin(Len(log) + 1)' = Len(file) + k
    <3>1. Begin(Len(log) + 1)' = Begin(n + 2)'
      <4>1. Len(log') + 1 = n + 2
        BY <1>1, <1>4
      <4> QED
        BY <4>1 DEF Begin
    <3> QED
      BY <1>7, <3>1
  <2> QED
    BY <1>1, <1>2, <1>3, <2>1, <2>2, <2>3
<1>11. \A i \in 1..Len(file') : file'[i] = Newline => \E j \in 1..Len(log') : i = ends'[j]
  <2>1. SUFFICES ASSUME NEW i \in 1..Len(file), file[i] = Newline
                 PROVE  \E j \in 1..n + 1 : i = ends'[j]
    BY <1>3, <1>4
  <2>2. PICK j \in 1..n : i = ends[j]
    BY <2>1 DEF WrittenInv
  <2>3. j \in 1..n + 1 /\ i = ends'[j]
    BY <1>1, <1>5, <2>2
  <2> QED
    BY <2>3
<1>12. WrittenInv'
  <2>1. log' \in Seq(Lines) /\ ends' \in Seq(Nat) /\ file' \in Seq(Chars) /\ Len(ends') = Len(log')
    BY <1>3, <1>4, <1>5
  <2>2. \A i \in 1..Len(log') :
          ends'[i] = Begin(i)' + Len(Text(log'[i])) /\ At(file', Begin(i)', Text(log'[i]))
    BY <1>4, <1>8
  <2>3. \A i, j \in 1..Len(log') : i < j => ends'[i] <= Begin(j)'
    BY <1>4, <1>9
  <2> QED
    BY <1>10, <1>11, <2>1, <2>2, <2>3 DEF WrittenInv
<1> QED
  BY <1>4, <1>6, <1>12

\* A character is written: it is the next one of the last record.
LEMMA WriteKeepsWritten ==
  ASSUME WrittenInv, WriteChar
  PROVE  WrittenInv' /\ log' = log /\ ends' = ends /\ Len(file) <= Len(file')
<1>1. PICK n : n = Len(log)
  OBVIOUS
<1>2. /\ n \in Nat /\ Len(file) \in Nat /\ Begin(1) = 0
      /\ \A i \in 1..n : /\ IsLine(log[i]) /\ ends[i] \in Nat /\ Begin(i + 1) = ends[i]
                         /\ ends[i] = Begin(i) + Len(Text(log[i])) /\ ends[i] >= Begin(i) + 5
                         /\ At(file, Begin(i), Text(log[i]))
                         /\ Begin(i) <= Len(file)
                         /\ i < n => ends[i] <= Len(file)
      /\ \A i \in 1..n + 1 : Begin(i) \in Nat
      /\ Len(file) <= Begin(n + 1)
  BY <1>1, WrittenFacts
<1>3. Len(file) # Begin(n + 1) /\ log' = log /\ ends' = ends
  BY <1>1 DEF WriteChar, AllWritten
<1>4. n # 0 /\ n \in 1..n
  <2>1. n = 0 => Begin(n + 1) = 0
    BY <1>2
  <2> QED
    BY <1>2, <1>3, <2>1
<1>5. PICK line, b, k : line = log[n] /\ b = Begin(n) /\ k = Len(file) + 1 - b
  OBVIOUS
<1>6. /\ IsLine(line) /\ b \in Nat /\ ends[n] \in Nat /\ ends[n] = b + Len(Text(line))
      /\ b <= Len(file) /\ Len(file) < ends[n] /\ k \in 1..Len(Text(line)) /\ b + k = Len(file) + 1
      /\ At(file, b, Text(line))
  <2>1. /\ IsLine(line) /\ b \in Nat /\ ends[n] \in Nat /\ ends[n] = b + Len(Text(line))
        /\ b <= Len(file) /\ At(file, b, Text(line))
    <3>1. n \in 1..n + 1
      BY <1>2, <1>4
    <3> QED
      BY <1>2, <1>4, <1>5, <3>1
  <2>2. Len(file) < ends[n]
    BY <1>2, <1>3, <1>4, <2>1
  <2>3. Len(Text(line)) \in Nat
    BY <2>1, TextFacts
  <2> QED
    BY SMTT(30), <1>2, <1>5, <2>1, <2>2, <2>3
<1>7. PICK ch : ch = Text(line)[k] /\ ch \in Chars /\ (ch = Newline <=> k = Len(Text(line)))
  <2>1. Text(line) \in Seq(Chars)
    BY <1>6, TextFacts
  <2> QED
    BY <1>6, <2>1, ElementOfSeq, TextNewline
<1>8. /\ file' = Append(file, ch) /\ file' \in Seq(Chars) /\ Len(file') = Len(file) + 1
      /\ file'[Len(file) + 1] = ch /\ \A i \in 1..Len(file) : file'[i] = file[i]
  <2>1. file' = Append(file, ch) /\ file \in Seq(Chars)
    BY <1>1, <1>5, <1>7 DEF WriteChar, WrittenInv
  <2> QED
    BY <1>7, <2>1, AppendProperties
<1>9. \A i : Begin(i)' = Begin(i)
  BY <1>3 DEF Begin
<1>10. ASSUME NEW i \in 1..n
       PROVE  At(file', Begin(i), Text(log[i]))
  <2>1. SUFFICES ASSUME NEW j \in 1..Len(Text(log[i])), Begin(i) + j <= Len(file')
                 PROVE  file'[Begin(i) + j] = Text(log[i])[j]
    BY DEF At
  <2>2. /\ At(file, Begin(i), Text(log[i])) /\ Begin(i) \in Nat /\ ends[i] = Begin(i) + Len(Text(log[i]))
        /\ Len(Text(log[i])) \in Nat
    <3>1. i \in 1..n + 1 /\ IsLine(log[i])
      BY <1>2
    <3> QED
      BY <1>2, <3>1, TextFacts
  <2>3. CASE Begin(i) + j <= Len(file)
    <3>1. file[Begin(i) + j] = Text(log[i])[j]
      BY <2>2, <2>3 DEF At
    <3>2. Begin(i) + j \in 1..Len(file)
      BY SMTT(30), <1>2, <2>2, <2>3
    <3> QED
      BY <1>8, <3>1, <3>2
  <2>4. CASE Begin(i) + j = Len(file) + 1
    <3>1. i = n
      <4>1. i < n => ends[i] <= Len(file)
        BY <1>2
      <4> QED
        BY SMTT(30), <1>2, <2>2, <2>4, <4>1
    <3>2. j = k
      BY SMTT(30), <1>2, <1>5, <1>6, <2>2, <2>4, <3>1
    <3> QED
      BY <1>5, <1>7, <1>8, <2>4, <3>1, <3>2
  <2>5. Begin(i) + j <= Len(file) \/ Begin(i) + j = Len(file) + 1
    <3>1. j \in Nat /\ Begin(i) \in Nat /\ Len(file) \in Nat /\ Begin(i) + j <= Len(file) + 1
      BY <1>2, <1>8, <2>1, <2>2
    <3> QED
      BY <3>1
  <2> QED
    BY <2>3, <2>4, <2>5
<1>11. Len(file') \in (IF log = <<>> THEN 0 ELSE Begin(n)) .. Begin(n + 1)
  <2>1. log # <<>>
    BY <1>1, <1>4
  <2>2. Begin(n + 1) = ends[n] /\ Begin(n) = b
    BY <1>2, <1>4, <1>5
  <2>3. Len(file') \in b .. ends[n]
    BY <1>2, <1>6, <1>8
  <2> QED
    BY <2>1, <2>2, <2>3
<1>12. ASSUME NEW i \in 1..Len(file'), file'[i] = Newline
       PROVE  \E j \in 1..n : i = ends[j]
  <2>1. CASE i \in 1..Len(file)
    BY <1>1, <1>8, <1>12, <2>1 DEF WrittenInv
  <2>2. CASE i = Len(file) + 1
    <3>1. i = ends[n]
      BY <1>6, <1>7, <1>8, <1>12, <2>2
    <3> QED
      BY <1>4, <3>1
  <2> QED
    BY <1>2, <1>8, <2>1, <2>2
<1>13. WrittenInv'
  BY <1>1, <1>3, <1>8, <1>9, <1>10, <1>11, <1>12 DEF WrittenInv
<1> QED
  BY <1>2, <1>3, <1>8, <1>13

\* What has been read stays read while the schedd writes.
LEMMA BeginKeeps ==
  ASSUME TextInv, NEW line \in Lines, BeginRecord(line)
  PROVE  TextInv'
<1>1. PICK n, m : n = Len(log) /\ m = Len(entries) /\ n \in Nat /\ m \in Nat /\ m <= n
  BY LenProperties DEF TextInv, WrittenInv, ReaderInv, EntriesAreWritten
<1>2. WrittenInv' /\ Len(log') = n + 1 /\ (\A i \in 1..n : log'[i] = log[i])
      /\ \A i \in 1..n + 1 : Begin(i)' = Begin(i)
  BY <1>1, BeginKeepsWritten DEF TextInv
<1>3. UNCHANGED <<file, offset, entries, parser, aborted>>
  BY DEF BeginRecord
<1>4. ReaderInv'
  BY <1>3 DEF TextInv, ReaderInv
<1>5. EntriesAreWritten'
  <2>1. Begin(Len(entries) + 1)' = Begin(m + 1)'
    BY <1>1, <1>3 DEF Begin
  <2>2. m + 1 \in 1..n + 1 /\ m <= n + 1 /\ \A i \in 1..m : i \in 1..n
    BY <1>1
  <2>3. offset = Begin(m + 1) /\ \A i \in 1..m : entries[i] = [op |-> OpCode(log[i].op), fields |-> log[i].fields]
    BY <1>1 DEF TextInv, EntriesAreWritten
  <2>4. \A i \in 1..m : entries'[i] = [op |-> OpCode(log'[i].op), fields |-> log'[i].fields]
    BY <1>2, <1>3, <2>2, <2>3
  <2>5. Len(entries') = m /\ Len(entries') <= Len(log') /\ offset' = Begin(Len(entries) + 1)'
    BY <1>1, <1>2, <1>3, <2>1, <2>2, <2>3
  <2> QED
    BY <2>4, <2>5 DEF EntriesAreWritten
<1> QED
  BY <1>2, <1>4, <1>5 DEF TextInv

\* The same for a character.
LEMMA WriteKeeps ==
  ASSUME TextInv, WriteChar
  PROVE  TextInv'
<1>1. WrittenInv' /\ log' = log /\ ends' = ends /\ Len(file) <= Len(file')
  BY WriteKeepsWritten DEF TextInv
<1>2. UNCHANGED <<log, ends, offset, entries, parser, aborted>>
  BY DEF WriteChar
<1>3. ReaderInv'
  <2>1. offset <= Len(file) /\ Len(file) \in Nat /\ Len(file') \in Nat /\ offset \in Nat
    <3>1. file \in Seq(Chars) /\ file' \in Seq(Chars) /\ offset <= Len(file)
      BY <1>1 DEF TextInv, ReaderInv, WrittenInv
    <3>2. offset \in Nat
      <4>1. PICK n, m : n = Len(log) /\ m = Len(entries) /\ n \in Nat /\ m \in Nat /\ m <= n /\ offset = Begin(m + 1)
        BY LenProperties DEF TextInv, WrittenInv, ReaderInv, EntriesAreWritten
      <4>2. m + 1 \in 1..n + 1
        BY <4>1
      <4> QED
        BY <4>1, <4>2, WrittenFacts DEF TextInv
    <3> QED
      BY <3>1, <3>2, LenProperties
  <2>2. offset' <= Len(file')
    BY <1>1, <1>2, <2>1
  <2> QED
    BY <1>2, <2>2 DEF TextInv, ReaderInv
<1>4. EntriesAreWritten'
  <2>1. \A i : Begin(i)' = Begin(i)
    BY <1>2 DEF Begin
  <2>2. Begin(Len(entries) + 1)' = Begin(Len(entries) + 1)
    BY <1>2 DEF Begin
  <2> QED
    BY <1>2, <2>2 DEF TextInv, EntriesAreWritten
<1> QED
  BY <1>1, <1>3, <1>4 DEF TextInv

\* Reading gives the next record written, or nothing.
LEMMA ReadKeeps ==
  ASSUME TextInv, ReadEntry
  PROVE  TextInv'
<1>1. PICK n, m, text, record :
        /\ n = Len(log) /\ m = Len(entries)
        /\ text = readTextEntry(file, offset) /\ record = Records!readLogEntry(records, parser)
  OBVIOUS
<1>2. /\ m \in Nat /\ n \in Nat /\ m <= n
      /\ record.parser = [nextOffset |-> IF record.err = "FILE_READ_SUCCESS" THEN m + 1 ELSE m,
                          cur |-> record.parser.cur, last |-> record.parser.last]
      /\ text.err = "FILE_READ_SUCCESS" =>
           /\ m < n /\ Len(file) >= ends[m + 1]
           /\ text.pos = ends[m + 1]
           /\ text.op = OpCode(log[m + 1].op) /\ text.fields = log[m + 1].fields
      /\ text.err # "FILE_READ_SUCCESS" => text.pos = offset
      /\ text.err = "FILE_READ_SUCCESS" <=> record.err = "FILE_READ_SUCCESS"
  BY <1>1, Reading
<1>3. /\ offset' = text.pos
      /\ entries' = IF text.err = "FILE_READ_SUCCESS"
                    THEN Append(entries, [op |-> text.op, fields |-> text.fields]) ELSE entries
      /\ parser' = record.parser
      /\ aborted' \in BOOLEAN
      /\ log' = log /\ ends' = ends /\ file' = file
  BY <1>1 DEF ReadEntry, written
<1>4. WrittenInv'
  <2>1. \A i : Begin(i)' = Begin(i)
    BY <1>3 DEF Begin
  <2>2. Begin(Len(log))' = Begin(Len(log)) /\ Begin(Len(log) + 1)' = Begin(Len(log) + 1)
    BY <1>3 DEF Begin
  <2> QED
    BY <1>3, <2>1, <2>2 DEF TextInv, WrittenInv
<1>5. /\ entries \in Seq([op : Nat, fields : Seq(Seq(Chars))]) /\ offset <= Len(file)
      /\ offset = Begin(m + 1)
      /\ \A i \in 1..m : entries[i] = [op |-> OpCode(log[i].op), fields |-> log[i].fields]
  BY <1>1 DEF TextInv, ReaderInv, EntriesAreWritten
<1>6. CASE text.err = "FILE_READ_SUCCESS"
  <2>1. PICK line, e : line = log[m + 1] /\ e = [op |-> OpCode(line.op), fields |-> line.fields]
    OBVIOUS
  <2>2. IsLine(line) /\ Begin(m + 2) = ends[m + 1] /\ ends[m + 1] \in Nat
    <3>1. m + 1 \in 1..n /\ m + 1 + 1 = m + 2
      BY <1>2, <1>6
    <3> QED
      BY <1>1, <2>1, <3>1, WrittenFacts DEF TextInv
  <2>3. e \in [op : Nat, fields : Seq(Seq(Chars))]
    <3>1. OpCode(line.op) \in Nat
      BY <2>2, FieldFacts, OpCodes
    <3>2. line.fields \in Seq(Seq(Chars))
      <4>1. line.fields \in Seq(Seq(Chars \ {Newline}))
        BY <2>2 DEF IsLine
      <4>2. Seq(Chars \ {Newline}) \subseteq Seq(Chars)
        BY SeqMonotonic
      <4> QED
        BY <4>1, <4>2, SeqMonotonic
    <3> QED
      BY <2>1, <3>1, <3>2
  <2>4. entries' = Append(entries, e)
    BY <1>2, <1>3, <1>6, <2>1
  <2>5. /\ entries' \in Seq([op : Nat, fields : Seq(Seq(Chars))]) /\ Len(entries') = m + 1
        /\ entries'[m + 1] = e /\ \A i \in 1..m : entries'[i] = entries[i]
    BY <1>1, <1>5, <2>3, <2>4, AppendProperties
  <2>6. parser' = [nextOffset |-> m + 1, cur |-> parser'.cur, last |-> parser'.last]
    BY <1>2, <1>3, <1>6
  <2>7. ReaderInv'
    BY <1>2, <1>3, <1>6, <2>2, <2>5, <2>6 DEF ReaderInv
  <2>8. Begin(Len(entries) + 1)' = ends[m + 1]
    <3>1. Begin(Len(entries) + 1)' = Begin(m + 2)
      <4>1. Len(entries') + 1 = m + 2
        BY <1>2, <2>5
      <4> QED
        BY <1>3, <4>1 DEF Begin
    <3> QED
      BY <2>2, <3>1
  <2>9. \A i \in 1..m + 1 : entries'[i] = [op |-> OpCode(log[i].op), fields |-> log[i].fields]
    <3>1. \A i \in 1..m + 1 : i \in 1..m \/ i = m + 1
      BY <1>2
    <3> QED
      BY <1>5, <2>1, <2>5, <3>1
  <2>10. Len(entries') <= Len(log')
    BY <1>1, <1>2, <1>3, <1>6, <2>5
  <2>11. EntriesAreWritten'
    BY <1>2, <1>3, <1>6, <2>5, <2>8, <2>9, <2>10 DEF EntriesAreWritten
  <2> QED
    BY <1>4, <2>7, <2>11 DEF TextInv
<1>7. CASE text.err # "FILE_READ_SUCCESS"
  <2>1. entries' = entries /\ offset' = offset /\ file' = file /\ log' = log
    BY <1>2, <1>3, <1>7
  <2>2. parser' = [nextOffset |-> m, cur |-> parser'.cur, last |-> parser'.last]
    BY <1>2, <1>3, <1>7
  <2>3. ReaderInv'
    BY <1>1, <1>3, <1>5, <2>1, <2>2 DEF ReaderInv
  <2>4. Begin(Len(entries) + 1)' = Begin(Len(entries) + 1)
    BY <1>3, <2>1 DEF Begin
  <2>5. EntriesAreWritten'
    BY <2>1, <2>4 DEF TextInv, EntriesAreWritten
  <2> QED
    BY <1>4, <2>3, <2>5 DEF TextInv
<1> QED
  BY <1>6, <1>7

\* The invariant holds of every behaviour: of the writer, of the reader, and of what the
\* reader has read of what is written.
THEOREM TextInductive == Spec => []TextInv
<1>1. Init => TextInv
  BY InitText
<1>2. TextInv /\ [Next]_vars => TextInv'
  <2> SUFFICES ASSUME TextInv, [Next]_vars PROVE TextInv'
    OBVIOUS
  <2>1. ASSUME NEW line \in Lines, BeginRecord(line) PROVE TextInv'
    BY <2>1, BeginKeeps
  <2>2. CASE WriteChar
    BY <2>2, WriteKeeps
  <2>3. CASE ReadEntry
    BY <2>3, ReadKeeps
  <2>4. CASE UNCHANGED vars
    <3>1. UNCHANGED <<log, ends, file, offset, entries, parser, aborted>>
      BY <2>4 DEF vars, written
    <3>2. \A i : Begin(i)' = Begin(i)
      BY <3>1 DEF Begin
    <3>3. /\ Begin(Len(log))' = Begin(Len(log)) /\ Begin(Len(log) + 1)' = Begin(Len(log) + 1)
          /\ Begin(Len(entries) + 1)' = Begin(Len(entries) + 1)
      BY <3>1 DEF Begin
    <3> QED
      BY <3>1, <3>2, <3>3 DEF TextInv, WrittenInv, ReaderInv, EntriesAreWritten
  <2> QED
    BY <2>1, <2>2, <2>3, <2>4 DEF Next, Finished
<1> QED
  BY <1>1, <1>2, PTL DEF Spec

\* No record is taken before all of it is in the file, none is cut short, and none runs
\* into the next one: what the consumer is given is what the schedd wrote, in order.
THEOREM EntriesAreThoseWritten == Spec => []EntriesAreWritten
<1>1. TextInv => EntriesAreWritten
  BY DEF TextInv
<1> QED
  BY <1>1, TextInductive, PTL

-----------------------------------------------------------------------------
(***************************************************************************)
(* The recovery from a record without a value.                             *)
(***************************************************************************)
\* A record read as a line: once all of it is there, the line begins with its op code.
LEMMA RecordLine ==
  ASSUME NEW T \in Seq(Chars), NEW p \in 0..Len(T), NEW line, IsLine(line), At(T, p, Text(line)),
         NEW e, e = p + Len(Text(line))
  PROVE  /\ Len(T) >= e => readline(T, p).ok /\ atoi(readline(T, p).string) = OpCode(line.op)
         /\ Len(T) < e => ~readline(T, p).ok /\ readline(T, p).eof
<1>1. PICK t, n : /\ t = Text(line) /\ n = Len(t) /\ t \in Seq(Chars) /\ n \in Nat /\ n >= 5
                  /\ Len(T) \in Nat /\ p \in Nat /\ line.op \in Ops
  BY TextFacts, FieldFacts, LenProperties
<1>2. PICK f : f = SubSeq(t, 1, n - 1)
  OBVIOUS
<1>3. /\ f \in Seq(Chars) /\ Len(f) = n - 1 /\ \A i \in 1..n - 1 : f[i] = t[i]
  <2>1. n - 1 \in Nat /\ 1 <= n - 1 /\ n - 1 - 1 + 1 = n - 1 /\ \A i \in 1..n - 1 : 1 + i - 1 = i
    BY <1>1
  <2>2. \A i \in 1..n : t[i] \in Chars
    BY <1>1, ElementOfSeq
  <2> QED
    BY <1>1, <1>2, <2>1, <2>2, SubSeqProperties
<1>4. f \in Seq(Chars \ {Newline})
  <2>1. ASSUME NEW i \in 1..Len(f) PROVE f[i] \in Chars \ {Newline}
    <3>1. i \in 1..n - 1 /\ i \in 1..n /\ i # n
      BY <1>1, <1>3, <2>1
    <3>2. t[i] \in Chars /\ t[i] # Newline
      BY <1>1, <3>1, TextNewline, ElementOfSeq
    <3> QED
      BY <1>3, <3>1, <3>2
  <2>2. f \in [1..Len(f) -> Chars \ {Newline}] /\ Len(f) \in Nat
    <3>1. f \in [1..Len(f) -> Chars]
      BY <1>3, LenProperties
    <3> QED
      BY <1>1, <1>3, <2>1, <3>1
  <2> QED
    BY <2>2, SeqDef
<1>5. t = Append(f, Newline)
  <2>1. t[n] = Newline
    BY <1>1, TextNewline
  <2>2. Append(SubSeq(t, 1, n - 1), t[n]) = t
    <3>1. PICK k : k = n - 1 /\ k \in 0..Len(t) - 1 /\ k + 1 = n
      BY <1>1
    <3>2. Append(SubSeq(t, 1, k), t[k + 1]) = SubSeq(t, 1, k + 1) /\ SubSeq(t, 1, Len(t)) = t
      BY <1>1, <3>1, SubSeqGrows
    <3> QED
      BY <1>1, <3>1, <3>2
  <2> QED
    BY <1>2, <2>1, <2>2
<1>6. /\ Len(T) > p + Len(f) =>
           /\ readline(T, p).ok <=> f # <<>>
           /\ readline(T, p).string = f
      /\ Len(T) <= p + Len(f) => ~readline(T, p).ok /\ readline(T, p).eof
  <2>1. At(T, p, Append(f, Newline))
    BY <1>1, <1>5
  <2> QED
    BY <1>4, <2>1, LineRead
<1>7. f # <<>>
  BY <1>1, <1>3
<1>8. atoi(f) = OpCode(line.op)
  <2>1. PICK h, hs : /\ h = Header(line.op) /\ h \in Seq(Chars \ Spaces) /\ Len(h) = 3
                     /\ hs = Append(h, Space)
    BY <1>1, HeaderIsWord DEF Words
  <2>2. /\ Len(hs) = 4 /\ hs[4] = Space /\ \A i \in 1..3 : hs[i] = h[i]
    <3>1. 3 + 1 = 4
      OBVIOUS
    <3> QED
      BY <2>1, <3>1, Appended
  <2>3. At(t, 0, hs)
    <3>1. At(t, 0, Text(line))
      BY <1>1 DEF At
    <3> QED
      BY <1>1, <2>1, <3>1, TextParts
  <2>4. \A i \in 1..4 : t[i] = hs[i]
    <3>1. \A i \in 1..4 : 0 + i = i /\ 0 + i <= Len(t)
      BY <1>1
    <3> QED
      BY <2>2, <2>3, <3>1 DEF At
  <2>5. (\A i \in 1..3 : f[i] = h[i]) /\ f[4] = Space
    <3>1. \A i \in 1..4 : i \in 1..n - 1
      BY <1>1
    <3> QED
      BY <1>3, <2>2, <2>4, <3>1
  <2>6. Len(f) >= 3
    BY <1>1, <1>3
  <2> QED
    BY <1>1, <1>3, <2>1, <2>5, <2>6, AtoiOfHeader
<1>9. (Len(T) > p + Len(f) <=> Len(T) >= e) /\ (Len(T) <= p + Len(f) <=> Len(T) < e)
  BY <1>1, <1>3
<1> QED
  BY <1>6, <1>7, <1>8, <1>9

\* The lines that are searched for an EndTransaction begin where records end.
LEMMA LineStarts ==
  ASSUME WrittenInv, NEW n, n = Len(log), NEW k \in 1..n, ends[k] <= Len(file)
  PROVE  {ends[k]} \cup {i \in ends[k] + 1 .. Len(file) : file[i] = Newline}
           = {ends[j] : j \in {j \in k..n : ends[j] <= Len(file)}}
<1>1. /\ n \in Nat /\ Len(file) \in Nat
      /\ \A i \in 1..n : ends[i] \in Nat
      /\ \A i, j \in 1..n : i < j => ends[i] < ends[j]
  <2>1. /\ n \in Nat /\ Len(file) \in Nat
        /\ \A i \in 1..n : ends[i] \in Nat /\ ends[i] >= Begin(i) + 5
        /\ \A i \in 1..n + 1 : Begin(i) \in Nat
        /\ \A i, j \in 1..n : i < j => ends[i] <= Begin(j)
    BY WrittenFacts
  <2>2. ASSUME NEW i \in 1..n, NEW j \in 1..n, i < j PROVE ends[i] < ends[j]
    <3>1. ends[i] \in Nat /\ ends[j] \in Nat /\ Begin(j) \in Nat /\ ends[i] <= Begin(j) /\ ends[j] >= Begin(j) + 5
      BY <2>1, <2>2
    <3> QED
      BY <3>1
  <2> QED
    BY <2>1, <2>2
<1>2. ASSUME NEW i \in ends[k] + 1 .. Len(file), file[i] = Newline
      PROVE  \E j \in k..n : ends[j] <= Len(file) /\ i = ends[j]
  <2>1. i \in 1..Len(file)
    BY <1>1, <1>2
  <2>2. PICK j \in 1..n : i = ends[j]
    BY <1>2, <2>1 DEF WrittenInv
  <2>3. ~(j < k)
    BY <1>1, <1>2, <2>2
  <2> QED
    BY <1>1, <1>2, <2>2, <2>3
<1>3. ASSUME NEW j \in k..n, ends[j] <= Len(file), j # k
      PROVE  ends[j] \in ends[k] + 1 .. Len(file) /\ file[ends[j]] = Newline
  <2>1. j \in 1..n /\ k < j
    BY <1>1, <1>3
  <2>2. ends[j] \in ends[k] + 1 .. Len(file)
    BY <1>1, <1>3, <2>1
  <2>3. PICK t, b : /\ t = Text(log[j]) /\ b = Begin(j) /\ ends[j] = b + Len(t) /\ At(file, b, t)
                    /\ IsLine(log[j])
    BY <2>1, WrittenFacts
  <2>4. Len(t) \in Nat /\ Len(t) >= 5
    BY <2>3, TextFacts
  <2>5. t[Len(t)] = Newline
    BY <2>3, <2>4, TextNewline
  <2>6. file[b + Len(t)] = t[Len(t)]
    BY <1>3, <2>3, <2>4 DEF At
  <2> QED
    BY <2>2, <2>3, <2>5, <2>6
<1> QED
  BY <1>1, <1>2, <1>3

\* What the line behind record j is: the next record, or the end of the file.
LEMMA LineBehind ==
  ASSUME WrittenInv, NEW n, n = Len(log), NEW j \in 1..n, ends[j] <= Len(file),
         NEW read, read = readline(file, ends[j])
  PROVE  /\ j < n /\ Len(file) >= ends[j + 1] => read.ok /\ atoi(read.string) = OpCode(log[j + 1].op)
         /\ j = n => ~read.ok /\ read.eof
         /\ j < n /\ Len(file) < ends[j + 1] => ~read.ok /\ read.eof
<1>1. /\ n \in Nat /\ Len(file) \in Nat /\ ends[j] \in Nat /\ file \in Seq(Chars)
      /\ Len(file) <= Begin(n + 1) /\ Begin(j + 1) = ends[j]
  BY WrittenFacts DEF WrittenInv
<1>2. CASE j = n
  <2>1. ends[j] = Len(file)
    BY <1>1, <1>2
  <2> QED
    BY <1>1, <1>2, <2>1, LineAtEnd
<1>3. CASE j < n
  <2>1. PICK i, p, line : i = j + 1 /\ i \in 1..n /\ p = ends[j] /\ line = log[i]
    BY <1>1, <1>3
  <2>2. /\ IsLine(line) /\ At(file, p, Text(line)) /\ ends[i] = p + Len(Text(line)) /\ p \in 0..Len(file)
    <3>1. IsLine(line) /\ At(file, Begin(i), Text(line)) /\ ends[i] = Begin(i) + Len(Text(line))
      BY <2>1, WrittenFacts
    <3> QED
      BY <1>1, <2>1, <3>1
  <2>3. /\ Len(file) >= ends[i] => readline(file, p).ok /\ atoi(readline(file, p).string) = OpCode(line.op)
        /\ Len(file) < ends[i] => ~readline(file, p).ok /\ readline(file, p).eof
    BY <1>1, <2>2, RecordLine
  <2> QED
    BY <1>1, <1>3, <2>1, <2>3
<1> QED
  BY <1>1, <1>2, <1>3

\* The recovery that searches lines finds what the one that searches records does: it is
\* fatal if a whole EndTransaction is behind the record.
LEMMA RecoveryIs ==
  ASSUME WrittenInv, NEW n, n = Len(log), NEW k \in 1..n, ends[k] <= Len(file)
  PROVE  Recovery(file, ends[k]) =
           IF \E i \in k + 1 .. n : log[i].op = "EndTransaction" /\ ends[i] <= Len(file)
           THEN "FILE_FATAL_ERROR" ELSE "FILE_READ_EOF"
<1> DEFINE Ends(i) == ~readline(file, i).ok \/ atoi(readline(file, i).string) = 106
           starts == {ends[k]} \cup {i \in ends[k] + 1 .. Len(file) : file[i] = Newline}
<1>1. /\ n \in Nat /\ Len(file) \in Nat
      /\ \A i \in 1..n : ends[i] \in Nat /\ IsLine(log[i]) /\ (i < n => ends[i] <= Len(file))
      /\ \A i, j \in 1..n : i < j => ends[i] < ends[j]
  <2>1. /\ n \in Nat /\ Len(file) \in Nat
        /\ \A i \in 1..n : /\ ends[i] \in Nat /\ ends[i] >= Begin(i) + 5 /\ IsLine(log[i])
                           /\ i < n => ends[i] <= Len(file)
        /\ \A i \in 1..n + 1 : Begin(i) \in Nat
        /\ \A i, j \in 1..n : i < j => ends[i] <= Begin(j)
    BY WrittenFacts
  <2>2. ASSUME NEW i \in 1..n, NEW j \in 1..n, i < j PROVE ends[i] < ends[j]
    <3>1. ends[i] \in Nat /\ ends[j] \in Nat /\ Begin(j) \in Nat /\ ends[i] <= Begin(j) /\ ends[j] >= Begin(j) + 5
      BY <2>1, <2>2
    <3> QED
      BY <3>1
  <2> QED
    BY <2>1, <2>2
<1>2. starts = {ends[j] : j \in {j \in k..n : ends[j] <= Len(file)}}
  BY LineStarts
<1>3. ASSUME NEW j \in 1..n, ends[j] <= Len(file)
      PROVE  /\ j < n /\ ends[j + 1] <= Len(file) =>
                  readline(file, ends[j]).ok /\ (Ends(ends[j]) <=> log[j + 1].op = "EndTransaction")
             /\ ~(j < n /\ ends[j + 1] <= Len(file)) =>
                  Ends(ends[j]) /\ ~readline(file, ends[j]).ok /\ readline(file, ends[j]).eof
  <2>1. PICK read : read = readline(file, ends[j])
    OBVIOUS
  <2>2. /\ j < n /\ Len(file) >= ends[j + 1] => read.ok /\ atoi(read.string) = OpCode(log[j + 1].op)
        /\ j = n => ~read.ok /\ read.eof
        /\ j < n /\ Len(file) < ends[j + 1] => ~read.ok /\ read.eof
    BY <1>3, <2>1, LineBehind
  <2>3. j < n => (OpCode(log[j + 1].op) = 106 <=> log[j + 1].op = "EndTransaction")
    <3>1. j < n => log[j + 1].op \in Ops
      <4>1. j < n => j + 1 \in 1..n
        BY <1>1
      <4> QED
        BY <1>1, <4>1, FieldFacts
    <3> QED
      BY <3>1, OpCodes
  <2>4. j < n => ends[j + 1] \in Nat
    <3>1. j < n => j + 1 \in 1..n
      BY <1>1
    <3> QED
      BY <1>1, <3>1
  <2>5. j = n \/ j < n
    BY <1>1
  <2>6. /\ j < n /\ ends[j + 1] <= Len(file) => Len(file) >= ends[j + 1]
        /\ j < n /\ ~(ends[j + 1] <= Len(file)) => Len(file) < ends[j + 1]
    BY <1>1, <2>4
  <2> QED
    BY <2>1, <2>2, <2>3, <2>5, <2>6
<1>4. PICK J : J = {j \in k..n : ends[j] <= Len(file) /\ Ends(ends[j])}
  OBVIOUS
<1>5. J \subseteq Nat /\ J # {}
  <2>1. CASE ends[n] <= Len(file)
    <3>1. n \in 1..n /\ n \in k..n /\ ~(n < n)
      BY <1>1
    <3>2. Ends(ends[n])
      BY <1>3, <2>1, <3>1
    <3> QED
      BY <1>1, <1>4, <2>1, <3>1, <3>2
  <2>2. CASE ~(ends[n] <= Len(file))
    <3>1. PICK j : j = n - 1 /\ j \in 1..n /\ j \in k..n /\ j < n /\ j + 1 = n
      <4>1. k # n
        BY <2>2
      <4> QED
        BY <1>1, <4>1
    <3>2. ends[j] <= Len(file)
      BY <1>1, <3>1
    <3>3. Ends(ends[j])
      BY <1>3, <2>2, <3>1, <3>2
    <3> QED
      BY SMTT(30), <1>1, <1>4, <3>1, <3>2, <3>3
  <2> QED
    BY <2>1, <2>2
<1>6. PICK j \in J : \A y \in J : j <= y
  BY <1>5, LeastNumber
<1>7. j \in k..n /\ j \in 1..n /\ ends[j] <= Len(file) /\ Ends(ends[j]) /\ ends[j] \in Nat
  BY <1>1, <1>4, <1>6
<1>8. Min({i \in starts : Ends(i)}) = ends[j]
  <2>1. PICK S : S = {i \in starts : Ends(i)}
    OBVIOUS
  <2>2. ends[j] \in S
    BY <1>2, <1>7, <2>1
  <2>3. ASSUME NEW s \in S PROVE s \in Nat /\ ends[j] <= s
    <3>1. PICK i \in k..n : ends[i] <= Len(file) /\ s = ends[i] /\ Ends(ends[i])
      BY <1>2, <2>1, <2>3
    <3>2. i \in J /\ j <= i /\ i \in 1..n
      BY <1>1, <1>4, <1>6, <3>1
    <3>3. CASE i = j
      BY <1>1, <1>7, <3>1, <3>3
    <3>4. CASE j < i
      BY <1>1, <1>7, <3>1, <3>2, <3>4
    <3> QED
      BY <1>7, <3>1, <3>2, <3>3, <3>4
  <2>4. Min(S) = ends[j]
    BY <2>2, <2>3, MinIs
  <2> QED
    BY <2>1, <2>4
<1>9. Recovery(file, ends[k]) =
        IF ~readline(file, ends[j]).ok /\ readline(file, ends[j]).eof
        THEN "FILE_READ_EOF" ELSE "FILE_FATAL_ERROR"
  <2>1. Recovery(file, ends[k]) =
          IF ~readline(file, Min({i \in starts : Ends(i)})).ok /\ readline(file, Min({i \in starts : Ends(i)})).eof
          THEN "FILE_READ_EOF" ELSE "FILE_FATAL_ERROR"
    BY DEF Recovery
  <2> QED
    BY <1>8, <2>1
<1> HIDE DEF starts
<1>10. CASE j < n /\ ends[j + 1] <= Len(file)
  <2>1. readline(file, ends[j]).ok /\ log[j + 1].op = "EndTransaction"
    BY <1>3, <1>7, <1>10
  <2>2. j + 1 \in k + 1 .. n
    BY <1>1, <1>7, <1>10
  <2> QED
    BY <1>9, <1>10, <2>1, <2>2
<1>11. CASE ~(j < n /\ ends[j + 1] <= Len(file))
  <2>1. ~readline(file, ends[j]).ok /\ readline(file, ends[j]).eof
    BY <1>3, <1>7, <1>11
  <2>2. ASSUME NEW i \in k + 1 .. n, log[i].op = "EndTransaction", ends[i] <= Len(file)
        PROVE  FALSE
    <3>1. PICK b : b = i - 1 /\ b \in 1..n /\ b \in k..n /\ b < n /\ b + 1 = i /\ i \in 1..n
      BY <1>1
    <3>2. ends[b] <= Len(file)
      BY <1>1, <3>1
    <3>3. Ends(ends[b])
      BY <1>3, <2>2, <3>1, <3>2
    <3>4. b \in J /\ j <= b
      BY <1>4, <1>6, <3>1, <3>2, <3>3
    <3>5. j < n /\ j + 1 \in 1..n /\ j + 1 <= i
      BY <1>1, <1>7, <3>1, <3>4
    <3>6. ends[j + 1] <= Len(file)
      <4>1. CASE j + 1 = i
        BY <2>2, <4>1
      <4>2. CASE j + 1 < i
        <5>1. ends[j + 1] < ends[i] /\ ends[j + 1] \in Nat /\ ends[i] \in Nat
          BY <1>1, <3>1, <3>5, <4>2
        <5> QED
          BY <1>1, <2>2, <5>1
      <4> QED
        BY <1>7, <3>1, <3>5, <4>1, <4>2
    <3> QED
      BY <1>11, <3>5, <3>6
  <2> QED
    BY <1>9, <2>1, <2>2
<1> QED
  BY <1>10, <1>11

\* Reading records instead of characters gives the same results and entries, wherever the
\* file is cut off: what is shown of the reader of records is true of the text.
THEOREM TextReadsAsRecords == Spec => []ReadsAsRecords
<1>1. TextInv => ReadsAsRecords
  <2> SUFFICES ASSUME TextInv PROVE ReadsAsRecords
    OBVIOUS
  <2>1. PICK n, m, text, record :
          /\ n = Len(log) /\ m = Len(entries)
          /\ text = readTextEntry(file, offset) /\ record = Records!readLogEntry(records, parser)
    OBVIOUS
  <2>2. /\ m \in Nat /\ n \in Nat /\ m <= n
        /\ text.err = "FILE_READ_SUCCESS" =>
             /\ m < n
             /\ text.op = OpCode(log[m + 1].op) /\ text.fields = log[m + 1].fields
             /\ record.parser.cur.op = log[m + 1].op
             /\ record.parser.cur.key = FieldOf(log[m + 1], 1)
             /\ record.parser.cur.name = FieldOf(log[m + 1], 2)
             /\ record.parser.cur.value = FieldOf(log[m + 1], 3)
        /\ \/ text.err = record.err
           \/ /\ m < n /\ log[m + 1].op # "unsupported" /\ NoValue(log[m + 1])
              /\ Len(file) >= ends[m + 1]
              /\ text.err = Recovery(file, ends[m + 1])
              /\ record.err = IF Records!Bracketed(records, m) THEN "FILE_FATAL_ERROR" ELSE "FILE_READ_EOF"
    <3>1. m \in Nat /\ n \in Nat /\ m <= n
      BY <2>1, Reading
    <3>2. text.err = "FILE_READ_SUCCESS" =>
             /\ m < n
             /\ text.op = OpCode(log[m + 1].op) /\ text.fields = log[m + 1].fields
             /\ record.parser.cur.op = log[m + 1].op
             /\ record.parser.cur.key = FieldOf(log[m + 1], 1)
             /\ record.parser.cur.name = FieldOf(log[m + 1], 2)
             /\ record.parser.cur.value = FieldOf(log[m + 1], 3)
      BY ZenonT(30), <2>1, Reading
    <3>3. SameError(m, text, record)
      BY <2>1, Reading
    <3> QED
      BY <2>1, <3>1, <3>2, <3>3 DEF SameError
  <2>3. parser.nextOffset = m
    BY <2>1 DEF TextInv, ReaderInv
  <2>4. text.err = record.err
    <3>1. SUFFICES ASSUME m < n, Len(file) >= ends[m + 1]
                   PROVE  Recovery(file, ends[m + 1]) =
                            IF Records!Bracketed(records, m) THEN "FILE_FATAL_ERROR" ELSE "FILE_READ_EOF"
      BY <2>2
    <3>2. PICK k : k = m + 1 /\ k \in 1..n /\ k + 1 = m + 2
      BY <2>2, <3>1
    <3>3. /\ Len(records) \in Nat /\ Len(records) <= n
          /\ \A i \in 1..n : i <= Len(records) <=> Len(file) >= Begin(i) + 4
          /\ \A i \in 1..Len(records) :
               /\ records[i].op = log[i].op
               /\ records[i].ok <=> Len(file) >= ends[i] /\ ~NoValue(log[i])
      BY <2>1, RecordsFacts DEF TextInv
    <3>4. /\ Len(file) \in Nat
          /\ \A i \in 1..n : ends[i] \in Nat /\ Begin(i) \in Nat /\ ends[i] >= Begin(i) + 5
      <4>1. /\ Len(file) \in Nat /\ \A i \in 1..n : ends[i] \in Nat /\ ends[i] >= Begin(i) + 5
            /\ \A i \in 1..n + 1 : Begin(i) \in Nat
        BY <2>1, WrittenFacts DEF TextInv
      <4>2. \A i \in 1..n : i \in 1..n + 1
        BY <2>2
      <4> QED
        BY <4>1, <4>2
    <3>5. ends[k] <= Len(file)
      BY <3>1, <3>2, <3>4
    <3>6. Recovery(file, ends[k]) =
            IF \E i \in k + 1 .. n : log[i].op = "EndTransaction" /\ ends[i] <= Len(file)
            THEN "FILE_FATAL_ERROR" ELSE "FILE_READ_EOF"
      BY <2>1, <3>2, <3>5, RecoveryIs DEF TextInv
    <3>7. Records!Bracketed(records, m) <=>
            \E i \in k + 1 .. n : log[i].op = "EndTransaction" /\ ends[i] <= Len(file)
      <4>1. ASSUME NEW i \in k + 1 .. n, log[i].op = "EndTransaction", ends[i] <= Len(file)
            PROVE  Records!Bracketed(records, m)
        <5>1. i \in 1..n /\ Len(file) >= Begin(i) + 4 /\ Len(file) >= ends[i]
          <6>1. i \in 1..n
            BY <2>2, <3>2
          <6>2. ends[i] \in Nat /\ Begin(i) \in Nat /\ ends[i] >= Begin(i) + 5
            BY <3>4, <6>1
          <6> QED
            BY <3>4, <4>1, <6>1, <6>2
        <5>2. i \in m + 2 .. Len(records) /\ i \in 1..Len(records)
          BY <2>2, <3>2, <3>3, <5>1
        <5>3. ~NoValue(log[i])
          BY <4>1 DEF NoValue
        <5>4. records[i].op = "EndTransaction" /\ records[i].ok
          BY <3>3, <4>1, <5>1, <5>2, <5>3
        <5> QED
          BY <5>2, <5>4 DEF Records!Bracketed
      <4>2. ASSUME Records!Bracketed(records, m)
            PROVE  \E i \in k + 1 .. n : log[i].op = "EndTransaction" /\ ends[i] <= Len(file)
        <5>1. PICK i \in m + 2 .. Len(records) : records[i].op = "EndTransaction" /\ records[i].ok
          BY <4>2 DEF Records!Bracketed
        <5>2. i \in 1..Len(records) /\ i \in k + 1 .. n /\ i \in 1..n
          BY <2>2, <3>2, <3>3
        <5>3. log[i].op = "EndTransaction" /\ Len(file) >= ends[i]
          BY <3>3, <5>1, <5>2
        <5>4. ends[i] <= Len(file)
          BY <3>4, <5>2, <5>3
        <5> QED
          BY <5>2, <5>3, <5>4
      <4> QED
        BY <4>1, <4>2
    <3> QED
      BY <3>2, <3>6, <3>7
  <2>5. text.err = "FILE_READ_SUCCESS" =>
          /\ FieldOf(text, 1) = FieldOf(log[m + 1], 1) /\ FieldOf(text, 2) = FieldOf(log[m + 1], 2)
          /\ FieldOf(text, 3) = FieldOf(log[m + 1], 3)
    BY <2>2 DEF FieldOf
  <2> QED
    BY <2>1, <2>2, <2>3, <2>4, <2>5 DEF ReadsAsRecords
<1> QED
  BY <1>1, TextInductive, PTL

=============================================================================
