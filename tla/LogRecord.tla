------------------------------ MODULE LogRecord ------------------------------
(***************************************************************************)
(* The characters of a job queue log: LogRecord::Write, and the functions  *)
(* readword and readline that everything is read with.                     *)
(*                                                                         *)
(* A file is a sequence of characters, a position the number of characters *)
(* before it.  A read yields whether it went well, what it read, and the   *)
(* position after it.                                                      *)
(***************************************************************************)
EXTENDS Naturals, Sequences, FiniteSetsExt

CONSTANTS
  Chars,   \* what a log is written with
  NUL,     \* '\0'
  EOF      \* what fgetc returns at the end of the file

Space == " "
Newline == "\n"
Spaces == {Space, Newline}
Bad == {NUL, EOF}

Digit(d) == <<"0", "1", "2", "3", "4", "5", "6", "7", "8", "9">>[d + 1]
Digits == {Digit(d) : d \in 0 .. 9}

\* "The logs are meant to be strictly ascii (for example, no '\0' characters)" (log.h:25).
ASSUME CharsAssumption == Spaces \cup Digits \subseteq Chars /\ Chars \cap Bad = {}

CharAt(text, i) == IF i <= Len(text) THEN text[i] ELSE EOF

\* The index, from i on, of the first character that is one of the given ones, or is
\* none of them; that of the end of the file if there is no such character.
FirstIn(text, i, chars) ==
  Min({j \in i .. Len(text) : text[j] \in chars} \cup {Len(text) + 1})

FirstNotIn(text, i, chars) ==
  Min({j \in i .. Len(text) : text[j] \notin chars} \cup {Len(text) + 1})

Read(ok, string, end, text) ==
  [ok |-> ok, string |-> string, eof |-> end > Len(text),
   pos |-> IF end > Len(text) THEN Len(text) ELSE end]

\* A word ends with a space or a newline, which is read as well.  Neither the end of the
\* file nor that of a line is a word, and a word that the end of the file cuts off is none.
readword(text, pos) ==
  LET start == FirstNotIn(text, pos + 1, {Space})
      end == FirstIn(text, start, Spaces \cup {NUL})
  IN Read(end > start /\ CharAt(text, end) \notin Bad, SubSeq(text, start, end - 1), end, text)

\* Mutated forms of readline: a line can end with the file; a line of one character
\* is taken for an empty one.
readlineAtEOF(text, pos) ==
  LET end == FirstIn(text, pos + 1, {Newline, NUL})
  IN Read(end > pos + 1 /\ CharAt(text, end) # NUL, SubSeq(text, pos + 1, end - 1), end, text)

readlineOfTwo(text, pos) ==
  LET end == FirstIn(text, pos + 1, {Newline, NUL})
  IN Read(end > pos + 2 /\ CharAt(text, end) \notin Bad, SubSeq(text, pos + 1, end - 1), end, text)

\* A line ends with its newline.  An empty line is an error, like one without end.
readline(text, pos) ==
  LET end == FirstIn(text, pos + 1, {Newline, NUL})
  IN Read(end > pos + 1 /\ CharAt(text, end) \notin Bad, SubSeq(text, pos + 1, end - 1), end, text)

-----------------------------------------------------------------------------
DigitValue(c) == CHOOSE d \in 0 .. 9 : Digit(d) = c

\* The digits that a word begins with after spaces and zeros.
LeadingDigits(word) ==
  LET start == FirstNotIn(word, FirstNotIn(word, 1, {Space}), {Digit(0)})
  IN SubSeq(word, start, FirstNotIn(word, start, Digits) - 1)

\* Their number, 0 if there are none.  No op code is longer than three digits, so any
\* longer number stands for all of them; no word or line read for one begins with a sign.
atoi(word) ==
  LET digits == LeadingDigits(word)
      Place(i) == IF i < Len(digits) THEN DigitValue(digits[Len(digits) - i]) ELSE 0
  IN IF Len(digits) <= 3 THEN 100 * Place(2) + 10 * Place(1) + Place(0) ELSE 1000

\* LogRecord::Write: a header, at most three fields with a space between them, a newline.
Write(header, fields) ==
  LET Field(i) == CASE i > Len(fields) -> <<>>
                    [] i < Len(fields) -> Append(fields[i], Space)
                    [] i = Len(fields) -> Append(fields[i], Newline)
  IN Append(header, Space) \o
       IF fields = <<>> THEN <<Newline>> ELSE Field(1) \o Field(2) \o Field(3)
=============================================================================
