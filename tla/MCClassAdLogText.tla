---------------------------- MODULE MCClassAdLogText ----------------------------
(* An instance of ClassAdLogText for TLC: the key "1" is what is left of "12" when *)
(* it is cut off, values have spaces, the code of an EndTransaction, or nothing.   *)
EXTENDS ClassAdLogText

Line(op, fields) == [op |-> op, fields |-> fields]

k == <<"1", "2">>
l == <<"1">>
n == <<"n">>

Empty == Line("SetAttribute", <<l, n, <<>>>>)
Begun == Line("BeginTransaction", <<>>)
Ended == Line("EndTransaction", <<>>)

SomeLines ==
  {Empty, Begun, Ended,
   Line("NewClassAd", <<k, <<"J">>, <<"M">>>>),
   Line("DestroyClassAd", <<k>>),
   Line("SetAttribute", <<k, n, <<"v">>>>),
   Line("SetAttribute", <<l, n, <<" ", "v", " ", "w">>>>),
   Line("SetAttribute", <<l, n, <<"1", "0", "6", " ">>>>),
   Line("DeleteAttribute", <<k, n>>),
   Line("LogHistoricalSequenceNumber", <<l, n, <<"v">>>>),
   Line("unsupported", <<n>>)}

SomeChars == {" ", "\n", "0", "1", "2", "3", "4", "5", "6", "7", "8", "9",
              "n", "v", "w", "J", "M"}
=============================================================================
