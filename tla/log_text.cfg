SPECIFICATION Spec
CONSTANTS
  Null = Null
  NUL = NUL
  EOF = EOF
  Chars <- SomeChars
  Lines <- SomeLines
  MaxRecords = 3
INVARIANTS
  EntriesAreWritten
  ReadsAsRecords
  TextInv
