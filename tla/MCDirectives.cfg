\* Lines of up to three pieces, with and without line endings; two stamps in a row, one
\* of them with a value that holds a closing bracket.
CONSTANTS
  Bytes <- AllBytes
  Lower = {"a", "b"}
  NameCont = {"a", "b", "1"}
  Lines <- PieceLines
  Requests <- SomeRequests
  MaxStamps = 2
  None = None
SPECIFICATION Spec
INVARIANTS
  SpansAreLeftmost
  StampIsRead
CHECK_DEADLOCK FALSE
