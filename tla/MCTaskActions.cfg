\* Two requests, together or one after the other; the file changes once and the
\* process or a write fails once.
CONSTANTS
  Handlers = {h1, h2}
  Ids = {1, 2, 3}
  Elsewhere = {2}
  Files <- SmallFiles
  Kinds = {"once"}
  BadId = BadId
  Garbled <- SomeGarbled
  None = None
  MaxSkip = 1
  MaxRequests = 2
  MaxChanges = 1
  MaxFaults = 1
SPECIFICATION Spec
SYMMETRY Symmetry
INVARIANTS
  TypeOK
  StampHitsOwnLine
PROPERTIES
  OwnWritesKeepValid
  TerminalUnlessOutdated
CHECK_DEADLOCK FALSE
