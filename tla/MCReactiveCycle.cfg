\* One file, edits and deletions racing two daemon writes, the debounce goroutines
\* and the rescan; files may change while engine.New runs, and the process may be
\* restarted once.
CONSTANTS
  Writers = {w1}
  Paths = {p1}
  Contents = {c1, c2}
  None = None
  Procs = {g1, g2}
  OutCap = 1
  MaxNotices = 2
  MaxEdits = 1
  MaxWrites = 2
  MaxFaults = 0
  MaxCrashes = 1
  EditsAtStart = TRUE
  Deletes = TRUE
  FreshBytes = FALSE
  MayStop = FALSE
  StopEdits = 0
SPECIFICATION Spec
SYMMETRY Symmetry
INVARIANTS
  TypeOK
  StaleOnlyBehindOwnBytes
  EchoesNeedWrites
