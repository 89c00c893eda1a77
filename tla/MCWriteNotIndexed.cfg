\* No outside change at all: one daemon write.
CONSTANTS
  Writers = {w1}
  Paths = {p1}
  Contents = {c1, c2}
  None = None
  Procs = {g1, g2}
  OutCap = 1
  MaxNotices = 2
  MaxEdits = 0
  MaxWrites = 1
  MaxFaults = 0
  MaxCrashes = 0
  EditsAtStart = FALSE
  Deletes = FALSE
  FreshBytes = FALSE
  MayStop = FALSE
  StopEdits = 0
SPECIFICATION Spec
INVARIANTS
  SettledWriteIsIndexed
