\* One file, no daemon writes; an event is lost or a read or a walk fails, every
\* edit brings bytes the file never held.  The context may be cancelled after one
\* edit, which fills the buffer; Engine.Run returns or hangs, and all is over.
CONSTANTS
  Writers = {}
  Paths = {p1}
  Contents = {c1, c2, c3}
  None = None
  Procs = {g1, g2}
  OutCap = 1
  MaxNotices = 2
  MaxEdits = 2
  MaxWrites = 0
  MaxFaults = 1
  MaxCrashes = 0
  EditsAtStart = FALSE
  Deletes = FALSE
  FreshBytes = TRUE
  MayStop = TRUE
  StopEdits = 1
SPECIFICATION FairSpec
PROPERTIES
  EditsReachIndex
  RunReturnsUnlessFull
CHECK_DEADLOCK FALSE
