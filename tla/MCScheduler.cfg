\* Two tasks, three changes, room for one in the subscription and for one due task in
\* the channel.  The clock stops at MaxTime, so the run ends there.
CONSTANTS
  Ids = {a, b}
  Crons = {every2}
  Onces = {3}
  Notes = {n}
  NextCron <- MCNextCron
  every2 = every2
  every3 = every3
  None = None
  SubCap = 1
  DueCap = 1
  Start = 1
  MaxTime = 4
  MaxEdits = 3
SPECIFICATION FairSpec
INVARIANTS
  TypeOK
  SlotsAdvance
  TimerCoversHeap
  HeapFollowsIndex
PROPERTIES
  OverdueFires
CHECK_DEADLOCK FALSE
