\* Every vault of two files, then three changes of it (a file that can no longer be
\* read is one) and every order of reconciliations.
CONSTANTS
  Paths <- TwoPaths
  Ids = {x, y}
  Schedules = {daily, weekly}
  Files <- ManyFiles
  x = x
  y = y
  daily = daily
  weekly = weekly
  BadId = BadId
  Unparsable = Unparsable
  Empty = Empty
  None = None
  Gone = Gone
  Unreadable = Unreadable
  Rank <- DirectoryFirst
  MaxEdits = 3
SPECIFICATION Spec
INVARIANTS
  TriggerAgrees
  OwnersAgree
  EveryIdAccounted
  MirrorIsIndex
  DiagsAnnounced
PROPERTIES
  OwnershipSpec
  BuildIsFirstWins
