\* One task with two appearances, one diagnostic.  A buffer of one change, a wire of
\* one message; two faults are enough for the page to retry by itself.
CONSTANTS
  Ids = {t1}
  Values = {v1, v2}
  Diags = {x}
  Conns = {k1}
  None = None
  SubCap = 1
  WireCap = 1
  Rapid = 2
  MaxChanges = 2
  MaxFaults = 2
  MaxActs = 1
SPECIFICATION FairSpec
INVARIANTS
  TypeOK
  FeedFollowsIndex
  DiagsCaughtUp
PROPERTIES
  StreamsEnd
  StreamComesBack
CHECK_DEADLOCK FALSE
