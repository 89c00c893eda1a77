\* Two devices, one of them enrolled with wrong keys at times.
CONSTANTS
  Endpoints = {e1, e2}
  Keys = {k1, bad}
  BadKeys = {bad}
  Dispatchers = {d1}
  None = None
  Removed = Removed
  Unknown = Unknown
  MaxCalls = 3
  MaxTurns = 2
  MaxFaults = 2
SPECIFICATION FairSpec
INVARIANTS
  TypeOK
  AnswersSurvive
PROPERTIES
  EverybodyIsTried
  GoneIsPruned
\* Clients and faults are bounded, and a dispatch to nobody changes nothing.
CHECK_DEADLOCK FALSE
