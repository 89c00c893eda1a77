\* One client after another, a failed write and no other change.
CONSTANTS
  Handlers = {h1}
  Ids = {1, 2}
  Elsewhere = {}
  Files <- OneTask
  Kinds = {"once"}
  BadId = BadId
  Garbled <- NoGarbled
  None = None
  MaxSkip = 1
  MaxRequests = 2
  MaxChanges = 0
  MaxFaults = 1
SPECIFICATION Spec
PROPERTIES
  CompletedAnswersAreTrue
CHECK_DEADLOCK FALSE
