\* Every schedule of six moments, the lookback falling short of the first ones.
CONSTANTS
  Times = {1, 2, 3, 4, 5, 6}
  Tasks <- SomeLines
  Windows <- Lookbacks
  None = None
SPECIFICATION Spec
INVARIANTS
  AnswerForesees
  PreviousIsLatest
  LadderIsG7
  MissedIsG10
