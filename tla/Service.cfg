SPECIFICATION FairServiceSpec
CONSTANTS
  Workers = {w1}
  NoWorker = NoWorker
  MaxRuns = 3
  MaxRetries = 1
  Steps = 2
  PromptLoop = FALSE
  ShortSteps = FALSE
  ExecutorFails = TRUE
  LegacyCancel = FALSE
  ClientsCancel = TRUE
  Stoppable = {w1}
INVARIANTS
  ExecutesOnlyOwnRun
  LoopsSurvive
PROPERTIES
  ServedRunsSettle
  QuietAfterStop
  LifespanEnds
CHECK_DEADLOCK FALSE
