SPECIFICATION FairSpec
CONSTANTS
  Workers = {w1, w2}
  NoWorker = NoWorker
  MaxRuns = 2
  MaxRetries = 2
  Steps = 2
  PromptLoop = TRUE
  ShortSteps = TRUE
  ExecutorFails = TRUE
  LegacyCancel = FALSE
  ClientsCancel = TRUE
  Stoppable = {w1}
INVARIANTS
  ExecutesOnlyOwnRun
  LoopsSurvive
PROPERTIES
  EveryRunSettles
  ShutdownEndsLoop
CHECK_DEADLOCK FALSE
