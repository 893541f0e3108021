SPECIFICATION Spec
CONSTANTS
  Workers = {w1}
  NoWorker = NoWorker
  MaxRuns = 2
  MaxRetries = 1
  Steps = 2
  PromptLoop = TRUE
  ShortSteps = TRUE
  ExecutorFails = FALSE
  LegacyCancel = FALSE
  ClientsCancel = FALSE
  Stoppable = {}
INVARIANT
  NoSleepWhileRunsWait
CHECK_DEADLOCK FALSE
