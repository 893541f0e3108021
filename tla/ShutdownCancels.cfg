SPECIFICATION Spec
CONSTANTS
  Workers = {w1}
  NoWorker = NoWorker
  MaxRuns = 1
  MaxRetries = 1
  Steps = 2
  PromptLoop = TRUE
  ShortSteps = TRUE
  ExecutorFails = FALSE
  LegacyCancel = FALSE
  ClientsCancel = FALSE
  Stoppable = {w1}
INVARIANT
  CancelledOnlyOnRequest
CHECK_DEADLOCK FALSE
