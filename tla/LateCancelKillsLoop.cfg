SPECIFICATION Spec
CONSTANTS
  Workers = {w1, w2}
  NoWorker = NoWorker
  MaxRuns = 1
  MaxRetries = 1
  Steps = 2
  PromptLoop = TRUE
  ShortSteps = FALSE
  ExecutorFails = FALSE
  LegacyCancel = FALSE
  ClientsCancel = TRUE
  Stoppable = {}
PROPERTY
  CancelledExecutionOnlyLogs
CHECK_DEADLOCK FALSE
