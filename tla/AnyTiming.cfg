SPECIFICATION Spec
CONSTANTS
  Workers = {w1, w2}
  NoWorker = NoWorker
  MaxRuns = 2
  MaxRetries = 1
  Steps = 2
  PromptLoop = FALSE
  ShortSteps = FALSE
  ExecutorFails = TRUE
  LegacyCancel = FALSE
  ClientsCancel = TRUE
  Stoppable = {w1, w2}
SYMMETRY WorkerSymmetry
INVARIANTS
  TypeOK
  NoSuccessAfterCancelRequest
  LogTellsRun
  StaleExecutionsAreCounted
PROPERTIES
  TerminalIsFinal
  CancelledRunsDoNotRestart
  LoopsDieOfRetriedRunsOnly
  ImplementsLifecycle
CHECK_DEADLOCK FALSE
