SPECIFICATION TimedSpec
CONSTANTS
  Workers = {w1, w2}
  NoWorker = NoWorker
  MaxRuns = 2
  MaxRetries = 1
  Steps = 2
  PromptLoop = TRUE
  ShortSteps = TRUE
  ExecutorFails = FALSE
  LegacyCancel = FALSE
  ClientsCancel = TRUE
  Stoppable = {w1}
  LeaseTime = 3
  HeartbeatInterval = 1
  MaxStep = 2
  MaxStall = 1
INVARIANTS
  TimedTypeOK
  ClaimsOutlastExecutions
  ExecutesOnlyOwnRun
  LoopsSurvive
PROPERTIES
  ImplementsOrchestration
