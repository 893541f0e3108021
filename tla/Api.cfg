SPECIFICATION ApiSpec
CONSTANTS
  Workers = {w1, w2}
  NoWorker = NoWorker
  MaxRuns = 1
  MaxRetries = 1
  Steps = 2
  PromptLoop = FALSE
  ShortSteps = FALSE
  ExecutorFails = FALSE
  LegacyCancel = TRUE
  ClientsCancel = TRUE
  Stoppable = {w1, w2}
SYMMETRY WorkerSymmetry
INVARIANTS
  ClientLogIsPrefix
  TerminalReplyIsTheEnd
  CancelRepliesHold
CHECK_DEADLOCK FALSE
