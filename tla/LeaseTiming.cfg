SPECIFICATION Spec
CONSTANTS
  LeaseTime = 30
  HeartbeatInterval = 5
  WaitTimeout = 5
  Steps = 5
  MaxStep = 8
  MaxStall = 1
INVARIANTS
  TypeOK
  LeaseCoversExecution
  CancellationIsPrompt
  AbandonedRunIsRecovered
CHECK_DEADLOCK FALSE
