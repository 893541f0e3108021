SPECIFICATION RouteSpec
CONSTANTS
  MaxLength = 2
  V0 = 2
  Mass = 1
  Target = 3
  FrictionNum = 1
  FrictionDen = 2
  SpeedThreshold = 1
  Throttles = {0, 1, 2}
  PopulationSize = 2
  Configurations <- MCConfigurations
  Timeout = 2
  MaxSetup = 1
  MaxDuration = 2
  p = p
  q = q
  far = far
  Places = {p, q, far}
  TooFar <- MCTooFar
  Requests <- MCRequests
INVARIANTS
  TypeOK
  ResultFitsItsScore
  OverrunIsBounded
  AnswerFitsRequest
