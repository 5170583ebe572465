SPECIFICATION Spec
CONSTANTS
  ClockMod = 6
  Cmd <- MCCmd
  ZeroCmd = "zero"
  QueueSize = 2
  MaxExpectedLen = 3
  MaxEndingLen = 2
  TxTimeout = 2
  RetryCooldown = 2
  InterjobCooldown = 1
  MaxSteps = 2
  DefaultThreshold = 2
  DefaultInterval = 2
  U8Max = 2
  Readings <- MCReadings
  MaxTries = 2
  MaxStall = 1
  Requests <- RetryRequests
  HbConfigs <- RefusedConfigs
INVARIANTS
  AttemptsBounded
