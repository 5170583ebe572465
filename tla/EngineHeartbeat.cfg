SPECIFICATION FairSpec
CONSTANTS
  ClockMod = 6
  Cmd <- MCCmd
  ZeroCmd = "zero"
  QueueSize = 2
  MaxExpectedLen = 3
  MaxEndingLen = 2
  TxTimeout = 2
  RetryCooldown = 2
  InterjobCooldown = 1
  MaxSteps = 1
  DefaultThreshold = 2
  DefaultInterval = 2
  U8Max = 2
  Readings <- NoReadings
  MaxTries = 0
  MaxStall = 1
  Requests <- DataRequests
  HbConfigs <- MonitorConfigs
INVARIANTS
  HeartbeatNeverWedged
PROPERTIES
  HeartbeatRecurs
  ImplementsService
