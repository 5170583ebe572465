SPECIFICATION BridgeFairSpec
CONSTANTS
  ClockMod = 8
  Cmd <- MCCmd
  ZeroCmd = "zero"
  QueueSize = 1
  MaxExpectedLen = 3
  MaxEndingLen = 1
  TxTimeout = 2
  RetryCooldown = 2
  InterjobCooldown = 1
  MaxSteps = 2
  DefaultThreshold = 2
  DefaultInterval = 2
  U8Max = 2
  Readings <- MCNone
  MaxTries = 0
  MaxStall = 1
  MaxDrift = 0
  Requests <- MCNone
  HbConfigs <- MCNone
  HeartbeatReq <- MCHeartbeat
  ConstantLut <- MCEmptyLut
  DynamicLut <- MCShortLut
  CapacityCmd = "capacity"
  Capacities = {0, 87}
  Burst = 2
  InitRetryPeriod = 2
  UpdatePeriod = 3
  ReplyWithin = 1
  MaxWire = 2
PROPERTIES
  RefreshRecurs
  BootstrapRetries
  BootstrapCompletes
