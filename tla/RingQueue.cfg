SPECIFICATION Spec
CONSTANTS
  Jobs = {a, b, c}
  QueueSize <- MCQueueSize
  U8Max <- MCU8Max
INVARIANTS
  InRing
PROPERTIES
  ImplementsFifo
CHECK_DEADLOCK FALSE
