SPECIFICATION FairSpec
CONSTANTS
  MaxResets <- MCMaxResets
  MaxEvents <- MCMaxEvents
INVARIANTS
  NeverStranded
PROPERTIES
  LoopReached
  Reconnects
  BitFollowsLink
CHECK_DEADLOCK FALSE
