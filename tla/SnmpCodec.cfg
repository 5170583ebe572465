SPECIFICATION Spec
CONSTANTS
  Requests <- MCRequests
  Values <- MCValues
  BufSize = 512
INVARIANTS
  DecodesWhatWasAsked
  ReplyIsBer
  AlwaysAnswered
  NextInMibOrder
CHECK_DEADLOCK FALSE
