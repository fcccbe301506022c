SPECIFICATION FairSpec
CONSTANTS
  Confirms = {1}
  Settlements = {}
  Events = {21, 22, 23}
  Denied = {21, 22}
  Invalid = {}
  FoldKey <- MCFoldKey
  FoldLimit = 1
  BatchSize = 2
  MaxQueueSize = 2
  ControlMax = 1
  MaxInFlight = 1
  MaxSendAttempts = 2
  MaxRateLimitAttempts = 1
INVARIANTS CapsHold SealDecidesAll
PROPERTY EventsSettle
CHECK_DEADLOCK FALSE
