SPECIFICATION Spec
CONSTANTS
  Confirms = {1}
  Settlements = {}
  Events = {}
  Denied = {}
  Invalid = {}
  FoldKey <- MCFoldKey
  FoldLimit = 1
  BatchSize = 2
  MaxQueueSize = 2
  ControlMax = 2
  MaxInFlight = 2
  MaxSendAttempts = 2
  MaxRateLimitAttempts = 2
INVARIANT CountedOnce
CHECK_DEADLOCK FALSE
