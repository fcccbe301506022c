SPECIFICATION PartsSpec
CONSTANTS
  Confirms = {}
  Settlements = {11, 12, 13}
  Events = {}
  Denied = {}
  Invalid = {}
  FoldKey <- MCFoldKey
  FoldLimit = 1
  BatchSize = 2
  MaxQueueSize = 2
  ControlMax = 2
  MaxInFlight = 2
  MaxSendAttempts = 2
  MaxRateLimitAttempts = 1
  k1 = k1  k2 = k2
  Surface = {k1, k2}
  KeyLimit = 2
  MaxReport = 1
  MaxReported = 1
  MaxAttempts = 2
  Interval = 2
  MaxSeen = 2
  MaxTime = 3
INVARIANTS HalvesConserved OrderKept SummariesAreTrue
SYMMETRY Symmetry
CHECK_DEADLOCK FALSE
