SPECIFICATION PartsSpec
CONSTANTS
  x1 = x1  x2 = x2  c1 = c1
  DataRequest = {x1, x2}
  Call = {c1}
  MaxChanges = 1
  MaxOutages = 1
  MaxGeneration = 1
  Client = {x1, x2}
  SweepFloor = 1
  MaxCalls = 1
  MaxKeys = 1
  MaxReads = 3
  MaxRefusals = 2
SYMMETRY Symmetry
INVARIANTS RefusalsAreRechecked ExitsAreOrderly MiddlewareIsSound SurfacesAreGuarded
PROPERTIES OnlyNewerKeyChecksRelax KeptResultsAreCurrent RefusalsStopSpend
CHECK_DEADLOCK FALSE
