SPECIFICATION PartsSpec
CONSTANTS
  a1 = a1  a2 = a2  a3 = a3  d1 = d1
  Admission = {a1, a2, a3}
  Scalar = Scalar
  Tunings <- MCTunings
  MaxAge = 2
  DataRequest = {d1}
  Call = {}
  MaxChanges = 2
  MaxOutages = 1
  MaxGeneration = 2
INVARIANTS SlotHasOneOwner CallsCountOnce
PROPERTIES LateOutcomeInert OpenIsDecided Recovers
CHECK_DEADLOCK FALSE
