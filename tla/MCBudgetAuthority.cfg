SPECIFICATION Spec
CONSTANTS
  r1 = r1  r2 = r2  k1 = k1
  Run = {r1, r2}
  NoRun = NoRun
  Chain = {k1}
  FailOpen = TRUE
  MaxCached = 1
  MaxRunDenials = 1
  MaxSequence = 5
  MaxTime = 1
  MaxEpoch = 1
  MaxInFlight = 2
SYMMETRY Symmetry
INVARIANTS NewestCheckDecides
PROPERTIES DenialOutlivesOlderAnswers
CHECK_DEADLOCK FALSE
