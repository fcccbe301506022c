SPECIFICATION Spec
CONSTANTS
  s1 = s1  s2 = s2  s3 = s3  s4 = s4  p1 = p1  p2 = p2  p3 = p3
  Submission <- FourSubmissions
  Payload <- ThreePayloads
  Workers = 1
  MaxPending = 2
  MaxAttempts = 2
  Budget = 2
  CloseBudget = 1
  MaxTime = 3
  None = None
INVARIANTS SlotsAreHeld NothingIsLost
PROPERTIES OutcomesAreFinal
SYMMETRY Symmetry
CHECK_DEADLOCK FALSE
