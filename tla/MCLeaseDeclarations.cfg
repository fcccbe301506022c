SPECIFICATION Spec
CONSTANTS
  c1 = c1  c2 = c2  c3 = c3  c4 = c4  l1 = l1  m1 = m1  m2 = m2
  Call <- FourCalls
  Chains <- TwoChains
  Estimates <- One
  Actuals <- None
  Lease <- OneLease
  Terms <- AmpleTerms
  FailOpen = FALSE
  MaxRenewals = 1
  MaxGen = 2
  NoLease = NoLease
  NoCall = NoCall
INVARIANTS OneDeclarationPerGeneration RefusedNeverDeclared OneExchangeAtATime
PROPERTIES UndecidedRefusalHolds
SYMMETRY CallAndModelSymmetry
CHECK_DEADLOCK FALSE
