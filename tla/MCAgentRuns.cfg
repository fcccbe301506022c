SPECIFICATION PartsSpec
CONSTANTS
  c1 = c1  c2 = c2  c3 = c3  c4 = c4  l1 = l1  m1 = m1  m2 = m2
  Call <- ThreeCalls
  Chains <- OneChain
  Estimates <- OneOrTwo
  Actuals <- Two
  Lease <- OneLease
  Terms <- StrictTerms
  FailOpen = TRUE
  MaxRenewals = 1
  MaxGen = 2
  NoLease = NoLease
  NoCall = NoCall
  Run <- ThreeCalls
  Size = {1, 2}
  Model = {m1}
  RunLimit = 2
  HistoryLimit = 3
  RateMemory = 1
  WarningMemory = 1
  RepeatCount = 2
  RepeatWindow = 1
  GrowthStreak = 2
  GrowthFactor = 2
  AccelFloor = 2
  AccelFactor = 3
  MaxCalls = 5
  MaxClock = 3
  Handle = {h1}
  Scope = {s1, s2}
  Resource = {a1, a2}
  MaxDepth = 2
  MaxActive = 2
  Agent = {a1, a2}
  Attempt = {t1, t2}
  Workflow = w1
  MaxTools = 1
  Root = {r1}
  Chain = {x1}
  LlmCall = {m1, m2}
  Node = {n1}
  Signal = {s1, s2}
INVARIANTS BooksBalance VelocityIsSound RunsOutliveTheirCode
PROPERTIES HardDenyBound
SYMMETRY CallSymmetry
CHECK_DEADLOCK FALSE
