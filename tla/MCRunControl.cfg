SPECIFICATION PartsSpec
CONSTANTS
  r1 = r1  r2 = r2  h1 = h1  h2 = h2  q1 = q1  q2 = q2  o1 = o1  o2 = o2
  Run = {r1, r2}
  Handle = {h1, h2}
  Request = {q1, q2}
  Unstopped = Unstopped
  NoRun = NoRun
  Capacity = 1
  MaxTime = 1
  MaxMarks = 2
  MaxGeneration = 1
  Retiring = {o1, o2}
  Ownerless = {o1}
  Stoppable = {o1}
  Workers = 1
  MaxLeases = 2
  MaxOwners = 1
  MaxReserved = 1
  MaxResets = 1
SYMMETRY Symmetry
INVARIANTS StopReachesStreams LeasesReturnOnce
PROPERTIES StopsLast RequestOrderDecides
CHECK_DEADLOCK FALSE
