\* Liveness of managed runs: two passes, a sweep, evictions at any statement.
SPECIFICATION LiveSpec
CONSTANTS
  i1 = i1
  i2 = i2
  r1 = r1
  r2 = r2
  r3 = r3
  x1 = x1
  x2 = x2
  p1 = p1
  p2 = p2
  e1 = e1
  w1 = w1
  Issues = {i1}
  Runs = {r1}
  Runners = {x1}
  Managed = {x1}
  States <- TwoStates
  ActiveStates <- OneActive
  Edges <- TwoEdges
  Targets <- AllTargets
  MaxConcurrent <- OneEach
  UseRoster = FALSE
  GlobalCap = 1
  RosterLimit <- RosterOne
  AttemptLimit = 2
  Passes = {p1, p2}
  Polls = {}
  Enders = {e1}
  Sweepers = {w1}
  Operators = {}
  Events = {"overdue", "expire", "evict","person"}
  MaxCrashes = 0
  None = None
PROPERTIES
  RunEnds
  KeysDie
CHECK_DEADLOCK FALSE
