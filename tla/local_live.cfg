\* Local runs: a daemon that polls, a sweep, pauses and the kill switch.
SPECIFICATION LiveSpec
CONSTANTS
  i1 = i1
  i2 = i2
  r1 = r1
  r2 = r2
  r3 = r3
  x1 = x1
  x2 = x2
  p1 = p1
  q1 = q1
  e1 = e1
  w1 = w1
  o1 = o1
  Issues = {i1}
  Runs = {r1}
  Runners = {x1}
  Managed = {}
  States <- TwoStates
  ActiveStates <- OneActive
  Edges = {}
  Targets <- AllTargets
  MaxConcurrent <- OneEach
  UseRoster = FALSE
  GlobalCap = 1
  RosterLimit <- RosterOne
  AttemptLimit = 2
  Passes = {p1}
  Polls = {q1}
  Enders = {e1}
  Sweepers = {w1}
  Operators = {o1}
  Events = {"overdue"}
  MaxCrashes = 0
  None = None
INVARIANTS
  StopsAreFree
PROPERTIES
  ZombieKilled
CHECK_DEADLOCK FALSE
