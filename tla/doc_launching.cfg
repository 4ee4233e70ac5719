\* The poll response with the secret is lost and the daemon keeps polling.
SPECIFICATION LiveSpec
CONSTANTS
  i1 = i1
  i2 = i2
  r1 = r1
  r2 = r2
  r3 = r3
  x1 = x1
  x2 = x2
  p1 = p1
  q1 = q1
  q2 = q2
  e1 = e1
  w1 = w1
  Issues = {i1}
  Runs = {r1}
  Runners = {x1}
  Managed = {}
  States <- TwoStates
  ActiveStates <- OneActive
  Edges = {}
  Targets <- AllTargets
  MaxConcurrent <- OneEach
  UseRoster = FALSE
  GlobalCap = 1
  RosterLimit <- RosterOne
  AttemptLimit = 2
  Passes = {p1}
  Polls = {q1, q2}
  Enders = {e1}
  Sweepers = {w1}
  Operators = {}
  Events = {"drop","overdue","expire"}
  MaxCrashes = 0
  None = None
PROPERTIES
  LaunchingIsResolved
CHECK_DEADLOCK FALSE
