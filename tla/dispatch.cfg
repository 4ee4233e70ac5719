\* Two passes race for two issues under a state roster; issues move meanwhile.
SPECIFICATION Spec
CONSTANTS
  i1 = i1
  i2 = i2
  r1 = r1
  r2 = r2
  r3 = r3
  x1 = x1
  x2 = x2
  p1 = p1
  p2 = p2
  e1 = e1
  Issues = {i1, i2}
  Runs = {r1, r2}
  Runners = {x1, x2}
  Managed = {x1}
  States <- MCStates
  ActiveStates <- MCActive
  Edges <- MCEdges
  Targets <- AllTargets
  MaxConcurrent <- OneEach
  UseRoster = TRUE
  GlobalCap = 1
  RosterLimit <- RosterTodo
  AttemptLimit = 2
  Passes = {p1, p2}
  Polls = {}
  Enders = {e1}
  Sweepers = {}
  Operators = {}
  Events = {"evict"}
  MaxCrashes = 0
  None = None
INVARIANTS
  OneRunPerIssue
  CapsHold
SYMMETRY Symmetric
CHECK_DEADLOCK FALSE
