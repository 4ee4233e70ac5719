\* Timeouts, cancels, launch returns and stall sweeps race to end one run.
SPECIFICATION Spec
CONSTANTS
  i1 = i1
  i2 = i2
  r1 = r1
  r2 = r2
  r3 = r3
  x1 = x1
  x2 = x2
  p1 = p1
  e1 = e1
  e2 = e2
  w1 = w1
  Issues = {i1}
  Runs = {r1, r2}
  Runners = {x1}
  Managed = {x1}
  States <- TwoStates
  ActiveStates <- OneActive
  Edges <- OneEdge
  Targets <- AllTargets
  MaxConcurrent <- OneEach
  UseRoster = FALSE
  GlobalCap = 1
  RosterLimit <- RosterOne
  AttemptLimit = 1
  Passes = {p1}
  Polls = {}
  Enders = {e1, e2}
  Sweepers = {w1}
  Operators = {}
  Events = {"overdue","cancel","person"}
  MaxCrashes = 0
  None = None
INVARIANTS
  StrikesAreStalledRuns
  UnparkedHasBudget
  KeyDiesWithRun
PROPERTIES
  ImplementsIssueClaim
SYMMETRY Symmetric
CHECK_DEADLOCK FALSE
