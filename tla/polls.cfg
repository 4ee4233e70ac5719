\* Overlapping polls of one daemon, cut connections, evictions and a crash; and a second run.
SPECIFICATION Spec
CONSTANTS
  i1 = i1
  i2 = i2
  r1 = r1
  r2 = r2
  r3 = r3
  x1 = x1
  x2 = x2
  p1 = p1
  q1 = q1
  q2 = q2
  e1 = e1
  w1 = w1
  Issues = {i1}
  Runs = {r1, r2}
  Runners = {x1}
  Managed = {}
  States <- TwoStates
  ActiveStates <- OneActive
  Edges <- OneEdge
  Targets <- AllTargets
  MaxConcurrent <- OneEach
  UseRoster = FALSE
  GlobalCap = 1
  RosterLimit <- RosterOne
  AttemptLimit = 2
  Passes = {p1}
  Polls = {q1, q2}
  Enders = {e1}
  Sweepers = {w1}
  Operators = {}
  Events = {"drop", "env", "evict", "away"}
  MaxCrashes = 1
  None = None
INVARIANTS
  DeliveredOnce
  JudgmentIsEarned
  MachineCapHolds
SYMMETRY Symmetric
CONSTRAINT TwoPollsOrRuns
CHECK_DEADLOCK FALSE
