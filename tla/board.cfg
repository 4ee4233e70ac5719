SPECIFICATION MCSpec
CONSTANTS
  p1 = p1
  p2 = p2
  n1 = n1
  n2 = n2
  t1 = t1
  a1 = a1
  i1 = i1
  i2 = i2
  s1 = s1
  m2 = m2
  f1 = f1
  f2 = f2
  g1 = g1
  g3 = g3
  Handlers = {h1, h2}
  Periods = {1, 2}
  NextAfter <- MCNextAfter
  MaxTime = 2
  MaxIssues = 2
  MaxRevision = 2
  Prompts = {i1, i2}
  Skills = {s1}
  Names = {n1, n2}
  Homes = {p1, p2}
  Scopes <- MCScopes
  Contents <- MCContents
  Asks <- MCAsks
  Requests = {q1, q2}
  MaxEdits = 2
  MaxTransfers = 1
  WriteRetries = 1
  Writers = {w1, w2}
  Movers = {m1, m2}
  Types = {"file", "text"}
  Required = "file"
  VersionCap = 3
  Retries = 1
  MaxIds = 4
  MaxInstants = 1
  MaxDecisions = 2
  MaxGraphs = 2
  Issues = {i1}
  Projects = {p1, p2}
  Persons = {a1, a2}
  Claims = {c1}
  Attempts = 2
  MaxMoves = 2
  MaxConf = 1
  Nodes = {k1, k2, k3}
  Linkers = {l1, l2}
  MaxPlan = 2
  Flows = {f1, f2}
  Stages = {g1, g2, g3}
  FlowOf <- MCFlowOf
  Savers = {d1, d2}
  MaxChain = 2
  RevisionCap = 3
  MaxItemWrites = 3
  NoStage = NoStage
INVARIANTS
  TypesOK
  OneOutcomePerOccurrence
  LinksAcyclic
  ActiveRunsStay
  VersionsStand
  OwnChainsFit
PROPERTIES
  NoBackfill
  MovesAsReviewed
  NoLostUpdate
  WitnessedMovesAreGated
SYMMETRY Symmetry
CHECK_DEADLOCK FALSE
