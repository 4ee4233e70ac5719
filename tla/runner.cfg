SPECIFICATION MCSpec
CONSTANTS
  Lives = {l1, l2}
  Policies <- MCPolicies
  None = None
  MaxCap = 2
  MaxPolls = 2
  MaxRevision = 2
  MaxTokens = 1
  Notes = {n1, n2}
  Passes = {p1}
  Base = 2
  MaxBackoff = 3
  DefaultHold = 2
  Grace = 1
  LongestHold = 4
  MaxAge = 1
  MaxInstant = 5
  MaxFailures = 2
  MaxRuns = 3
  Sweeps = {w1}
INVARIANTS
  TypesOK
  AppliedIsTrue
  NothingIsPinned
PROPERTIES
  FencedIsSilent
  OneCountPerIncident
  HandoverIsExclusive
  RecordedRunsAreSafe
SYMMETRY Symmetric
CHECK_DEADLOCK FALSE
