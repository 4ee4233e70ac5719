SPECIFICATION MCSpec
CONSTANTS
  Owner = owner
  Member = member1
  Handlers = {h1, h2}
  First = h1
  MaxChoice = 2
  MaxDecision = 1
  MaxMember = 3
  MaxPermission = 1
INVARIANTS
  TypeOK
  InheritedIsBacked
PROPERTIES
  StaleClaimsAreReleased
  LaunchesAreConsented
  ImplementsPromise
CHECK_DEADLOCK FALSE
