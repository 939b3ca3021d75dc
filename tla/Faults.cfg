\* Five sessions with three racing handlers; small specs of every layout; four OpenAPI documents.
SPECIFICATION MCSpec
CONSTANTS
  Handlers = {h1, h2, h3}
  Filtered <- Intercepted
  Setups <- AllSetups
SYMMETRY HandlerSymmetry
INVARIANTS FaultsHitTheirTarget TriggersAreExact FaultsFollowWindows ScopesAreHonest RoutesAreHonest
\* A suite ends, and a mock with a bad document does not start.
CHECK_DEADLOCK FALSE
