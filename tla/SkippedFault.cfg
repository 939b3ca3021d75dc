\* The windows of small specs.
SPECIFICATION ScopesSpec
CONSTANTS
  Handlers = {h1, h2, h3}
  Filtered <- Intercepted
  Setups <- AllSetups
INVARIANT SkippedIsNotAPass
CHECK_DEADLOCK FALSE
