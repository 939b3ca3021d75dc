\* Mocks of every protocol over two tests; every client method and healthcheck.
SPECIFICATION MCSpec
CONSTANTS
  Declarations <- MCDeclarations
  MaxTests = 2
  Thief = TRUE
INVARIANTS MocksServeTheirTest ClientsAreHonest
PROPERTY CallsEnd
CHECK_DEADLOCK FALSE
