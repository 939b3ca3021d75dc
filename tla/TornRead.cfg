\* Three commands over the shared files.
SPECIFICATION FilesSpec
CONSTANTS
  test = test
  none = none
  api = api
  db = db
  Services <- Names
  Test <- test
  NoService <- none
  Steps = {1, 2}
  MaxEvents = 3
  MaxResets = 1
CHECK_DEADLOCK FALSE
INVARIANT NoTornRead
