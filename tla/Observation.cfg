\* Two services and two steps; a group of two; two processes; up to two
\* sandboxes; three commands.
SPECIFICATION MCSpec
CONSTANTS
  test = test
  none = none
  api = api
  db = db
  Services <- Names
  Test <- test
  NoService <- none
  Steps = {1, 2}
  MaxEvents = 3
  MaxResets = 1
CHECK_DEADLOCK FALSE
INVARIANTS
  ClocksAreCausality LogRespectsCausality
  GatesAreHonest OwnersAreProven WatchIsHonest ArtifactsAreHonest
