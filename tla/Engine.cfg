\* Two held syscalls and two Wait calls; three syscalls under parallel(); up to
\* five branches; two failures of a launch; two emitters and two waits.
SPECIFICATION MCSpec
CONSTANTS
  Notifs = {h1, h2}
  Waits = {w1, w2}
  Counts = {1, 2}
  NoOne = NoOne
  NoQueue = NoQueue
  MaxBranches = 5
  MaxN = 8
  MaxFaults = 2
  e1 = e1
  e2 = e2
  await = await
  stable = stable
INVARIANTS
  ReleaseNeverBlocks NoOrphanedHandler ParkedMustWait
  ExplorationIsExact OrderingsAreExact LaunchIsHonest NoMissedEvent
PROPERTIES EngineSettles WaitsEnd
CHECK_DEADLOCK FALSE
