SPECIFICATION FairSpec
CONSTANTS
  Notifs = {h1}
  Waits = {w1}
  Counts = {1}
  NoOne = NoOne
PROPERTY CancelledWaitReturns
CHECK_DEADLOCK FALSE
