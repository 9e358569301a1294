SPECIFICATION FairSpec
CONSTANTS
  j1 = j1  j2 = j2  w1 = w1  w2 = w2  l1 = l1  l2 = l2
  Jobs = {j1}
  Workers = {w1}
  Listeners = {}
  QueueMax = 2
  Stops = {}
  Stubborn = {j1}
  NoJob = NoJob
PROPERTIES CancelKills
CHECK_DEADLOCK FALSE
