SPECIFICATION FairSpec
CONSTANTS
  j1 = j1  j2 = j2  w1 = w1  w2 = w2  l1 = l1  l2 = l2
  Jobs = {j1, j2}
  Workers = {w1}
  Listeners = {}
  QueueMax = 2
  Stops = {}
  Stubborn = {}
  NoJob = NoJob
PROPERTIES QueueMoves EventuallyRecorded ImplementsLifecycle
CHECK_DEADLOCK FALSE
