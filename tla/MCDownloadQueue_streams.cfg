SPECIFICATION FairSpec
CONSTANTS
  j1 = j1  j2 = j2  w1 = w1  w2 = w2  l1 = l1  l2 = l2
  Jobs = {j1}
  Workers = {w1}
  Listeners = {l1, l2}
  QueueMax = 2
  Stops = {"shutdown"}
  Stubborn = {j1}
  NoJob = NoJob
INVARIANTS TypeOK StreamTellsOutcome
PROPERTIES StreamCloses ShutdownReturns
CHECK_DEADLOCK FALSE
