SPECIFICATION Spec
CONSTANTS
  j1 = j1  j2 = j2  w1 = w1  w2 = w2  l1 = l1  l2 = l2
  Jobs = {j1, j2}
  Workers = {w1, w2}
  Listeners = {}
  QueueMax = 2
  Stops = {"interrupt"}
  Stubborn = {}
  NoJob = NoJob
SYMMETRY Symmetry
INVARIANTS OneWorkerPerJob HistoryMatches CancelPrecedesPoll RunningIsReachable
PROPERTY TerminalForever
CHECK_DEADLOCK FALSE
