SPECIFICATION FairSpec
CONSTANTS
  N = 4
  MaxWorkers = 3
  MinTarget = 2
  PartsMax = 2
  Kept = {{1, 2}}
INVARIANTS NeverHoley OkMeansAll OkMeansQuiet OneWinner
PROPERTY BatchEnds
CHECK_DEADLOCK FALSE
