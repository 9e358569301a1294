SPECIFICATION Spec
CONSTANTS
 TrackCount = 2
 Remotes = {v1, v2}
 Starts <- RaceStart
 v1 = v1
 v2 = v2
 wrong = wrong
 Local = local
 Right = right
 Wrong = {wrong}
 None = None
 Nobody = Nobody
INVARIANT Proved
CHECK_DEADLOCK FALSE
