SPECIFICATION FairSpec
CONSTANTS
 TrackCount = 2
 Remotes = {v1, v2}
 Starts <- AnyStart
 v1 = v1
 v2 = v2
 wrong = wrong
 Local = local
 Right = right
 Wrong = {wrong}
 None = None
 Nobody = Nobody
INVARIANTS ProvedBeforeTrusted ProvedUntilFlagged LicensedNotFlagged ReplacedIsReported
PROPERTIES PoisonStaysPut TracksEnd
CHECK_DEADLOCK FALSE
