SPECIFICATION Spec
CONSTANTS
 N = 4
 K = K  L = L  A = A  B = B
 Keys = {K, L}
 Maps = {A, B}
 Playlists <- AllPlaylists
 Session = session
 Nothing = Nothing
INVARIANTS EachOnceInOrder OwnKeyOwnInit
CHECK_DEADLOCK FALSE
