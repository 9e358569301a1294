SPECIFICATION Spec
CONSTANTS
 Runs = {r1, r2, r3}
 Stash = stash
 Segs <- Segments
 Digests = {d1, d2}
 Modes <- AnyMode
 MayDie = TRUE
 AtOnce = 2
 Nothing = Nothing
SYMMETRY Symmetric
INVARIANTS ReuseIsProved
PROPERTY NothingWasted
CHECK_DEADLOCK FALSE
