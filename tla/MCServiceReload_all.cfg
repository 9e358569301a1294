SPECIFICATION Spec
CONSTANTS
 Tags = {t1, t2}
 Histories <- AllKinds
 MaxUsers = 1
 None = None
SYMMETRY Symmetric
INVARIANTS NothingForgotten StampIsRight StagedIsAwaited
CHECK_DEADLOCK FALSE
