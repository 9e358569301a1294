--------------------------- MODULE MCSegmentReuse ---------------------------
EXTENDS SegmentReuse, TLC

Segments == 0..1
AnyMode  == Mode
Symmetric == Permutations(Runs) \cup Permutations(Digests)
=============================================================================
