--------------------------- MODULE MCServiceReload ---------------------------
EXTENDS ServiceReload, TLC

\* A commit that does something to one service, and nothing to the other.
Only(t, does) == [u \in Tags |-> IF u = t THEN does ELSE "same"]

\* Both change at once; one breaks and is mended; one changes and is dropped.
AllKinds ==
  {<<[t \in Tags |-> "works"]>>}
    \cup {<<Only(t, "breaks"), Only(t, "works")>> : t \in Tags}
    \cup {<<Only(t, "works"), Only(t, "goes")>> : t \in Tags}

Symmetric == Permutations(Tags)
=============================================================================
