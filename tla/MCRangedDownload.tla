--------------------------- MODULE MCRangedDownload ---------------------------
(* Instances of RangedDownload for TLC. *)
EXTENDS RangedDownload

\* In the middle of a five-byte resource, all of it, and past its end.
MCSlices == {<<1, 2>>, <<0, 4>>, <<1, 6>>}

\* split_ranges leaves no gap and no overlap, and no range is empty or backward.
ASSUME SplitCovers ==
  \A size \in 1..24, workers \in 1..6, target \in 1..8 :
    LET s == split_ranges(size, workers, target) IN
      /\ Len(s) \in 1..workers
      /\ s[1][1] = 0 /\ s[Len(s)][2] = size - 1
      /\ \A i \in 1..Len(s) : s[i][1] <= s[i][2]
      /\ \A i \in 1..Len(s) - 1 : s[i + 1][1] = s[i][2] + 1
=============================================================================
