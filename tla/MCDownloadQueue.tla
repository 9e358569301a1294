--------------------------- MODULE MCDownloadQueue ---------------------------
(* Instances of DownloadQueue for TLC. *)
EXTENDS DownloadQueue, TLC

\* Jobs, workers and listeners are interchangeable (for safety: no Stubborn job).
Symmetry == Permutations(Jobs) \cup Permutations(Workers) \cup Permutations(Listeners)
=============================================================================
