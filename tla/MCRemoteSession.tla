---------------------------- MODULE MCRemoteSession ----------------------------
(* Instances of RemoteSession for TLC. *)
EXTENDS RemoteSession, TLC

\* Neither the sessions nor the answers are told apart.
Interchangeable == Permutations(Sessions) \cup Permutations(Answers)
=============================================================================
