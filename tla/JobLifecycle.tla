----------------------------- MODULE JobLifecycle -----------------------------
(***************************************************************************)
(* What the queue promises of a job, whoever runs it and however it is     *)
(* stopped: the JobStatus values it goes through (download_manager.py,     *)
(* JobStatus and DownloadJob; docs/dev/rest-api/job-lifecycle.md), and     *)
(* that the history has the end of every job.                              *)
(***************************************************************************)
EXTENDS Naturals, FiniteSets

CONSTANTS Jobs,   \* job ids
          Slots   \* how many jobs may download at once

VARIABLES state,  \* the job's status
          logged  \* jobs whose end has gone to the history

vars == <<state, logged>>

Ended == {"completed", "failed", "cancelled"}

Init == state = [j \in Jobs |-> "absent"] /\ logged = {}

Submit(j) ==
  /\ state[j] = "absent"
  /\ state' = [state EXCEPT ![j] = "queued"]
  /\ UNCHANGED logged

Begin(j) ==
  /\ state[j] = "queued"
  /\ Cardinality({k \in Jobs : state[k] = "downloading"}) < Slots
  /\ state' = [state EXCEPT ![j] = "downloading"]
  /\ UNCHANGED logged

\* A job that was cancelled cannot end otherwise.
End(j) ==
  /\ state[j] = "downloading"
  /\ \E s \in {"completed", "failed"} : state' = [state EXCEPT ![j] = s]
  /\ UNCHANGED logged

\* Whoever cancels a job may log it at once, or leave that to the job's worker.
Cancel(j) ==
  /\ state[j] \in {"queued", "downloading"}
  /\ state' = [state EXCEPT ![j] = "cancelled"]
  /\ logged' \in {logged, logged \cup {j}}

Log(j) ==
  /\ state[j] \in Ended /\ j \notin logged
  /\ logged' = logged \cup {j}
  /\ UNCHANGED state

Next == \E j \in Jobs : Submit(j) \/ Begin(j) \/ End(j) \/ Cancel(j) \/ Log(j)

Safety == Init /\ [][Next]_vars

Spec == Safety /\ \A j \in Jobs : WF_vars(Log(j))
=============================================================================
