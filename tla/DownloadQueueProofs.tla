-------------------------- MODULE DownloadQueueProofs --------------------------
(***************************************************************************)
(* Theorems about DownloadQueue, for any jobs, workers and listeners.      *)
(***************************************************************************)
EXTENDS DownloadQueue, FiniteSetTheorems, TLAPS

NoDup(s) == \A i, k \in 1..Len(s) : s[i] = s[k] => i = k

TaskLive == {"created", "spawning", "polling"}

\* A worker at these points has a job in hand.
Held == \A w \in Workers : worker[w] \in {"got", "running"} => holding[w] \in Jobs

Got(w, j)  == worker[w] = "got" /\ holding[w] = j
Runs(w, j) == worker[w] = "running" /\ holding[w] = j

\* A job has one FIFO copy, in the queue or in one worker's hand, and one
\* priority entry.
Copies ==
  /\ NoDup(fifo) /\ NoDup(priority)
  /\ \A w \in Workers, j \in Jobs : Got(w, j) => ~InSeq(j, fifo)
  /\ \A v, w \in Workers, j \in Jobs : Got(v, j) /\ Got(w, j) => v = w

\* An entry a worker would start is of a job that never was, and is its only one.
Startable ==
  \A j \in Jobs :
    /\ InSeq(j, priority) => task[j] = "none"
    /\ j \notin promoted /\ (InSeq(j, fifo) \/ \E w \in Workers : Got(w, j))
         => task[j] = "none" /\ ~InSeq(j, priority)

\* A job that was not created is nowhere.
Known ==
  \A j \in Jobs : status[j] = "absent" =>
    ~InSeq(j, fifo) /\ ~InSeq(j, priority) /\ \A w \in Workers : ~Got(w, j)

\* Where a job's task is says what its status can be.
StatusOfTask ==
  \A j \in Jobs :
    /\ task[j] = "none" => status[j] \in {"absent", "queued", "cancelled"}
    /\ task[j] \in TaskLive => status[j] \in {"downloading", "cancelled"}
    /\ task[j] = "done" => status[j] = "completed"
    /\ task[j] = "raised" => status[j] = "failed"
    /\ task[j] = "cancelled" => status[j] \in TERMINAL_STATUSES \cup {"downloading"}
    /\ task[j] = "cancelled" /\ server # "interrupted"
         => status[j] \in {"cancelled", "downloading"}

\* The workers that run jobs, and the tasks they wait for.
Running ==
  /\ \A w \in Workers, j \in Jobs : Runs(w, j) => task[j] # "none"
  /\ \A j \in Jobs : task[j] \in TaskLive => \E w \in Workers : Runs(w, j)

\* What has been recorded is over.
Settled ==
  \A j \in Jobs :
    /\ j \in recorded => /\ status[j] \in TERMINAL_STATUSES
                         /\ task[j] \notin TaskLive
                         /\ \A w \in Workers : ~Runs(w, j)
    /\ j \notin recorded => history[j] = <<>>

\* A task that spawns has written its files, and nobody cancels a task and
\* leaves its process without a signal.
Prepared ==
  server = "up" =>
    \A j \in Jobs : /\ task[j] = "spawning" => j \in disk
                    /\ j \in cancelReq => proc[j] # "running"

\* A worker is occupied by each job that downloads.
Slotted == \A j \in Jobs : status[j] = "downloading" => \E w \in Workers : Runs(w, j)

\* q ends with the end marker, behind the outcome s or with s read already.
NoEnd(q) == \A i \in 1..Len(q) : q[i] # "end"
Ending(q, s, seen) ==
  /\ q # <<>> /\ q[Len(q)] = "end"
  /\ \A i \in 1..Len(q) - 1 : q[i] # "end"
  /\ IF Len(q) >= 2 THEN q[Len(q) - 1] = s ELSE seen = s

\* What has been put into each stream, and what its client has seen.
Streamed(s, outcome) ==
  /\ s.at = "open" => NoEnd(s.inbox)
  /\ s.at = "closing" => outcome \in TERMINAL_STATUSES /\ Ending(s.inbox, outcome, s.seen)
  /\ s.at = "closed" => outcome \in TERMINAL_STATUSES /\ s.seen = outcome
Told ==
  server = "up" =>
    \A l \in Listeners : listener[l].at # "off" =>
      listener[l].job \in Jobs /\ Streamed(listener[l], status[listener[l].job])

IInv == /\ TypeOK /\ Held /\ Copies /\ Startable /\ Known /\ StatusOfTask
        /\ Running /\ OneWorkerPerJob /\ CancelPrecedesPoll /\ Settled /\ HistoryMatches

-----------------------------------------------------------------------------
(* Sequences.                                                              *)

\* Append adds its element and no other.
LEMMA AppendHas ==
  ASSUME NEW S, NEW s \in Seq(S), NEW j \in S, NEW k
  PROVE  InSeq(k, Append(s, j)) <=> InSeq(k, s) \/ k = j
<1>1. ASSUME InSeq(k, Append(s, j)) PROVE InSeq(k, s) \/ k = j
  BY <1>1 DEF InSeq
<1>2. ASSUME InSeq(k, s) PROVE InSeq(k, Append(s, j))
  <2>1. PICK i \in 1..Len(s) : s[i] = k
    BY <1>2 DEF InSeq
  <2>2. i \in 1..Len(Append(s, j)) /\ Append(s, j)[i] = k
    BY <2>1
  <2> QED BY <2>2 DEF InSeq
<1>3. ASSUME k = j PROVE InSeq(k, Append(s, j))
  <2>1. Len(s) + 1 \in 1..Len(Append(s, j)) /\ Append(s, j)[Len(s) + 1] = k
    BY <1>3
  <2> QED BY <2>1 DEF InSeq
<1> QED BY <1>1, <1>2, <1>3

\* Tail keeps only what was there, and Head was.
LEMMA TailHas ==
  ASSUME NEW S, NEW s \in Seq(S), s # <<>>
  PROVE  /\ Head(s) \in S /\ Tail(s) \in Seq(S)
         /\ InSeq(Head(s), s)
         /\ \A k : InSeq(k, Tail(s)) => InSeq(k, s)
<1>1. Len(s) >= 1 /\ Head(s) = s[1] /\ Head(s) \in S /\ Tail(s) \in Seq(S)
  OBVIOUS
<1>2. ASSUME NEW k, InSeq(k, Tail(s)) PROVE InSeq(k, s)
  <2>1. PICK i \in 1..Len(Tail(s)) : Tail(s)[i] = k
    BY <1>2 DEF InSeq
  <2>2. i + 1 \in 1..Len(s) /\ s[i + 1] = k
    BY <1>1, <2>1
  <2> QED BY <2>2 DEF InSeq
<1> QED BY <1>1, <1>2 DEF InSeq

\* A queue without duplicates stays so when something new joins it.
LEMMA AppendNoDup ==
  ASSUME NEW S, NEW s \in Seq(S), NEW j \in S, NoDup(s), ~InSeq(j, s)
  PROVE  NoDup(Append(s, j))
<1> SUFFICES ASSUME NEW i \in 1..Len(s) + 1, NEW k \in 1..Len(s) + 1,
                    Append(s, j)[i] = Append(s, j)[k]
             PROVE  i = k
  BY DEF NoDup
<1>1. CASE i \in 1..Len(s) /\ k \in 1..Len(s)
  BY <1>1 DEF NoDup
<1>2. CASE i = Len(s) + 1 \/ k = Len(s) + 1
  BY <1>2 DEF InSeq
<1> QED BY <1>1, <1>2

\* ... and when its head leaves, which is then gone.
LEMMA TailNoDup ==
  ASSUME NEW S, NEW s \in Seq(S), s # <<>>, NoDup(s)
  PROVE  NoDup(Tail(s)) /\ ~InSeq(Head(s), Tail(s))
<1>1. \A i \in 1..Len(Tail(s)) : i + 1 \in 1..Len(s) /\ Tail(s)[i] = s[i + 1]
  OBVIOUS
<1>2. NoDup(Tail(s))
  BY <1>1 DEF NoDup
<1>3. ~InSeq(Head(s), Tail(s))
  <2>1. Len(s) >= 1 /\ Head(s) = s[1]
    OBVIOUS
  <2> QED BY <1>1, <2>1 DEF NoDup, InSeq
<1> QED BY <1>2, <1>3

-----------------------------------------------------------------------------
(* Types.                                                                  *)

\* A listener's queue stays a queue of events.
LEMMA PutType ==
  ASSUME NEW q \in Seq(Events), NEW e \in Events
  PROVE  Put(q, e) \in Seq(Events)
<1>1. CASE Len(q) < QueueMax
  BY <1>1 DEF Put
<1>2. CASE ~(Len(q) < QueueMax)
  <2>1. q # <<>>
    BY <1>2, QueueAssumption
  <2> QED BY <1>2, <2>1, TailHas DEF Put
<1> QED BY <1>1, <1>2

\* ... and never outgrows its capacity.
LEMMA PutFits ==
  ASSUME NEW q \in Inboxes, NEW e \in Events
  PROVE  Put(q, e) \in Inboxes
<1>1. q \in Seq(Events) /\ Len(q) \in Nat /\ Len(q) <= QueueMax /\ QueueMax \in Nat /\ QueueMax >= 2
  BY QueueAssumption DEF Inboxes
<1>2. Put(q, e) \in Seq(Events)
  BY <1>1, PutType
<1>3. CASE Len(q) < QueueMax
  <2>1. Len(Put(q, e)) = Len(q) + 1
    BY <1>1, <1>3 DEF Put
  <2> QED BY <1>1, <1>2, <1>3, <2>1 DEF Inboxes
<1>4. CASE ~(Len(q) < QueueMax)
  <2>1. q # <<>> /\ Len(Tail(q)) = Len(q) - 1 /\ Tail(q) \in Seq(Events)
    BY <1>1, <1>4
  <2>2. Len(Put(q, e)) = Len(q)
    BY <1>1, <1>4, <2>1 DEF Put
  <2> QED BY <1>1, <1>2, <2>2 DEF Inboxes
<1> QED BY <1>3, <1>4

\* A stream built from parts of the right types is a listener's state.
LEMMA StreamType ==
  ASSUME NEW at \in {"off", "opening", "open", "closing", "closed"}, NEW j \in Jobs \cup {NoJob},
         NEW q \in Inboxes, NEW seen \in TERMINAL_STATUSES \cup {"none"}
  PROVE  Stream(at, j, q, seen) \in ListenerState
BY DEF Stream, ListenerState

\* ... and so is one with nothing in its queue.
LEMMA NewStreamType ==
  ASSUME NEW at \in {"off", "opening", "open", "closing", "closed"}, NEW j \in Jobs \cup {NoJob},
         NEW seen \in TERMINAL_STATUSES \cup {"none"}
  PROVE  Stream(at, j, <<>>, seen) \in ListenerState
<1>1. <<>> \in Inboxes
  BY QueueAssumption DEF Inboxes
<1> QED BY <1>1, StreamType

\* The parts of a listener's state have their types (publish() reads each of them).
LEMMA ListenerType ==
  ASSUME TypeOK, NEW l \in Listeners
  PROVE  /\ listener[l] \in ListenerState
         /\ listener[l].at \in {"off", "opening", "open", "closing", "closed"}
         /\ listener[l].job \in Jobs \cup {NoJob}
         /\ listener[l].inbox \in Inboxes /\ listener[l].inbox \in Seq(Events)
         /\ listener[l].seen \in TERMINAL_STATUSES \cup {"none"}
BY DEF TypeOK, ListenerState, Inboxes

\* publish() leaves every listener a listener.
LEMMA PublishType ==
  ASSUME TypeOK, NEW j \in Jobs, NEW e \in Events, Publish(j, e)
  PROVE  listener' \in [Listeners -> ListenerState]
<1> SUFFICES ASSUME NEW l \in Listeners PROVE listener'[l] \in ListenerState
  BY DEF Publish
<1>1. listener[l] \in ListenerState
  BY DEF TypeOK
<1>2. Put(listener[l].inbox, e) \in Inboxes
  BY ListenerType, PutFits
<1> QED BY <1>1, <1>2 DEF Publish, ListenerState

\* ... and so does publish_terminal().
LEMMA PublishTerminalType ==
  ASSUME TypeOK, NEW j \in Jobs, NEW s \in TERMINAL_STATUSES, PublishTerminal(j, s)
  PROVE  listener' \in [Listeners -> ListenerState]
<1> SUFFICES ASSUME NEW l \in Listeners PROVE listener'[l] \in ListenerState
  BY DEF PublishTerminal
<1>1. listener[l] \in ListenerState /\ listener[l].seen \in TERMINAL_STATUSES \cup {"none"}
  BY ListenerType
<1>2. Put(Put(listener[l].inbox, s), "end") \in Inboxes
  BY ListenerType, PutFits DEF Events
<1>3. Stream("closing", j, Put(Put(listener[l].inbox, s), "end"), listener[l].seen) \in ListenerState
  BY <1>1, <1>2, StreamType
<1> QED BY <1>1, <1>3 DEF PublishTerminal

\* record_job_history() adds a job and, maybe, a status to the history.
LEMMA RecordType ==
  ASSUME TypeOK, NEW j \in Jobs, NEW s \in TERMINAL_STATUSES, RecordJobHistory(j, s)
  PROVE  recorded' \in SUBSET Jobs /\ history' \in [Jobs -> Seq(TERMINAL_STATUSES)]
<1>1. recorded' \in SUBSET Jobs
  BY DEF RecordJobHistory, TypeOK, logVars
<1>2. Append(history[j], s) \in Seq(TERMINAL_STATUSES)
  BY DEF TypeOK
<1>3. history' \in [Jobs -> Seq(TERMINAL_STATUSES)]
  BY <1>2 DEF RecordJobHistory, TypeOK, logVars
<1> QED BY <1>1, <1>3

\* A worker that starts a job leaves every variable it changes in its type.
LEMMA StartType ==
  ASSUME TypeOK, NEW w \in Workers, NEW j \in Jobs, Start(w, j)
  PROVE  /\ status' \in [Jobs -> JobStatus]
         /\ worker' \in [Workers -> {"off", "idle", "waiting", "got", "running", "stopped"}]
         /\ holding' \in [Workers -> Jobs \cup {NoJob}]
         /\ task' \in [Jobs -> TaskState]
         /\ listener' \in [Listeners -> ListenerState]
<1>1. listener' \in [Listeners -> ListenerState]
  BY PublishType DEF Start, Events
<1> QED BY <1>1 DEF TypeOK, Start, JobStatus, TaskState

\* A worker that finishes a job finds an end in its task or its status.
LEMMA OutcomeType ==
  ASSUME TypeOK, StatusOfTask, NEW j \in Jobs, task[j] \in TaskDone
  PROVE  Outcome(j) \in TERMINAL_STATUSES
BY DEF TypeOK, StatusOfTask, TaskDone, Outcome, TERMINAL_STATUSES

\* The jobs shutdown() and Ctrl+C act on are jobs.
LEMMA ActiveType == ASSUME Held PROVE Active \in SUBSET Jobs
BY DEF Held, Active

\* No handler, worker, task or process takes a variable out of its type.
LEMMA TypeOKStep == ASSUME IInv, [Next]_vars PROVE TypeOK'
<1> USE DEF vars, apiVars, queues, pool, taskVars, logVars, stopVars,
           JobStatus, TaskState, ProcState, TERMINAL_STATUSES
<1>0. TypeOK /\ Held /\ StatusOfTask
  BY DEF IInv
<1>1. ASSUME NEW j \in Jobs, CreateJob(j) PROVE TypeOK'
  BY <1>0, <1>1 DEF TypeOK, CreateJob
<1>2. ASSUME NEW j \in Jobs, CancelQueued(j) PROVE TypeOK'
  <2>1. recorded' \in SUBSET Jobs /\ history' \in [Jobs -> Seq(TERMINAL_STATUSES)]
    BY <1>0, <1>2, RecordType DEF CancelQueued
  <2>2. listener' \in [Listeners -> ListenerState]
    BY <1>0, <1>2, PublishTerminalType DEF CancelQueued
  <2> QED BY <1>0, <1>2, <2>1, <2>2 DEF TypeOK, CancelQueued
<1>3. ASSUME NEW j \in Jobs, CancelDownloading(j) PROVE TypeOK'
  BY <1>0, <1>3 DEF TypeOK, CancelDownloading, Signal, Cancellable
<1>4. ASSUME NEW j \in Jobs, RemoveJob(j) PROVE TypeOK'
  BY <1>0, <1>4 DEF TypeOK, RemoveJob
<1>5. ASSUME NEW j \in Jobs, PrioritizeJob(j) PROVE TypeOK'
  BY <1>0, <1>5 DEF TypeOK, PrioritizeJob
<1>6. ASSUME NEW j \in Jobs, DeleteJobHistory(j) PROVE TypeOK'
  BY <1>0, <1>6 DEF TypeOK, DeleteJobHistory
<1>7. ASSUME ClearFinishedJobs PROVE TypeOK'
  BY <1>0, <1>7 DEF TypeOK, ClearFinishedJobs
<1>8. ASSUME CleanupOldJobs PROVE TypeOK'
  BY <1>0, <1>8 DEF TypeOK, CleanupOldJobs
<1>9. ASSUME StartDrain \/ StopDrain PROVE TypeOK'
  BY <1>0, <1>9 DEF TypeOK, StartDrain, StopDrain
<1>10. ASSUME NEW l \in Listeners, NEW j \in Jobs, OpenStream(l, j) PROVE TypeOK'
  <2>1. Stream("opening", j, <<>>, "none") \in ListenerState
    BY NewStreamType
  <2> QED BY <1>0, <1>10, <2>1 DEF TypeOK, OpenStream
<1>11. ASSUME NEW l \in Listeners, AttachStream(l) PROVE TypeOK'
  <2> DEFINE k == listener[l].job
  <2>1. status[k] \in TERMINAL_STATUSES => Stream("closed", k, <<>>, status[k]) \in ListenerState
    BY <1>0, ListenerType, NewStreamType
  <2>2. Stream("open", k, <<>>, "none") \in ListenerState
    BY <1>0, ListenerType, NewStreamType
  <2> QED BY <1>0, <1>11, <2>1, <2>2 DEF TypeOK, AttachStream
<1>12. ASSUME NEW l \in Listeners, ReadEvent(l) PROVE TypeOK'
  <2> DEFINE s == listener[l]  e == Head(s.inbox)
  <2>1. s.inbox # <<>> /\ s.inbox \in Seq(Events) /\ Len(s.inbox) <= QueueMax
    BY <1>0, <1>12, ListenerType DEF ReadEvent, Inboxes
  <2>2. e \in Events /\ Tail(s.inbox) \in Seq(Events) /\ Len(Tail(s.inbox)) <= QueueMax
    BY <2>1, QueueAssumption
  <2>4. Tail(s.inbox) \in Inboxes
    BY <2>2 DEF Inboxes
  <2>3. Stream(IF e = "end" THEN "closed" ELSE s.at, s.job, Tail(s.inbox),
               IF e \in TERMINAL_STATUSES THEN e ELSE s.seen) \in ListenerState
    BY <1>0, <2>2, <2>4, ListenerType, StreamType
  <2> QED BY <1>0, <1>12, <2>3 DEF TypeOK, ReadEvent
<1>13. ASSUME NEW l \in Listeners, CloseStream(l) PROVE TypeOK'
  <2>1. Stream("off", NoJob, <<>>, "none") \in ListenerState
    BY NewStreamType
  <2> QED BY <1>0, <1>13, <2>1 DEF TypeOK, CloseStream
<1>14. ASSUME NEW w \in Workers, PopPriority(w) PROVE TypeOK'
  <2>1. Head(priority) \in Jobs /\ Tail(priority) \in Seq(Jobs)
    BY <1>0, <1>14 DEF TypeOK, PopPriority
  <2>2. CASE Start(w, Head(priority))
    BY <1>0, <1>14, <2>1, <2>2, StartType DEF TypeOK, PopPriority
  <2>3. CASE UNCHANGED <<status, pool, task, listener>>
    BY <1>0, <1>14, <2>1, <2>3 DEF TypeOK, PopPriority
  <2> QED BY <1>14, <2>2, <2>3 DEF PopPriority
<1>15. ASSUME NEW w \in Workers, WaitForJob(w) PROVE TypeOK'
  BY <1>0, <1>15 DEF TypeOK, WaitForJob
<1>16. ASSUME NEW w \in Workers, WaitTimeout(w) PROVE TypeOK'
  BY <1>0, <1>16 DEF TypeOK, WaitTimeout
<1>17. ASSUME NEW w \in Workers, TakeFifo(w) PROVE TypeOK'
  BY <1>0, <1>17 DEF TypeOK, TakeFifo
<1>18. ASSUME NEW w \in Workers, SkipPromoted(w) PROVE TypeOK'
  BY <1>0, <1>18 DEF TypeOK, SkipPromoted, Release
<1>19. ASSUME NEW w \in Workers, SkipCancelled(w) PROVE TypeOK'
  BY <1>0, <1>19 DEF TypeOK, SkipCancelled, Release
<1>20. ASSUME NEW w \in Workers, StartTaken(w) PROVE TypeOK'
  <2>1. holding[w] \in Jobs
    BY <1>0, <1>20 DEF Held, StartTaken
  <2> QED BY <1>0, <1>20, <2>1, StartType DEF TypeOK, StartTaken
<1>21. ASSUME NEW w \in Workers, FinishJob(w) PROVE TypeOK'
  <2> DEFINE j == holding[w]
  <2>1. j \in Jobs
    BY <1>0, <1>21 DEF Held, FinishJob
  <2>2. Outcome(j) \in TERMINAL_STATUSES
    BY <1>0, <1>21, <2>1, OutcomeType DEF FinishJob
  <2>3. recorded' \in SUBSET Jobs /\ history' \in [Jobs -> Seq(TERMINAL_STATUSES)]
    BY <1>0, <1>21, <2>1, <2>2, RecordType DEF FinishJob
  <2>4. listener' \in [Listeners -> ListenerState]
    BY <1>0, <1>21, <2>1, <2>2, PublishTerminalType DEF FinishJob
  <2> HIDE DEF j
  <2>5. status' \in [Jobs -> JobStatus]
    BY <1>0, <1>21, <2>1, <2>2 DEF TypeOK, FinishJob, j
  <2> QED BY <1>0, <1>21, <2>3, <2>4, <2>5 DEF TypeOK, FinishJob, Release
<1>22. ASSUME NEW w \in Workers, LeaveLoop(w) PROVE TypeOK'
  BY <1>0, <1>22 DEF TypeOK, LeaveLoop
<1>23. ASSUME NEW j \in Jobs, BeginDownload(j) PROVE TypeOK'
  BY <1>0, <1>23 DEF TypeOK, BeginDownload
<1>24. ASSUME NEW j \in Jobs, Spawned(j) PROVE TypeOK'
  BY <1>0, <1>24 DEF TypeOK, Spawned
<1>25. ASSUME NEW j \in Jobs, SpawnFails(j) PROVE TypeOK'
  BY <1>0, <1>25 DEF TypeOK, SpawnFails, TaskDone
<1>26. ASSUME NEW j \in Jobs, CancelledEarly(j) PROVE TypeOK'
  BY <1>0, <1>26 DEF TypeOK, CancelledEarly, TaskDone
<1>27. ASSUME NEW j \in Jobs, TaskEnds(j) PROVE TypeOK'
  BY <1>0, <1>27 DEF TypeOK, TaskEnds, Unwind, TaskDone
<1>28. ASSUME NEW j \in Jobs, CancelledPolling(j) PROVE TypeOK'
  BY <1>0, <1>28 DEF TypeOK, CancelledPolling, Unwind, TaskDone
<1>29. ASSUME NEW j \in Jobs, Poll(j) PROVE TypeOK'
  <2>1. CASE status[j] = "cancelled"
    BY <1>0, <1>29, <2>1 DEF TypeOK, Poll
  <2>2. CASE status[j] # "cancelled"
    <3>1. listener' \in [Listeners -> ListenerState]
      BY <1>0, <1>29, <2>2, PublishType DEF Poll, Events
    <3> QED BY <1>0, <1>29, <2>2, <3>1 DEF TypeOK, Poll
  <2> QED BY <2>1, <2>2
<1>30. ASSUME NEW j \in Jobs, ProcExit(j) PROVE TypeOK'
  <2>1. proc' \in [Jobs -> ProcState]
    BY <1>0, <1>30 DEF TypeOK, ProcExit
  <2> QED BY <1>0, <1>30, <2>1 DEF TypeOK, ProcExit
<1>31. ASSUME Shutdown PROVE TypeOK'
  <2>1. listener' \in [Listeners -> ListenerState]
    <3>1. ASSUME NEW l \in Listeners PROVE
            Stream("closing", listener[l].job, Put(listener[l].inbox, "end"), listener[l].seen)
              \in ListenerState
      BY <1>0, ListenerType, PutFits, StreamType DEF Events
    <3> QED BY <1>0, <1>31, <3>1 DEF TypeOK, Shutdown
  <2>2. cancelReq' \in SUBSET Jobs /\ awaited' \in SUBSET Jobs
    BY <1>0, <1>31, ActiveType DEF TypeOK, Shutdown, Cancellable
  <2>3. proc' \in [Jobs -> ProcState]
    BY <1>0, <1>31 DEF TypeOK, Shutdown, Signal
  <2> QED BY <1>0, <1>31, <2>1, <2>2, <2>3 DEF TypeOK, Shutdown
<1>32. ASSUME NEW j \in Jobs, ShutdownReap(j) PROVE TypeOK'
  BY <1>0, <1>32 DEF TypeOK, ShutdownReap
<1>33. ASSUME ShutdownSweep PROVE TypeOK'
  BY <1>0, <1>33, ActiveType DEF TypeOK, ShutdownSweep
<1>34. ASSUME ShutdownJoin PROVE TypeOK'
  BY <1>0, <1>34 DEF TypeOK, ShutdownJoin
<1>35. ASSUME Interrupt PROVE TypeOK'
  <2>1. cancelReq' \in SUBSET Jobs
    BY <1>0, <1>35, ActiveType DEF TypeOK, Interrupt, Cancellable
  <2>2. worker' \in [Workers -> {"off", "idle", "waiting", "got", "running", "stopped"}]
    BY <1>0, <1>35 DEF TypeOK, Interrupt
  <2>3. task' \in [Jobs -> TaskState]
    BY <1>0, <1>35 DEF TypeOK, Interrupt, TaskDone
  <2> QED BY <1>0, <1>35, <2>1, <2>2, <2>3 DEF TypeOK, Interrupt
<1>36. CASE UNCHANGED vars
  BY <1>0, <1>36 DEF TypeOK
<1>40. ASSUME Api PROVE TypeOK'
  BY <1>40, <1>1, <1>2, <1>3, <1>4, <1>5, <1>6, <1>7, <1>8, <1>9, <1>10 DEF Api
<1>41. ASSUME Streams PROVE TypeOK'
  BY <1>41, <1>11, <1>12, <1>13 DEF Streams
<1>42. ASSUME NEW w \in Workers, WorkerStep(w) PROVE TypeOK'
  BY <1>42, <1>14, <1>15, <1>16, <1>17, <1>18, <1>19, <1>20, <1>21, <1>22 DEF WorkerStep
<1>43. ASSUME NEW j \in Jobs, TaskStep(j) \/ Poll(j) \/ ProcExit(j) PROVE TypeOK'
  BY <1>43, <1>23, <1>24, <1>25, <1>26, <1>27, <1>28, <1>29, <1>30 DEF TaskStep
<1>44. ASSUME Stop PROVE TypeOK'
  BY <1>44, <1>31, <1>32, <1>33, <1>34 DEF Stop
<1> QED BY <1>35, <1>36, <1>40, <1>41, <1>42, <1>43, <1>44 DEF Next

-----------------------------------------------------------------------------
(* The steps that matter to the rest of the invariant.                     *)

core == <<status, fifo, priority, promoted, worker, holding, task, cancelReq,
          recorded, history, server>>

\* Streams, processes, files and the table of listed jobs leave the core alone.
LEMMA StepCases ==
  ASSUME [Next]_vars
  PROVE  \/ UNCHANGED core
         \/ \E j \in Jobs : \/ CreateJob(j) \/ CancelQueued(j) \/ CancelDownloading(j)
                            \/ PrioritizeJob(j) \/ DeleteJobHistory(j)
                            \/ BeginDownload(j) \/ Spawned(j) \/ SpawnFails(j)
                            \/ CancelledEarly(j) \/ TaskEnds(j) \/ CancelledPolling(j) \/ Poll(j)
         \/ \E w \in Workers : \/ PopPriority(w) \/ WaitForJob(w) \/ WaitTimeout(w)
                               \/ TakeFifo(w) \/ SkipPromoted(w) \/ SkipCancelled(w)
                               \/ StartTaken(w) \/ FinishJob(w) \/ LeaveLoop(w)
         \/ Shutdown \/ ShutdownSweep \/ ShutdownJoin \/ Interrupt
<1> USE DEF vars, core, apiVars, queues, pool, taskVars, logVars, stopVars
<1>1. ASSUME NEW j \in Jobs, RemoveJob(j) \/ ProcExit(j) \/ ShutdownReap(j) PROVE UNCHANGED core
  BY <1>1 DEF RemoveJob, ProcExit, ShutdownReap
<1>2. ASSUME ClearFinishedJobs \/ CleanupOldJobs \/ StartDrain \/ StopDrain PROVE UNCHANGED core
  BY <1>2 DEF ClearFinishedJobs, CleanupOldJobs, StartDrain, StopDrain
<1>3. ASSUME NEW l \in Listeners,
             AttachStream(l) \/ ReadEvent(l) \/ CloseStream(l) \/ \E j \in Jobs : OpenStream(l, j)
      PROVE  UNCHANGED core
  BY <1>3 DEF AttachStream, ReadEvent, CloseStream, OpenStream
<1>4. CASE UNCHANGED vars
  BY <1>4
<1> QED BY <1>1, <1>2, <1>3, <1>4 DEF Next, Api, Streams, WorkerStep, TaskStep, Stop

-----------------------------------------------------------------------------
(* The parts of the invariant, one after the other.                        *)

LEMMA HeldStep == ASSUME IInv, [Next]_vars PROVE Held'
<1> USE DEF Held, apiVars, queues, pool, taskVars, logVars, stopVars
<1>0. TypeOK /\ Held
  BY DEF IInv
<1>1. CASE UNCHANGED <<worker, holding>>
  BY <1>0, <1>1
<1>2. ASSUME NEW j \in Jobs, CreateJob(j) PROVE Held'
  BY <1>0, <1>2 DEF TypeOK, CreateJob
<1>3. ASSUME NEW w \in Workers, PopPriority(w) PROVE Held'
  <2>1. Head(priority) \in Jobs
    BY <1>0, <1>3 DEF TypeOK, PopPriority
  <2> QED BY <1>0, <1>3, <2>1 DEF TypeOK, PopPriority, Start
<1>4. ASSUME NEW w \in Workers, WaitForJob(w) \/ WaitTimeout(w) \/ LeaveLoop(w) PROVE Held'
  BY <1>0, <1>4 DEF TypeOK, WaitForJob, WaitTimeout, LeaveLoop
<1>5. ASSUME NEW w \in Workers, TakeFifo(w) PROVE Held'
  <2>1. Head(fifo) \in Jobs
    BY <1>0, <1>5 DEF TypeOK, TakeFifo
  <2> QED BY <1>0, <1>5, <2>1 DEF TypeOK, TakeFifo
<1>6. ASSUME NEW w \in Workers, SkipPromoted(w) \/ SkipCancelled(w) \/ FinishJob(w) PROVE Held'
  BY <1>0, <1>6 DEF TypeOK, SkipPromoted, SkipCancelled, FinishJob, Release
<1>7. ASSUME NEW w \in Workers, StartTaken(w) PROVE Held'
  BY <1>0, <1>7 DEF TypeOK, StartTaken, Start
<1>8. ASSUME Interrupt PROVE Held'
  BY <1>0, <1>8 DEF TypeOK, Interrupt
<1>9. ASSUME NEW j \in Jobs, \/ CancelQueued(j) \/ CancelDownloading(j) \/ PrioritizeJob(j)
                            \/ DeleteJobHistory(j) \/ BeginDownload(j) \/ Spawned(j) \/ SpawnFails(j)
                            \/ CancelledEarly(j) \/ TaskEnds(j) \/ CancelledPolling(j) \/ Poll(j)
      PROVE  UNCHANGED <<worker, holding>>
  BY <1>9 DEF CancelQueued, CancelDownloading, PrioritizeJob, DeleteJobHistory, BeginDownload, Spawned,
              SpawnFails, CancelledEarly, TaskEnds, CancelledPolling, Poll
<1>10. ASSUME Shutdown \/ ShutdownSweep \/ ShutdownJoin PROVE UNCHANGED <<worker, holding>>
  BY <1>10 DEF Shutdown, ShutdownSweep, ShutdownJoin
<1> QED BY <1>1, <1>2, <1>3, <1>4, <1>5, <1>6, <1>7, <1>8, <1>9, <1>10, StepCases DEF core

\* No step but a worker's gives a worker a job.
LEMMA CopiesStep == ASSUME IInv, [Next]_vars PROVE Copies'
<1> USE DEF Got, apiVars, queues, pool, taskVars, logVars, stopVars
<1>0. TypeOK /\ Held /\ Copies /\ Known /\ Startable /\ StatusOfTask
  BY DEF IInv
<1>1. CASE UNCHANGED <<fifo, priority, worker, holding>>
  BY <1>0, <1>1 DEF Copies, NoDup, InSeq
<1>2. ASSUME NEW j \in Jobs, CreateJob(j) PROVE Copies'
  <2>1. ~InSeq(j, fifo) /\ \A w \in Workers : ~Got(w, j)
    BY <1>0, <1>2 DEF CreateJob, Known
  <2>2. NoDup(fifo')
    BY <1>0, <1>2, <2>1, AppendNoDup DEF CreateJob, TypeOK, Copies
  <2>3. \A k : InSeq(k, fifo') <=> InSeq(k, fifo) \/ k = j
    BY <1>0, <1>2, AppendHas DEF CreateJob, TypeOK
  <2>4. \A w \in Workers, k \in Jobs : Got(w, k)' <=> Got(w, k)
    BY <1>0, <1>2 DEF CreateJob, TypeOK
  <2>5. priority' = priority
    BY <1>2 DEF CreateJob
  <2> QED BY <1>0, <2>1, <2>2, <2>3, <2>4, <2>5 DEF Copies
<1>3. ASSUME NEW j \in Jobs, PrioritizeJob(j) PROVE Copies'
  <2>1. NoDup(priority')
    BY <1>0, <1>3, AppendNoDup DEF PrioritizeJob, TypeOK, Copies
  <2> QED BY <1>0, <1>3, <2>1 DEF PrioritizeJob, Copies, NoDup, InSeq
<1>4. ASSUME NEW w \in Workers, PopPriority(w) PROVE Copies'
  <2>1. NoDup(priority')
    BY <1>0, <1>4, TailNoDup DEF PopPriority, TypeOK, Copies
  <2>2. \A v \in Workers, j \in Jobs : Got(v, j)' => Got(v, j)
    BY <1>0, <1>4 DEF PopPriority, Start, TypeOK
  <2>3. fifo' = fifo
    BY <1>4 DEF PopPriority
  <2> QED BY <1>0, <2>1, <2>2, <2>3 DEF Copies, NoDup, InSeq
<1>5. ASSUME NEW w \in Workers, \/ WaitForJob(w) \/ WaitTimeout(w) \/ LeaveLoop(w) \/ SkipPromoted(w)
                               \/ SkipCancelled(w) \/ FinishJob(w) \/ StartTaken(w)
      PROVE  Copies'
  <2>1. \A v \in Workers, j \in Jobs : Got(v, j)' => Got(v, j)
    BY <1>0, <1>5 DEF WaitForJob, WaitTimeout, LeaveLoop, SkipPromoted, SkipCancelled, FinishJob,
                      StartTaken, Start, Release, TypeOK
  <2>2. fifo' = fifo /\ priority' = priority
    BY <1>5 DEF WaitForJob, WaitTimeout, LeaveLoop, SkipPromoted, SkipCancelled, FinishJob, StartTaken
  <2> QED BY <1>0, <2>1, <2>2 DEF Copies, NoDup, InSeq
<1>6. ASSUME NEW w \in Workers, TakeFifo(w) PROVE Copies'
  <2>1. fifo \in Seq(Jobs) /\ fifo # <<>> /\ fifo' = Tail(fifo) /\ priority' = priority
    BY <1>0, <1>6 DEF TakeFifo, TypeOK
  <2>2. NoDup(fifo') /\ ~InSeq(Head(fifo), fifo')
    BY <1>0, <2>1, TailNoDup DEF Copies
  <2>3. InSeq(Head(fifo), fifo) /\ \A k : InSeq(k, fifo') => InSeq(k, fifo)
    BY <2>1, TailHas
  <2>4. \A v \in Workers, j \in Jobs : Got(v, j)' => Got(v, j) \/ (v = w /\ j = Head(fifo))
    BY <1>0, <1>6 DEF TakeFifo, TypeOK
  <2> QED BY <1>0, <2>1, <2>2, <2>3, <2>4 DEF Copies, NoDup, InSeq
<1>7. ASSUME Interrupt PROVE Copies'
  <2>1. \A v \in Workers, j \in Jobs : Got(v, j)' => Got(v, j)
    BY <1>0, <1>7 DEF Interrupt, TypeOK
  <2>2. fifo' = fifo /\ priority' = priority
    BY <1>7 DEF Interrupt
  <2> QED BY <1>0, <2>1, <2>2 DEF Copies, NoDup, InSeq
<1>8. ASSUME NEW j \in Jobs, \/ CancelQueued(j) \/ CancelDownloading(j)
                            \/ DeleteJobHistory(j) \/ BeginDownload(j) \/ Spawned(j) \/ SpawnFails(j)
                            \/ CancelledEarly(j) \/ TaskEnds(j) \/ CancelledPolling(j) \/ Poll(j)
      PROVE  UNCHANGED <<fifo, priority, worker, holding>>
  BY <1>8 DEF CancelQueued, CancelDownloading, DeleteJobHistory, BeginDownload, Spawned,
              SpawnFails, CancelledEarly, TaskEnds, CancelledPolling, Poll
<1>9. ASSUME Shutdown \/ ShutdownSweep \/ ShutdownJoin
      PROVE UNCHANGED <<fifo, priority, worker, holding>>
  BY <1>9 DEF Shutdown, ShutdownSweep, ShutdownJoin
<1> QED BY <1>1, <1>2, <1>3, <1>4, <1>5, <1>6, <1>7, <1>8, <1>9, StepCases DEF core

\* Most steps put no job in a queue or in an idle worker's hand.
NoNewEntry ==
  \A j \in Jobs :
    /\ InSeq(j, fifo') => InSeq(j, fifo)
    /\ InSeq(j, priority') => InSeq(j, priority)
    /\ \A w \in Workers : Got(w, j)' => Got(w, j)
    /\ status'[j] = "absent" => status[j] = "absent"

\* Only a new job, a promotion and a worker's get() put an entry anywhere.
LEMMA EntrySteps ==
  ASSUME IInv, [Next]_vars
  PROVE  \/ NoNewEntry
         \/ \E j \in Jobs : CreateJob(j) \/ PrioritizeJob(j)
         \/ \E w \in Workers : TakeFifo(w)
<1> USE DEF NoNewEntry, apiVars, queues, pool, taskVars, logVars, stopVars
<1>0. TypeOK /\ Held /\ StatusOfTask
  BY DEF IInv
<1>1. CASE UNCHANGED core
  BY <1>1 DEF core, Got
<1>2. ASSUME NEW j \in Jobs, \/ CancelQueued(j) \/ CancelDownloading(j)
                            \/ DeleteJobHistory(j) \/ BeginDownload(j) \/ Spawned(j) \/ SpawnFails(j)
                            \/ CancelledEarly(j) \/ TaskEnds(j) \/ CancelledPolling(j) \/ Poll(j)
      PROVE  NoNewEntry
  <2>1. UNCHANGED <<fifo, priority, worker, holding>>
    BY <1>2 DEF CancelQueued, CancelDownloading, DeleteJobHistory, BeginDownload, Spawned,
                SpawnFails, CancelledEarly, TaskEnds, CancelledPolling, Poll
  <2>2. \A k \in Jobs : status'[k] = "absent" => status[k] = "absent"
    BY <1>0, <1>2 DEF TypeOK, CancelQueued, CancelDownloading, DeleteJobHistory, BeginDownload, Spawned,
                SpawnFails, CancelledEarly, TaskEnds, CancelledPolling, Poll
  <2> QED BY <2>1, <2>2 DEF Got
<1>3. ASSUME NEW w \in Workers, PopPriority(w) PROVE NoNewEntry
  <2>1. \A j : InSeq(j, priority') => InSeq(j, priority)
    BY <1>0, <1>3, TailHas DEF PopPriority, TypeOK
  <2>2. \A v \in Workers, j \in Jobs : Got(v, j)' => Got(v, j)
    BY <1>0, <1>3 DEF PopPriority, Start, TypeOK, Got
  <2>3. \A k \in Jobs : status'[k] = "absent" => status[k] = "absent"
    BY <1>0, <1>3 DEF PopPriority, Start, TypeOK
  <2>4. fifo' = fifo
    BY <1>3 DEF PopPriority
  <2> QED BY <2>1, <2>2, <2>3, <2>4
<1>4. ASSUME NEW w \in Workers, \/ WaitForJob(w) \/ WaitTimeout(w) \/ LeaveLoop(w) \/ SkipPromoted(w)
                               \/ SkipCancelled(w) \/ StartTaken(w)
      PROVE  NoNewEntry
  <2>1. \A v \in Workers, j \in Jobs : Got(v, j)' => Got(v, j)
    BY <1>0, <1>4 DEF WaitForJob, WaitTimeout, LeaveLoop, SkipPromoted, SkipCancelled,
                      StartTaken, Start, Release, TypeOK, Got
  <2>2. fifo' = fifo /\ priority' = priority
    BY <1>4 DEF WaitForJob, WaitTimeout, LeaveLoop, SkipPromoted, SkipCancelled, StartTaken
  <2>3. \A k \in Jobs : status'[k] = "absent" => status[k] = "absent"
    BY <1>0, <1>4 DEF WaitForJob, WaitTimeout, LeaveLoop, SkipPromoted, SkipCancelled, StartTaken, Start, TypeOK
  <2> QED BY <2>1, <2>2, <2>3
<1>5. ASSUME NEW w \in Workers, FinishJob(w) PROVE NoNewEntry
  <2>1. \A v \in Workers, j \in Jobs : Got(v, j)' => Got(v, j)
    BY <1>0, <1>5 DEF FinishJob, Release, TypeOK, Got
  <2>2. Outcome(holding[w]) \in TERMINAL_STATUSES
    BY <1>0, <1>5, OutcomeType DEF FinishJob, Held
  <2>3. \A k \in Jobs : status'[k] = "absent" => status[k] = "absent"
    BY <1>0, <1>5, <2>2 DEF FinishJob, TypeOK, TERMINAL_STATUSES
  <2>4. fifo' = fifo /\ priority' = priority
    BY <1>5 DEF FinishJob
  <2> QED BY <2>1, <2>3, <2>4
<1>6. ASSUME Interrupt PROVE NoNewEntry
  <2>1. \A v \in Workers, j \in Jobs : Got(v, j)' => Got(v, j)
    BY <1>0, <1>6 DEF Interrupt, TypeOK, Got
  <2> QED BY <2>1, <1>6 DEF Interrupt
<1>7. ASSUME Shutdown \/ ShutdownSweep \/ ShutdownJoin PROVE NoNewEntry
  BY <1>7 DEF Shutdown, ShutdownSweep, ShutdownJoin, Got
<1> QED BY <1>1, <1>2, <1>3, <1>4, <1>5, <1>6, <1>7, StepCases

\* A job nobody created is on no queue and in no hand.
LEMMA KnownStep == ASSUME IInv, [Next]_vars PROVE Known'
<1> USE DEF Known
<1>0. TypeOK /\ Known
  BY DEF IInv
<1>1. CASE NoNewEntry
  BY <1>0, <1>1 DEF NoNewEntry
<1>2. ASSUME NEW j \in Jobs, CreateJob(j) PROVE Known'
  <2>1. \A k \in Jobs : status'[k] = "absent" => status[k] = "absent" /\ k # j
    BY <1>0, <1>2 DEF CreateJob, TypeOK
  <2>2. \A k : InSeq(k, fifo') <=> InSeq(k, fifo) \/ k = j
    BY <1>0, <1>2, AppendHas DEF CreateJob, TypeOK
  <2>3. \A w \in Workers, k \in Jobs : Got(w, k)' <=> Got(w, k)
    BY <1>0, <1>2 DEF CreateJob, TypeOK, Got, pool
  <2>4. priority' = priority
    BY <1>2 DEF CreateJob
  <2> QED BY <1>0, <2>1, <2>2, <2>3, <2>4
<1>3. ASSUME NEW j \in Jobs, PrioritizeJob(j) PROVE Known'
  <2>1. \A k : InSeq(k, priority') <=> InSeq(k, priority) \/ k = j
    BY <1>0, <1>3, AppendHas DEF PrioritizeJob, TypeOK
  <2>2. fifo' = fifo /\ status' = status /\ UNCHANGED <<worker, holding>> /\ status[j] = "queued"
    BY <1>3 DEF PrioritizeJob, pool
  <2> QED BY <1>0, <2>1, <2>2 DEF Got
<1>4. ASSUME NEW w \in Workers, TakeFifo(w) PROVE Known'
  <2>1. /\ InSeq(Head(fifo), fifo)
        /\ \A k : InSeq(k, fifo') => InSeq(k, fifo)
    BY <1>0, <1>4, TailHas DEF TakeFifo, TypeOK
  <2>2. \A v \in Workers, k \in Jobs : Got(v, k)' => Got(v, k) \/ k = Head(fifo)
    BY <1>0, <1>4 DEF TakeFifo, TypeOK, Got
  <2>3. priority' = priority /\ status' = status
    BY <1>4 DEF TakeFifo
  <2> QED BY <1>0, <2>1, <2>2, <2>3
<1> QED BY <1>1, <1>2, <1>3, <1>4, EntrySteps

\* A job that is new or waits has no task.
LEMMA TaskNone ==
  ASSUME TypeOK, StatusOfTask, NEW j \in Jobs, status[j] \in {"absent", "queued"}
  PROVE  task[j] = "none"
<1>1. task[j] \in {"none"} \cup TaskLive \cup TaskDone
  BY DEF TypeOK, TaskState, TaskLive, TaskDone
<1> QED BY <1>1 DEF StatusOfTask, TaskDone, TERMINAL_STATUSES

\* What a worker starts: a queued job that has no task and that nobody recorded.
LEMMA StartFresh ==
  ASSUME IInv, NEW w \in Workers, NEW j \in Jobs, Start(w, j),
         InSeq(j, priority) \/ (Got(w, j) /\ j \notin promoted)
  PROVE  task[j] = "none" /\ j \notin recorded /\ status[j] = "queued"
<1>1. task[j] = "none"
  BY DEF IInv, Startable
<1>2. status[j] = "queued"
  BY <1>1 DEF IInv, StatusOfTask, Start, Known
<1>3. j \notin recorded
  BY <1>2 DEF IInv, Settled, TERMINAL_STATUSES
<1> QED BY <1>1, <1>2, <1>3

\* ... and where it got it from.
LEMMA StartsFrom ==
  ASSUME IInv, NEW w \in Workers,
         StartTaken(w) \/ (PopPriority(w) /\ ~UNCHANGED <<status, pool, task, listener>>)
  PROVE  \E j \in Jobs :
           /\ Start(w, j) /\ task[j] = "none" /\ j \notin recorded
           /\ status[j] = "queued" /\ worker[w] # "running"
<1>1. CASE StartTaken(w)
  <2>1. holding[w] \in Jobs /\ Got(w, holding[w]) /\ holding[w] \notin promoted /\ Start(w, holding[w])
    BY <1>1 DEF IInv, Held, StartTaken, Got
  <2> QED BY <2>1, StartFresh DEF Got
<1>2. CASE PopPriority(w) /\ ~UNCHANGED <<status, pool, task, listener>>
  <2>1. priority \in Seq(Jobs) /\ priority # <<>> /\ Start(w, Head(priority)) /\ worker[w] = "idle"
    BY <1>2 DEF IInv, TypeOK, PopPriority, Idle
  <2>2. Head(priority) \in Jobs /\ InSeq(Head(priority), priority)
    BY <2>1, TailHas
  <2> QED BY <2>1, <2>2, StartFresh
<1> QED BY <1>1, <1>2

\* A task is created for a job by the worker that starts it, and never again.
LEMMA TaskSteps ==
  ASSUME IInv, [Next]_vars
  PROVE  \/ /\ \A j \in Jobs : task[j] = "none" => task'[j] = "none"
            /\ \A w \in Workers, j \in Jobs : Runs(w, j)' => Runs(w, j)
         \/ \E w \in Workers : StartTaken(w) \/ (PopPriority(w) /\ ~UNCHANGED <<status, pool, task, listener>>)
<1> USE DEF apiVars, queues, pool, taskVars, logVars, stopVars, Runs
<1> DEFINE Same == /\ \A j \in Jobs : task[j] = "none" => task'[j] = "none"
                   /\ \A w \in Workers, j \in Jobs : Runs(w, j)' => Runs(w, j)
<1>0. TypeOK
  BY DEF IInv
<1>1. CASE UNCHANGED core
  BY <1>1 DEF core
<1>2. ASSUME NEW j \in Jobs, \/ CreateJob(j) \/ PrioritizeJob(j) \/ CancelQueued(j) \/ CancelDownloading(j)
                            \/ DeleteJobHistory(j) \/ Poll(j)
      PROVE  Same
  BY <1>0, <1>2 DEF TypeOK, CreateJob, PrioritizeJob, CancelQueued, CancelDownloading, DeleteJobHistory, Poll
<1>3. ASSUME NEW j \in Jobs, \/ BeginDownload(j) \/ Spawned(j) \/ SpawnFails(j)
                            \/ CancelledEarly(j) \/ TaskEnds(j) \/ CancelledPolling(j)
      PROVE  Same
  BY <1>0, <1>3 DEF TypeOK, BeginDownload, Spawned, SpawnFails, CancelledEarly, TaskEnds, CancelledPolling
<1>4. ASSUME NEW w \in Workers, \/ WaitForJob(w) \/ WaitTimeout(w) \/ LeaveLoop(w) \/ SkipPromoted(w)
                               \/ SkipCancelled(w) \/ TakeFifo(w) \/ FinishJob(w)
      PROVE  Same
  BY <1>0, <1>4 DEF TypeOK, WaitForJob, WaitTimeout, LeaveLoop, SkipPromoted, SkipCancelled, TakeFifo,
                    FinishJob, Release
<1>5. ASSUME Interrupt PROVE Same
  BY <1>0, <1>5 DEF TypeOK, Interrupt, TaskDone
<1>6. ASSUME Shutdown \/ ShutdownSweep \/ ShutdownJoin PROVE Same
  BY <1>6 DEF Shutdown, ShutdownSweep, ShutdownJoin
<1> QED BY <1>1, <1>2, <1>3, <1>4, <1>5, <1>6, StepCases

\* What a worker would start has no task yet, and no second entry to start it from.
LEMMA StartableStep == ASSUME IInv, [Next]_vars PROVE Startable'
<1> USE DEF apiVars, queues, pool, taskVars, logVars, stopVars
<1>0. TypeOK /\ Held /\ Copies /\ Known /\ Startable /\ StatusOfTask
  BY DEF IInv
<1>1. ASSUME NoNewEntry, promoted \subseteq promoted', \A j \in Jobs : task[j] = "none" => task'[j] = "none"
      PROVE  Startable'
  BY <1>0, <1>1 DEF Startable, NoNewEntry
<1>2. ASSUME NEW j \in Jobs, CreateJob(j) PROVE Startable'
  <2>1. \A k : InSeq(k, fifo') <=> InSeq(k, fifo) \/ k = j
    BY <1>0, <1>2, AppendHas DEF CreateJob, TypeOK
  <2>2. \A w \in Workers, k \in Jobs : Got(w, k)' <=> Got(w, k)
    BY <1>0, <1>2 DEF CreateJob, TypeOK, Got
  <2>3. task[j] = "none" /\ ~InSeq(j, priority)
    BY <1>0, <1>2, TaskNone DEF CreateJob, Known
  <2>4. UNCHANGED <<priority, task, promoted>>
    BY <1>2 DEF CreateJob
  <2> QED BY <1>0, <2>1, <2>2, <2>3, <2>4 DEF Startable
<1>3. ASSUME NEW j \in Jobs, PrioritizeJob(j) PROVE Startable'
  <2>1. \A k : InSeq(k, priority') <=> InSeq(k, priority) \/ k = j
    BY <1>0, <1>3, AppendHas DEF PrioritizeJob, TypeOK
  <2>2. task[j] = "none"
    BY <1>0, <1>3, TaskNone DEF PrioritizeJob
  <2>3. UNCHANGED <<fifo, task, worker, holding>> /\ promoted' = promoted \cup {j}
    BY <1>3 DEF PrioritizeJob
  <2> QED BY <1>0, <2>1, <2>2, <2>3 DEF Startable, Got
<1>4. ASSUME NEW w \in Workers, TakeFifo(w) PROVE Startable'
  <2>1. /\ InSeq(Head(fifo), fifo)
        /\ \A k : InSeq(k, fifo') => InSeq(k, fifo)
    BY <1>0, <1>4, TailHas DEF TakeFifo, TypeOK
  <2>2. \A v \in Workers, k \in Jobs : Got(v, k)' => Got(v, k) \/ k = Head(fifo)
    BY <1>0, <1>4 DEF TakeFifo, TypeOK, Got
  <2>3. UNCHANGED <<priority, task, promoted>>
    BY <1>4 DEF TakeFifo
  <2> QED BY <1>0, <2>1, <2>2, <2>3 DEF Startable
<1>5. ASSUME NEW w \in Workers, SkipPromoted(w) PROVE Startable'
  <2>1. \A v \in Workers, k \in Jobs : Got(v, k)' => Got(v, k) /\ v # w
    BY <1>0, <1>5 DEF SkipPromoted, Release, TypeOK, Got
  <2>2. PICK j \in Jobs : j = holding[w] /\ Got(w, j)
    BY <1>0, <1>5 DEF SkipPromoted, Held, Got
  <2>3. ~InSeq(j, fifo) /\ \A v \in Workers : ~Got(v, j)'
    BY <1>0, <2>1, <2>2 DEF Copies
  <2>4. UNCHANGED <<fifo, priority, task>> /\ promoted' = promoted \ {j}
    BY <1>5, <2>2 DEF SkipPromoted
  <2> QED BY <1>0, <2>1, <2>3, <2>4 DEF Startable
<1>6. ASSUME NEW w \in Workers, StartTaken(w) PROVE Startable'
  <2>1. PICK j \in Jobs : j = holding[w] /\ Got(w, j) /\ j \notin promoted
    BY <1>0, <1>6 DEF StartTaken, Held, Got
  <2>2. \A v \in Workers, k \in Jobs : Got(v, k)' => Got(v, k) /\ v # w
    BY <1>0, <1>6 DEF StartTaken, Start, TypeOK, Got
  <2>3. ~InSeq(j, fifo) /\ ~InSeq(j, priority) /\ \A v \in Workers : ~Got(v, j)'
    BY <1>0, <2>1, <2>2 DEF Copies, Startable
  <2>4. \A k \in Jobs : k # j => task'[k] = task[k]
    BY <1>0, <1>6, <2>1 DEF StartTaken, Start, TypeOK
  <2>5. UNCHANGED <<fifo, priority, promoted>>
    BY <1>6 DEF StartTaken
  <2> QED BY <1>0, <2>2, <2>3, <2>4, <2>5 DEF Startable
<1>7. ASSUME NEW w \in Workers, PopPriority(w) PROVE Startable'
  <2> DEFINE j == Head(priority)
  <2>1. priority \in Seq(Jobs) /\ priority # <<>> /\ priority' = Tail(priority)
    BY <1>0, <1>7 DEF PopPriority, TypeOK
  <2>2. j \in Jobs /\ InSeq(j, priority) /\ \A k : InSeq(k, priority') => InSeq(k, priority)
    BY <2>1, TailHas
  <2>3. ~InSeq(j, priority')
    BY <1>0, <2>1, TailNoDup DEF Copies
  <2>4. \A v \in Workers, k \in Jobs : Got(v, k)' => Got(v, k)
    BY <1>0, <1>7 DEF PopPriority, Start, TypeOK, Got
  <2>5. \A k \in Jobs : k # j => task'[k] = task[k]
    BY <1>0, <1>7 DEF PopPriority, Start, TypeOK
  <2>6. UNCHANGED <<fifo, promoted>>
    BY <1>7 DEF PopPriority
  <2> HIDE DEF j
  <2> QED BY <1>0, <2>2, <2>3, <2>4, <2>5, <2>6 DEF Startable
<1>8. ASSUME NEW w \in Workers, \/ WaitForJob(w) \/ WaitTimeout(w) \/ LeaveLoop(w)
                               \/ SkipCancelled(w) \/ FinishJob(w)
      PROVE  UNCHANGED promoted
  BY <1>8 DEF WaitForJob, WaitTimeout, LeaveLoop, SkipCancelled, FinishJob
<1>9. ASSUME NEW j \in Jobs, \/ CancelQueued(j) \/ CancelDownloading(j)
                            \/ DeleteJobHistory(j) \/ BeginDownload(j) \/ Spawned(j) \/ SpawnFails(j)
                            \/ CancelledEarly(j) \/ TaskEnds(j) \/ CancelledPolling(j) \/ Poll(j)
      PROVE  UNCHANGED promoted
  BY <1>9 DEF CancelQueued, CancelDownloading, DeleteJobHistory, BeginDownload, Spawned,
              SpawnFails, CancelledEarly, TaskEnds, CancelledPolling, Poll
<1>10. ASSUME Shutdown \/ ShutdownSweep \/ ShutdownJoin \/ Interrupt PROVE UNCHANGED promoted
  BY <1>10 DEF Shutdown, ShutdownSweep, ShutdownJoin, Interrupt
<1>11. \/ UNCHANGED promoted
       \/ \E j \in Jobs : CreateJob(j) \/ PrioritizeJob(j)
       \/ \E w \in Workers : TakeFifo(w) \/ SkipPromoted(w) \/ StartTaken(w) \/ PopPriority(w)
  BY <1>8, <1>9, <1>10, StepCases DEF core
<1> QED BY <1>1, <1>2, <1>3, <1>4, <1>5, <1>6, <1>7, <1>11, EntrySteps, TaskSteps

\* The status of a job keeps to what its task has come to.
LEMMA StatusOfTaskStep == ASSUME IInv, [Next]_vars PROVE StatusOfTask'
<1> USE DEF StatusOfTask, TaskLive, TERMINAL_STATUSES, apiVars, queues, pool, taskVars, logVars, stopVars
<1>0. TypeOK /\ Held /\ StatusOfTask /\ CancelPrecedesPoll
  BY DEF IInv
<1>1. CASE UNCHANGED <<status, task, server>>
  BY <1>0, <1>1
<1>2. ASSUME NEW j \in Jobs, CreateJob(j) \/ CancelQueued(j) PROVE StatusOfTask'
  <2>1. task[j] = "none"
    BY <1>0, <1>2, TaskNone DEF CreateJob, CancelQueued
  <2> QED BY <1>0, <1>2, <2>1 DEF TypeOK, CreateJob, CancelQueued
<1>3. ASSUME NEW j \in Jobs, CancelDownloading(j) PROVE StatusOfTask'
  BY <1>0, <1>3 DEF TypeOK, CancelDownloading
<1>4. ASSUME NEW j \in Jobs, \/ BeginDownload(j) \/ Spawned(j) \/ SpawnFails(j)
                            \/ CancelledEarly(j) \/ TaskEnds(j) \/ CancelledPolling(j)
      PROVE  StatusOfTask'
  BY <1>0, <1>4 DEF TypeOK, BeginDownload, Spawned, SpawnFails, CancelledEarly, TaskEnds, CancelledPolling
<1>5. ASSUME NEW w \in Workers, StartTaken(w) PROVE StatusOfTask'
  BY <1>0, <1>5 DEF TypeOK, StartTaken, Start
<1>6. ASSUME NEW w \in Workers, PopPriority(w) PROVE StatusOfTask'
  BY <1>0, <1>6 DEF TypeOK, PopPriority, Start
<1>7. ASSUME NEW w \in Workers, FinishJob(w) PROVE StatusOfTask'
  <2>1. PICK j \in Jobs : j = holding[w]
    BY <1>0, <1>7 DEF FinishJob, Held
  <2>2. /\ task[j] \in TaskDone /\ task' = task /\ server' = server
        /\ status' = [status EXCEPT ![j] = Outcome(j)]
    BY <1>7, <2>1 DEF FinishJob
  <2> QED BY <1>0, <2>2 DEF TypeOK, TaskDone, Outcome
<1>8. ASSUME Interrupt PROVE StatusOfTask'
  BY <1>0, <1>8 DEF TypeOK, Interrupt, TaskDone
<1>9. ASSUME Shutdown \/ ShutdownSweep \/ ShutdownJoin PROVE StatusOfTask'
  BY <1>0, <1>9 DEF Shutdown, ShutdownSweep, ShutdownJoin
<1>10. ASSUME NEW j \in Jobs, PrioritizeJob(j) \/ DeleteJobHistory(j) \/ Poll(j)
       PROVE  UNCHANGED <<status, task, server>>
  BY <1>10 DEF PrioritizeJob, DeleteJobHistory, Poll
<1>11. ASSUME NEW w \in Workers, \/ WaitForJob(w) \/ WaitTimeout(w) \/ LeaveLoop(w) \/ TakeFifo(w)
                               \/ SkipPromoted(w) \/ SkipCancelled(w)
       PROVE  UNCHANGED <<status, task, server>>
  BY <1>11 DEF WaitForJob, WaitTimeout, LeaveLoop, TakeFifo, SkipPromoted, SkipCancelled
<1> QED BY <1>1, <1>2, <1>3, <1>4, <1>5, <1>6, <1>7, <1>8, <1>9, <1>10, <1>11, StepCases DEF core

\* A step that starts and ends nothing leaves every job with its worker.
LEMMA RunsSame ==
  ASSUME IInv, [Next]_vars,
         \A v \in Workers, k \in Jobs : Runs(v, k)' <=> Runs(v, k),
         \A k \in Jobs : /\ task[k] # "none" => task'[k] # "none"
                         /\ task'[k] \in TaskLive => task[k] \in TaskLive
  PROVE  Running' /\ OneWorkerPerJob'
<1>1. Running'
  BY DEF IInv, Running
<1>2. \A w \in Workers : worker'[w] = "running" => holding'[w] \in Jobs
  BY HeldStep DEF Held
<1>3. OneWorkerPerJob'
  BY <1>2 DEF IInv, OneWorkerPerJob, Runs
<1> QED BY <1>1, <1>3

\* Every task that is not over has a worker that waits for it, and no job has two.
LEMMA RunningStep == ASSUME IInv, [Next]_vars PROVE Running' /\ OneWorkerPerJob'
<1> USE DEF Running, OneWorkerPerJob, Runs, TaskLive, apiVars, queues, pool, taskVars, logVars, stopVars
<1>0. TypeOK /\ Held /\ Running /\ OneWorkerPerJob
  BY DEF IInv
<1>1. CASE UNCHANGED <<worker, holding, task>>
  BY <1>0, <1>1
<1>2. ASSUME NEW w \in Workers,
             StartTaken(w) \/ (PopPriority(w) /\ ~UNCHANGED <<status, pool, task, listener>>)
      PROVE  Running' /\ OneWorkerPerJob'
  <2>1. PICK j \in Jobs : Start(w, j) /\ task[j] = "none" /\ worker[w] # "running"
    BY <1>2, StartsFrom
  <2>2. \A v \in Workers : ~Runs(v, j)
    BY <1>0, <2>1
  <2>3. \A v \in Workers, k \in Jobs : Runs(v, k)' <=> Runs(v, k) \/ (v = w /\ k = j)
    BY <1>0, <2>1 DEF Start, TypeOK
  <2>4. task'[j] = "created" /\ \A k \in Jobs : k # j => task'[k] = task[k]
    BY <1>0, <2>1 DEF Start, TypeOK
  <2>5. Running'
    BY <1>0, <2>2, <2>3, <2>4
  <2>6. \A v \in Workers : worker'[v] = "running" => holding'[v] \in Jobs
    BY HeldStep DEF Held
  <2>7. OneWorkerPerJob'
    BY <1>0, <2>2, <2>3, <2>6
  <2> QED BY <2>5, <2>7
<1>3. ASSUME NEW w \in Workers, \/ WaitForJob(w) \/ WaitTimeout(w) \/ LeaveLoop(w) \/ TakeFifo(w)
                               \/ SkipPromoted(w) \/ SkipCancelled(w)
      PROVE  Running' /\ OneWorkerPerJob'
  <2>1. task' = task
    BY <1>3 DEF WaitForJob, WaitTimeout, LeaveLoop, TakeFifo, SkipPromoted, SkipCancelled
  <2>2. \A v \in Workers, k \in Jobs : Runs(v, k)' <=> Runs(v, k)
    BY <1>0, <1>3 DEF TypeOK, WaitForJob, WaitTimeout, LeaveLoop, TakeFifo, SkipPromoted, SkipCancelled,
                      Release, Idle
  <2> QED BY <1>0, <2>1, <2>2, RunsSame
<1>4. ASSUME NEW w \in Workers, FinishJob(w) PROVE Running' /\ OneWorkerPerJob'
  BY <1>0, <1>4 DEF TypeOK, FinishJob, Release, TaskDone
<1>5. ASSUME NEW j \in Jobs, \/ BeginDownload(j) \/ Spawned(j) \/ SpawnFails(j)
                            \/ CancelledEarly(j) \/ TaskEnds(j) \/ CancelledPolling(j)
      PROVE  Running' /\ OneWorkerPerJob'
  BY <1>0, <1>5 DEF TypeOK, BeginDownload, Spawned, SpawnFails, CancelledEarly, TaskEnds, CancelledPolling
<1>6. ASSUME NEW j \in Jobs, CreateJob(j) PROVE Running' /\ OneWorkerPerJob'
  BY <1>0, <1>6 DEF TypeOK, CreateJob
<1>7. ASSUME Interrupt PROVE Running' /\ OneWorkerPerJob'
  <2>1. \A k \in Jobs : /\ task[k] # "none" => task'[k] # "none"
                        /\ task'[k] \in TaskLive => task[k] \in TaskLive
    BY <1>0, <1>7 DEF TypeOK, Interrupt, TaskDone
  <2>2. \A v \in Workers, k \in Jobs : Runs(v, k)' <=> Runs(v, k)
    BY <1>0, <1>7 DEF TypeOK, Interrupt
  <2> QED BY <1>0, <2>1, <2>2, RunsSame
<1>8. ASSUME NEW j \in Jobs, \/ CancelQueued(j) \/ CancelDownloading(j) \/ PrioritizeJob(j)
                            \/ DeleteJobHistory(j) \/ Poll(j)
      PROVE  UNCHANGED <<worker, holding, task>>
  BY <1>8 DEF CancelQueued, CancelDownloading, PrioritizeJob, DeleteJobHistory, Poll
<1>9. ASSUME Shutdown \/ ShutdownSweep \/ ShutdownJoin PROVE UNCHANGED <<worker, holding, task>>
  BY <1>9 DEF Shutdown, ShutdownSweep, ShutdownJoin
<1>10. ASSUME UNCHANGED <<status, pool, task, listener>> PROVE UNCHANGED <<worker, holding, task>>
  BY <1>10
<1> QED BY <1>1, <1>2, <1>3, <1>4, <1>5, <1>6, <1>7, <1>8, <1>9, <1>10, StepCases DEF core

\* The cancellation of a job is with its task from the moment it is marked.
LEMMA CancelPrecedesPollStep == ASSUME IInv, [Next]_vars PROVE CancelPrecedesPoll'
<1> USE DEF CancelPrecedesPoll, TERMINAL_STATUSES, apiVars, queues, pool, taskVars, logVars, stopVars
<1>0. TypeOK /\ Held /\ StatusOfTask /\ Running /\ CancelPrecedesPoll
  BY DEF IInv
<1>1. CASE UNCHANGED <<status, task, cancelReq>>
  BY <1>0, <1>1
<1>2. ASSUME NEW j \in Jobs, CreateJob(j) \/ CancelQueued(j) PROVE CancelPrecedesPoll'
  <2>1. task[j] = "none"
    BY <1>0, <1>2, TaskNone DEF CreateJob, CancelQueued
  <2> QED BY <1>0, <1>2, <2>1 DEF TypeOK, CreateJob, CancelQueued
<1>3. ASSUME NEW j \in Jobs, CancelDownloading(j) PROVE CancelPrecedesPoll'
  <2>1. ASSUME task[j] \in TaskLive PROVE j \in cancelReq'
    <3>1. j \in Active
      BY <1>0, <2>1 DEF Running, Active, Runs
    <3>2. j \in Cancellable({j} \cap Active)
      BY <2>1, <3>1 DEF Cancellable, TaskLive, TaskDone
    <3> QED BY <1>3, <3>2 DEF CancelDownloading
  <2> QED BY <1>0, <1>3, <2>1 DEF TypeOK, CancelDownloading, TaskLive
<1>4. ASSUME NEW j \in Jobs, \/ BeginDownload(j) \/ Spawned(j) \/ SpawnFails(j)
                            \/ CancelledEarly(j) \/ TaskEnds(j) \/ CancelledPolling(j) \/ Poll(j)
      PROVE  CancelPrecedesPoll'
  BY <1>0, <1>4 DEF TypeOK, BeginDownload, Spawned, SpawnFails, CancelledEarly, TaskEnds, CancelledPolling, Poll
<1>5. ASSUME NEW w \in Workers, StartTaken(w) \/ PopPriority(w) PROVE CancelPrecedesPoll'
  BY <1>0, <1>5 DEF TypeOK, StartTaken, PopPriority, Start
<1>6. ASSUME NEW w \in Workers, FinishJob(w) PROVE CancelPrecedesPoll'
  BY <1>0, <1>6 DEF TypeOK, FinishJob, Held, TaskDone
<1>7. ASSUME Interrupt PROVE CancelPrecedesPoll'
  BY <1>0, <1>7 DEF TypeOK, Interrupt, TaskDone
<1>8. ASSUME Shutdown \/ ShutdownSweep \/ ShutdownJoin PROVE CancelPrecedesPoll'
  BY <1>0, <1>8 DEF Shutdown, ShutdownSweep, ShutdownJoin
<1>9. ASSUME NEW j \in Jobs, PrioritizeJob(j) \/ DeleteJobHistory(j)
      PROVE  UNCHANGED <<status, task, cancelReq>>
  BY <1>9 DEF PrioritizeJob, DeleteJobHistory
<1>10. ASSUME NEW w \in Workers, \/ WaitForJob(w) \/ WaitTimeout(w) \/ LeaveLoop(w) \/ TakeFifo(w)
                               \/ SkipPromoted(w) \/ SkipCancelled(w)
       PROVE  UNCHANGED <<status, task, cancelReq>>
  BY <1>10 DEF WaitForJob, WaitTimeout, LeaveLoop, TakeFifo, SkipPromoted, SkipCancelled
<1> QED BY <1>1, <1>2, <1>3, <1>4, <1>5, <1>6, <1>7, <1>8, <1>9, <1>10, StepCases DEF core

\* The job a worker finishes, and what becomes of it.
LEMMA Finishes ==
  ASSUME IInv, NEW w \in Workers, FinishJob(w)
  PROVE  \E j \in Jobs, s \in TERMINAL_STATUSES :
           /\ Runs(w, j) /\ task[j] \in TaskDone /\ j \notin recorded
           /\ status' = [status EXCEPT ![j] = s] /\ RecordJobHistory(j, s)
           /\ UNCHANGED <<task, server>>
           /\ \A v \in Workers, k \in Jobs : Runs(v, k)' <=> Runs(v, k) /\ k # j
<1> USE DEF Runs
<1>0. TypeOK /\ Held /\ StatusOfTask /\ OneWorkerPerJob /\ Settled
  BY DEF IInv
<1>1. PICK j \in Jobs : j = holding[w]
  BY <1>0 DEF FinishJob, Held
<1>2. task[j] \in TaskDone /\ Runs(w, j) /\ UNCHANGED <<task, server>>
  BY <1>1 DEF FinishJob, taskVars, stopVars
<1>3. Outcome(j) \in TERMINAL_STATUSES
  BY <1>0, <1>2, OutcomeType
<1>4. j \notin recorded
  BY <1>0, <1>2 DEF Settled
<1>5. \A v \in Workers, k \in Jobs : Runs(v, k)' <=> Runs(v, k) /\ k # j
  BY <1>0, <1>1 DEF FinishJob, Release, TypeOK, OneWorkerPerJob
<1> QED BY <1>1, <1>2, <1>3, <1>4, <1>5 DEF FinishJob

\* What is recorded stays over, and its status is final, also under Ctrl+C.
LEMMA SettledStep ==
  ASSUME IInv, [Next]_vars
  PROVE  Settled' /\ \A j \in Jobs : j \in recorded => status'[j] = status[j]
<1> USE DEF Settled, TaskLive, TERMINAL_STATUSES, apiVars, queues, pool, taskVars, logVars, stopVars
<1> DEFINE Goal == Settled' /\ \A j \in Jobs : j \in recorded => status'[j] = status[j]
<1>0. TypeOK /\ Held /\ StatusOfTask /\ Running /\ Settled
  BY DEF IInv
<1>1. CASE UNCHANGED <<status, task, worker, holding, recorded, history>>
  BY <1>0, <1>1 DEF Runs
<1>2. ASSUME NEW j \in Jobs, CreateJob(j) PROVE Goal
  BY <1>0, <1>2 DEF TypeOK, CreateJob, Runs
<1>3. ASSUME NEW j \in Jobs, CancelQueued(j) PROVE Goal
  <2>1. task[j] = "none" /\ \A w \in Workers : ~Runs(w, j)
    BY <1>0, <1>3, TaskNone DEF CancelQueued, Running
  <2>2. \A v \in Workers, k \in Jobs : Runs(v, k)' <=> Runs(v, k)
    BY <1>3 DEF CancelQueued, Runs
  <2>3. \A k \in Jobs : k # j => status'[k] = status[k] /\ history'[k] = history[k]
    BY <1>0, <1>3 DEF TypeOK, CancelQueued, RecordJobHistory
  <2>4. status'[j] = "cancelled" /\ status[j] = "queued" /\ recorded' = recorded \cup {j} /\ task' = task
    BY <1>0, <1>3 DEF TypeOK, CancelQueued, RecordJobHistory
  <2> QED BY <1>0, <2>1, <2>2, <2>3, <2>4
<1>4. ASSUME NEW j \in Jobs, CancelDownloading(j) PROVE Goal
  BY <1>0, <1>4 DEF TypeOK, CancelDownloading, Runs
<1>5. ASSUME NEW j \in Jobs, DeleteJobHistory(j) PROVE Goal
  BY <1>0, <1>5 DEF TypeOK, DeleteJobHistory, Runs
<1>6. ASSUME NEW j \in Jobs, \/ BeginDownload(j) \/ Spawned(j) \/ SpawnFails(j)
                            \/ CancelledEarly(j) \/ TaskEnds(j) \/ CancelledPolling(j)
      PROVE  Goal
  BY <1>0, <1>6 DEF TypeOK, BeginDownload, Spawned, SpawnFails, CancelledEarly, TaskEnds, CancelledPolling, Runs
<1>7. ASSUME NEW w \in Workers,
             StartTaken(w) \/ (PopPriority(w) /\ ~UNCHANGED <<status, pool, task, listener>>)
      PROVE  Goal
  <2>1. PICK j \in Jobs : Start(w, j) /\ j \notin recorded /\ worker[w] # "running"
    BY <1>7, StartsFrom
  <2>2. \A v \in Workers, k \in Jobs : Runs(v, k)' <=> Runs(v, k) \/ (v = w /\ k = j)
    BY <1>0, <2>1 DEF Start, TypeOK, Runs
  <2>3. \A k \in Jobs : k # j => task'[k] = task[k] /\ status'[k] = status[k]
    BY <1>0, <2>1 DEF Start, TypeOK
  <2>4. UNCHANGED <<recorded, history>>
    BY <1>7 DEF StartTaken, PopPriority
  <2> QED BY <1>0, <2>1, <2>2, <2>3, <2>4
<1>8. ASSUME NEW w \in Workers, \/ WaitForJob(w) \/ WaitTimeout(w) \/ LeaveLoop(w) \/ TakeFifo(w)
                               \/ SkipPromoted(w) \/ SkipCancelled(w)
      PROVE  Goal
  <2>1. \A v \in Workers, k \in Jobs : Runs(v, k)' => Runs(v, k)
    BY <1>0, <1>8 DEF TypeOK, WaitForJob, WaitTimeout, LeaveLoop, TakeFifo, SkipPromoted, SkipCancelled,
                      Release, Idle, Runs
  <2>2. UNCHANGED <<status, task, recorded, history>>
    BY <1>8 DEF WaitForJob, WaitTimeout, LeaveLoop, TakeFifo, SkipPromoted, SkipCancelled
  <2> QED BY <1>0, <2>1, <2>2
<1>9. ASSUME NEW w \in Workers, FinishJob(w) PROVE Goal
  <2>1. PICK j \in Jobs, s \in TERMINAL_STATUSES :
          /\ Runs(w, j) /\ task[j] \in TaskDone /\ j \notin recorded
          /\ status' = [status EXCEPT ![j] = s] /\ RecordJobHistory(j, s)
          /\ UNCHANGED <<task, server>>
          /\ \A v \in Workers, k \in Jobs : Runs(v, k)' <=> Runs(v, k) /\ k # j
    BY <1>9, Finishes
  <2>2. \A k \in Jobs : k # j => status'[k] = status[k] /\ history'[k] = history[k]
    BY <1>0, <2>1 DEF TypeOK, RecordJobHistory
  <2>3. status'[j] = s /\ recorded' = recorded \cup {j} /\ task' = task
    BY <1>0, <2>1 DEF TypeOK, RecordJobHistory
  <2> QED BY <1>0, <2>1, <2>2, <2>3 DEF TaskDone
<1>10. ASSUME Interrupt PROVE Goal
  <2>1. \A v \in Workers, k \in Jobs : Runs(v, k)' <=> Runs(v, k)
    BY <1>0, <1>10 DEF TypeOK, Interrupt, Runs
  <2>2. \A k \in Jobs : task'[k] \in TaskLive => task[k] \in TaskLive
    BY <1>0, <1>10 DEF TypeOK, Interrupt
  <2>3. UNCHANGED <<status, recorded, history>>
    BY <1>10 DEF Interrupt
  <2> QED BY <1>0, <2>1, <2>2, <2>3
<1>11. ASSUME Shutdown \/ ShutdownSweep \/ ShutdownJoin
       PROVE  UNCHANGED <<status, task, worker, holding, recorded, history>>
  BY <1>11 DEF Shutdown, ShutdownSweep, ShutdownJoin
<1>12. ASSUME NEW j \in Jobs, PrioritizeJob(j) \/ Poll(j)
       PROVE  UNCHANGED <<status, task, worker, holding, recorded, history>>
  BY <1>12 DEF PrioritizeJob, Poll
<1>13. ASSUME NEW w \in Workers, PopPriority(w), UNCHANGED <<status, pool, task, listener>>
       PROVE  UNCHANGED <<status, task, worker, holding, recorded, history>>
  BY <1>13 DEF PopPriority
<1> QED BY <1>1, <1>2, <1>3, <1>4, <1>5, <1>6, <1>7, <1>8, <1>9, <1>10, <1>11, <1>12, <1>13, StepCases DEF core

\* The history of a job has its end, once, and no later step makes it wrong.
LEMMA HistoryMatchesStep == ASSUME IInv, [Next]_vars PROVE HistoryMatches'
<1> USE DEF HistoryMatches, apiVars, queues, pool, taskVars, logVars, stopVars
<1>0. TypeOK /\ Settled /\ HistoryMatches
  BY DEF IInv
<1>1. \A j \in Jobs : j \in recorded => status'[j] = status[j]
  BY SettledStep
<1>2. ASSUME UNCHANGED <<recorded, history>> PROVE HistoryMatches'
  BY <1>0, <1>1, <1>2
<1>3. ASSUME NEW j \in Jobs, NEW s \in TERMINAL_STATUSES, j \notin recorded,
             status' = [status EXCEPT ![j] = s], RecordJobHistory(j, s)
      PROVE  HistoryMatches'
  <2>1. history[j] = <<>> /\ recorded' = recorded \cup {j} /\ status'[j] = s
    BY <1>0, <1>3 DEF TypeOK, Settled, RecordJobHistory
  <2>2. \A k \in Jobs : k # j => history'[k] = history[k] /\ status'[k] = status[k]
    BY <1>0, <1>3 DEF TypeOK, RecordJobHistory
  <2>3. history'[j] = <<>> \/ (Len(history'[j]) = 1 /\ history'[j][1] = s)
    <3>1. CASE UNCHANGED history
      BY <2>1, <3>1
    <3>2. CASE history' = [history EXCEPT ![j] = Append(@, s)]
      <4>1. history[j] \in Seq(TERMINAL_STATUSES) /\ Len(history[j]) = 0
        BY <1>0, <2>1 DEF TypeOK
      <4>2. history'[j] = Append(history[j], s)
        BY <1>0, <3>2 DEF TypeOK
      <4> QED BY <4>1, <4>2
    <3> QED BY <1>3, <3>1, <3>2 DEF RecordJobHistory
  <2>4. Len(history'[j]) <= 1 /\ (history'[j] # <<>> => history'[j][1] = s)
    <3> HIDE DEF HistoryMatches
    <3>1. CASE history'[j] = <<>>
      <4>1. Len(<<>>) = 0
        OBVIOUS
      <4> QED BY <3>1, <4>1
    <3>2. CASE Len(history'[j]) = 1 /\ history'[j][1] = s
      BY <3>2
    <3> QED BY <2>3, <3>1, <3>2
  <2> HIDE DEF HistoryMatches
  <2>5. ASSUME NEW k \in Jobs
        PROVE  /\ Len(history'[k]) <= 1
               /\ history'[k] # <<>> => history'[k][1] = status'[k] /\ k \in recorded'
    <3>1. CASE k = j
      BY <2>1, <2>4, <3>1
    <3>2. CASE k # j
      BY <1>0, <2>1, <2>2, <3>2 DEF HistoryMatches
    <3> QED BY <3>1, <3>2
  <2> QED BY <2>5 DEF HistoryMatches
<1>4. ASSUME NEW j \in Jobs, CancelQueued(j) PROVE HistoryMatches'
  <2>1. j \notin recorded
    BY <1>0, <1>4 DEF CancelQueued, Settled, TERMINAL_STATUSES
  <2> QED BY <1>3, <1>4, <2>1 DEF CancelQueued, TERMINAL_STATUSES
<1>5. ASSUME NEW w \in Workers, FinishJob(w) PROVE HistoryMatches'
  BY <1>3, <1>5, Finishes
<1>6. ASSUME NEW j \in Jobs, DeleteJobHistory(j) PROVE HistoryMatches'
  <2>1. UNCHANGED <<recorded, status>> /\ \A k \in Jobs : history'[k] \in {history[k], <<>>}
    BY <1>0, <1>6 DEF DeleteJobHistory, TypeOK
  <2> QED BY <1>0, <2>1
<1>7. ASSUME NEW j \in Jobs, \/ CreateJob(j) \/ CancelDownloading(j) \/ PrioritizeJob(j)
                            \/ BeginDownload(j) \/ Spawned(j) \/ SpawnFails(j)
                            \/ CancelledEarly(j) \/ TaskEnds(j) \/ CancelledPolling(j) \/ Poll(j)
      PROVE  UNCHANGED <<recorded, history>>
  BY <1>7 DEF CreateJob, CancelDownloading, PrioritizeJob, BeginDownload, Spawned,
              SpawnFails, CancelledEarly, TaskEnds, CancelledPolling, Poll
<1>8. ASSUME NEW w \in Workers, \/ WaitForJob(w) \/ WaitTimeout(w) \/ LeaveLoop(w) \/ TakeFifo(w)
                               \/ SkipPromoted(w) \/ SkipCancelled(w) \/ StartTaken(w) \/ PopPriority(w)
      PROVE  UNCHANGED <<recorded, history>>
  BY <1>8 DEF WaitForJob, WaitTimeout, LeaveLoop, TakeFifo, SkipPromoted, SkipCancelled, StartTaken, PopPriority
<1>9. ASSUME Shutdown \/ ShutdownSweep \/ ShutdownJoin \/ Interrupt PROVE UNCHANGED <<recorded, history>>
  BY <1>9 DEF Shutdown, ShutdownSweep, ShutdownJoin, Interrupt
<1> QED BY <1>2, <1>4, <1>5, <1>6, <1>7, <1>8, <1>9, StepCases DEF core

-----------------------------------------------------------------------------
(* The theorems.                                                           *)

LEMMA InitIInv == ASSUME Init PROVE IInv
<1> USE DEF Init
<1>1. TypeOK
  <2>1. <<>> \in Seq(Jobs) /\ <<>> \in Seq(TERMINAL_STATUSES)
    OBVIOUS
  <2>2. Stream("off", NoJob, <<>>, "none") \in ListenerState
    BY NewStreamType
  <2> QED BY <2>1, <2>2 DEF TypeOK, JobStatus, TaskState, ProcState
<1>2. Copies /\ Startable /\ Known
  BY DEF Copies, Startable, Known, NoDup, InSeq, Got
<1>3. Held /\ Running /\ OneWorkerPerJob
  BY DEF Held, Running, Runs, OneWorkerPerJob, TaskLive
<1>4. StatusOfTask /\ CancelPrecedesPoll
  BY DEF StatusOfTask, CancelPrecedesPoll, TaskLive
<1>5. Settled /\ HistoryMatches
  BY DEF Settled, HistoryMatches
<1> QED BY <1>1, <1>2, <1>3, <1>4, <1>5 DEF IInv

\* The parts together: every step keeps the inductive invariant.
LEMMA NextIInv == ASSUME IInv, [Next]_vars PROVE IInv'
BY TypeOKStep, HeldStep, CopiesStep, StartableStep, KnownStep, StatusOfTaskStep, RunningStep,
   CancelPrecedesPollStep, SettledStep, HistoryMatchesStep DEF IInv

\* The inductive invariant holds throughout.
THEOREM Invariance == Spec => []IInv
BY InitIInv, NextIInv, PTL DEF Spec

\* Every variable keeps its type.
THEOREM TypeCorrect == Spec => []TypeOK
<1>1. IInv => TypeOK
  BY DEF IInv
<1> QED BY <1>1, Invariance, PTL

\* A job is in the hands of one running worker at most, for any pool.
THEOREM NoJobRunTwiceAtOnce == Spec => []OneWorkerPerJob
<1>1. IInv => OneWorkerPerJob
  BY DEF IInv
<1> QED BY <1>1, Invariance, PTL

\* task.cancel() always gets to a cancelled job's task before its poll loop does.
THEOREM CancellationReachesTask == Spec => []CancelPrecedesPoll
<1>1. IInv => CancelPrecedesPoll
  BY DEF IInv
<1> QED BY <1>1, Invariance, PTL

\* The history has a job at most once, under the status it ended in.
THEOREM HistoryIsRight == Spec => []HistoryMatches
<1>1. IInv => HistoryMatches
  BY DEF IInv
<1> QED BY <1>1, Invariance, PTL

\* A finished task is never run again.
THEOREM RunOnce == Spec => NeverRunAgain
<1> DEFINE Kept == \A j \in Jobs : task[j] \in TaskDone => task'[j] \in TaskDone
<1> USE DEF apiVars, queues, pool, taskVars, logVars, stopVars
<1>1. ASSUME IInv, [Next]_vars PROVE [Kept]_vars
  <2>0. TypeOK
    BY <1>1 DEF IInv
  <2>1. CASE UNCHANGED task
    BY <2>1
  <2>2. ASSUME NEW w \in Workers,
               StartTaken(w) \/ (PopPriority(w) /\ ~UNCHANGED <<status, pool, task, listener>>)
        PROVE  Kept
    <3>1. PICK j \in Jobs : Start(w, j) /\ task[j] = "none"
      BY <1>1, <2>2, StartsFrom
    <3> QED BY <2>0, <3>1 DEF Start, TypeOK, TaskDone
  <2>3. ASSUME NEW j \in Jobs, \/ BeginDownload(j) \/ Spawned(j) \/ SpawnFails(j)
                              \/ CancelledEarly(j) \/ TaskEnds(j) \/ CancelledPolling(j)
        PROVE  Kept
    BY <2>0, <2>3 DEF TypeOK, TaskDone, BeginDownload, Spawned, SpawnFails, CancelledEarly, TaskEnds,
                      CancelledPolling
  <2>4. ASSUME Interrupt PROVE Kept
    BY <2>0, <2>4 DEF TypeOK, TaskDone, Interrupt
  <2>5. ASSUME NEW j \in Jobs, \/ CreateJob(j) \/ CancelQueued(j) \/ CancelDownloading(j)
                              \/ PrioritizeJob(j) \/ DeleteJobHistory(j) \/ Poll(j)
        PROVE  UNCHANGED task
    BY <2>5 DEF CreateJob, CancelQueued, CancelDownloading, PrioritizeJob, DeleteJobHistory, Poll
  <2>6. ASSUME NEW w \in Workers, \/ WaitForJob(w) \/ WaitTimeout(w) \/ LeaveLoop(w) \/ TakeFifo(w)
                                 \/ SkipPromoted(w) \/ SkipCancelled(w) \/ FinishJob(w)
        PROVE  UNCHANGED task
    BY <2>6 DEF WaitForJob, WaitTimeout, LeaveLoop, TakeFifo, SkipPromoted, SkipCancelled, FinishJob
  <2>7. ASSUME Shutdown \/ ShutdownSweep \/ ShutdownJoin PROVE UNCHANGED task
    BY <2>7 DEF Shutdown, ShutdownSweep, ShutdownJoin
  <2> QED BY <1>1, <2>1, <2>2, <2>3, <2>4, <2>5, <2>6, <2>7, StepCases DEF core
<1> QED BY <1>1, Invariance, PTL DEF Spec, NeverRunAgain

\* Whoever acts on a job that ended leaves its status alone, but for Ctrl+C.
LEMMA KeepsTerminal ==
  ASSUME IInv, [Next]_vars
  PROVE  \A j \in Jobs : status[j] \in TERMINAL_STATUSES /\ server # "interrupted"
                           => status'[j] = status[j]
<1> DEFINE Kept == \A j \in Jobs : status[j] \in TERMINAL_STATUSES /\ server # "interrupted"
                                  => status'[j] = status[j]
<1> USE DEF TERMINAL_STATUSES, apiVars, queues, pool, taskVars, logVars, stopVars
<1>0. TypeOK /\ Held /\ StatusOfTask /\ CancelPrecedesPoll
  BY DEF IInv
<1>1. CASE UNCHANGED status
  BY <1>1
<1>2. ASSUME NEW j \in Jobs, \/ CreateJob(j) \/ CancelQueued(j) \/ CancelDownloading(j) PROVE Kept
  BY <1>0, <1>2 DEF TypeOK, CreateJob, CancelQueued, CancelDownloading
<1>3. ASSUME NEW j \in Jobs, SpawnFails(j) \/ TaskEnds(j) PROVE Kept
  <2>1. status[j] = "downloading"
    BY <1>0, <1>3 DEF SpawnFails, TaskEnds, StatusOfTask, CancelPrecedesPoll, TaskLive
  <2> QED BY <1>0, <1>3, <2>1 DEF TypeOK, SpawnFails, TaskEnds
<1>4. ASSUME NEW w \in Workers,
             StartTaken(w) \/ (PopPriority(w) /\ ~UNCHANGED <<status, pool, task, listener>>)
      PROVE  Kept
  <2>1. PICK j \in Jobs : Start(w, j) /\ status[j] = "queued"
    BY <1>4, StartsFrom
  <2> QED BY <1>0, <2>1 DEF Start, TypeOK
<1>5. ASSUME NEW w \in Workers, FinishJob(w) PROVE Kept
  <2>1. PICK j \in Jobs : j = holding[w]
    BY <1>0, <1>5 DEF FinishJob, Held
  <2>2. task[j] \in TaskDone /\ status' = [status EXCEPT ![j] = Outcome(j)]
    BY <1>5, <2>1 DEF FinishJob
  <2>3. status[j] \in TERMINAL_STATUSES /\ server # "interrupted" => Outcome(j) = status[j]
    BY <1>0, <2>2 DEF StatusOfTask, Outcome, TaskDone
  <2> QED BY <1>0, <2>2, <2>3 DEF TypeOK
<1>6. ASSUME NEW j \in Jobs, \/ PrioritizeJob(j) \/ DeleteJobHistory(j) \/ Poll(j) \/ BeginDownload(j)
                            \/ Spawned(j) \/ CancelledEarly(j) \/ CancelledPolling(j)
      PROVE  UNCHANGED status
  BY <1>6 DEF PrioritizeJob, DeleteJobHistory, Poll, BeginDownload, Spawned, CancelledEarly, CancelledPolling
<1>7. ASSUME NEW w \in Workers, \/ WaitForJob(w) \/ WaitTimeout(w) \/ LeaveLoop(w) \/ TakeFifo(w)
                               \/ SkipPromoted(w) \/ SkipCancelled(w)
      PROVE  UNCHANGED status
  BY <1>7 DEF WaitForJob, WaitTimeout, LeaveLoop, TakeFifo, SkipPromoted, SkipCancelled
<1>8. ASSUME Shutdown \/ ShutdownSweep \/ ShutdownJoin \/ Interrupt PROVE UNCHANGED status
  BY <1>8 DEF Shutdown, ShutdownSweep, ShutdownJoin, Interrupt
<1> QED BY <1>1, <1>2, <1>3, <1>4, <1>5, <1>6, <1>7, <1>8, StepCases DEF core

\* A terminal status is final, whoever acts on the job next.
THEOREM TerminalIsFinal == Spec => TerminalForever
<1>1. ASSUME IInv, [Next]_vars
      PROVE  [\A j \in Jobs : status[j] \in TERMINAL_STATUSES /\ server # "interrupted"
                               => status'[j] = status[j]]_vars
  BY <1>1, KeepsTerminal
<1> QED BY <1>1, Invariance, PTL DEF Spec, TerminalForever

-----------------------------------------------------------------------------
(* Processes.                                                              *)

\* Before the first job no process is out of reach.
LEMMA InitPrepared == ASSUME Init PROVE Prepared /\ RunningIsReachable
BY DEF Init, Prepared, RunningIsReachable

\* A task registers its process with it, and a cancellation signals the process
\* that it finds registered.
LEMMA PreparedStep ==
  ASSUME IInv, Prepared, RunningIsReachable, [Next]_vars
  PROVE  Prepared' /\ RunningIsReachable'
<1> USE DEF Prepared, RunningIsReachable, apiVars, queues, pool, taskVars, logVars, stopVars
<1> DEFINE Good == Prepared /\ RunningIsReachable
           frame == <<task, cancelReq, proc, procs, tempReg, disk, server>>
<1>0. TypeOK
  BY DEF IInv
<1>1. ASSUME UNCHANGED frame PROVE Good'
  BY <1>1
<1>2. ASSUME server' # "up" PROVE Good'
  BY <1>2
<1>3. ASSUME NEW j \in Jobs, CancelDownloading(j) PROVE Good'
  BY <1>0, <1>3 DEF TypeOK, CancelDownloading, Signal, Cancellable
<1>4. ASSUME NEW w \in Workers, NEW j \in Jobs, Start(w, j), UNCHANGED <<cancelReq, proc, procs, tempReg, disk, server>>
      PROVE  Good'
  BY <1>0, <1>4 DEF TypeOK, Start
<1>5. ASSUME NEW w \in Workers, StartTaken(w) \/ PopPriority(w) PROVE Good'
  <2>1. CASE StartTaken(w)
    BY <1>4, <1>0, <2>1 DEF IInv, Held, StartTaken
  <2>2. CASE PopPriority(w)
    <3>1. Head(priority) \in Jobs
      BY <1>0, <2>2 DEF TypeOK, PopPriority
    <3> QED BY <1>1, <1>4, <2>2, <3>1 DEF PopPriority
  <2> QED BY <1>5, <2>1, <2>2
<1>6. ASSUME NEW j \in Jobs, BeginDownload(j) \/ Spawned(j) PROVE Good'
  BY <1>0, <1>6 DEF TypeOK, BeginDownload, Spawned
<1>7. ASSUME NEW j \in Jobs, SpawnFails(j) \/ CancelledEarly(j) PROVE Good'
  BY <1>0, <1>7 DEF TypeOK, SpawnFails, CancelledEarly
<1>8. ASSUME NEW j \in Jobs, TaskEnds(j) \/ CancelledPolling(j) PROVE Good'
  BY <1>0, <1>8 DEF TypeOK, TaskEnds, CancelledPolling, Unwind
<1>9. ASSUME NEW j \in Jobs, Poll(j) \/ ProcExit(j) PROVE Good'
  BY <1>0, <1>9 DEF TypeOK, Poll, ProcExit
<1>10. ASSUME \/ Shutdown \/ ShutdownSweep \/ ShutdownJoin \/ Interrupt \/ \E j \in Jobs : ShutdownReap(j)
       PROVE  server' # "up"
  BY <1>10 DEF Shutdown, ShutdownSweep, ShutdownJoin, Interrupt, ShutdownReap
<1>11. ASSUME NEW j \in Jobs, \/ CreateJob(j) \/ CancelQueued(j) \/ RemoveJob(j) \/ PrioritizeJob(j)
                             \/ DeleteJobHistory(j) \/ \E l \in Listeners : OpenStream(l, j)
       PROVE  UNCHANGED frame
  BY <1>11 DEF CreateJob, CancelQueued, RemoveJob, PrioritizeJob, DeleteJobHistory, OpenStream
<1>12. ASSUME ClearFinishedJobs \/ CleanupOldJobs \/ StartDrain \/ StopDrain PROVE UNCHANGED frame
  BY <1>12 DEF ClearFinishedJobs, CleanupOldJobs, StartDrain, StopDrain
<1>13. ASSUME NEW l \in Listeners, AttachStream(l) \/ ReadEvent(l) \/ CloseStream(l) PROVE UNCHANGED frame
  BY <1>13 DEF AttachStream, ReadEvent, CloseStream
<1>14. ASSUME NEW w \in Workers, \/ WaitForJob(w) \/ WaitTimeout(w) \/ TakeFifo(w) \/ SkipPromoted(w)
                                \/ SkipCancelled(w) \/ FinishJob(w) \/ LeaveLoop(w)
       PROVE  UNCHANGED frame
  BY <1>14 DEF WaitForJob, WaitTimeout, TakeFifo, SkipPromoted, SkipCancelled, FinishJob, LeaveLoop
<1>15. ASSUME UNCHANGED vars PROVE UNCHANGED frame
  BY <1>15 DEF vars
<1> HIDE DEF Good, frame
<1>16. Good'
  BY <1>1, <1>2, <1>3, <1>5, <1>6, <1>7, <1>8, <1>9, <1>10, <1>11, <1>12, <1>13, <1>14, <1>15
     DEF Next, Api, Streams, WorkerStep, TaskStep, Stop
<1> QED BY <1>16 DEF Good

\* While the server is up cancel_job reaches every running process that nobody
\* has signalled, and the process has its files.
THEOREM ProcessesAreReachable == Spec => []RunningIsReachable
<1>1. Init => Prepared /\ RunningIsReachable
  BY InitPrepared
<1>2. IInv /\ Prepared /\ RunningIsReachable /\ [Next]_vars => Prepared' /\ RunningIsReachable'
  BY PreparedStep
<1> QED BY <1>1, <1>2, Invariance, PTL DEF Spec

-----------------------------------------------------------------------------
(* Streams.                                                                *)

\* What put() does to a listener's queue: e is last, and before it is what was
\* there, without its head if the queue was full.
LEMMA PutLast ==
  ASSUME NEW q \in Seq(Events), NEW e \in Events
  PROVE  /\ Put(q, e) \in Seq(Events) /\ Len(Put(q, e)) >= 1
         /\ Put(q, e)[Len(Put(q, e))] = e
         /\ \A i \in 1..Len(Put(q, e)) - 1 : \E k \in 1..Len(q) : Put(q, e)[i] = q[k]
         /\ q # <<>> => Len(Put(q, e)) >= 2 /\ Put(q, e)[Len(Put(q, e)) - 1] = q[Len(q)]
<1>0. Put(q, e) \in Seq(Events) /\ Len(q) \in Nat /\ QueueMax \in Nat /\ QueueMax >= 2
  BY PutType, QueueAssumption
<1>1. CASE Len(q) < QueueMax
  <2>1. Put(q, e) = Append(q, e)
    BY <1>1 DEF Put
  <2>2. Len(Put(q, e)) = Len(q) + 1 /\ Put(q, e)[Len(q) + 1] = e
    BY <2>1
  <2>3. \A i \in 1..Len(q) : Put(q, e)[i] = q[i]
    BY <2>1
  <2> QED BY <1>0, <2>2, <2>3
<1>2. CASE ~(Len(q) < QueueMax)
  <2>1. Len(q) >= 2 /\ q # <<>> /\ Put(q, e) = Append(Tail(q), e)
    BY <1>0, <1>2 DEF Put
  <2>2. Tail(q) \in Seq(Events) /\ Len(Tail(q)) = Len(q) - 1
        /\ \A i \in 1..Len(q) - 1 : Tail(q)[i] = q[i + 1]
    BY <2>1
  <2>3. Len(Put(q, e)) = Len(q) /\ Put(q, e)[Len(q)] = e
    BY <2>1, <2>2
  <2>4. \A i \in 1..Len(q) - 1 : Put(q, e)[i] = q[i + 1] /\ i + 1 \in 1..Len(q)
    BY <2>1, <2>2
  <2> QED BY <1>0, <2>1, <2>3, <2>4
<1> QED BY <1>1, <1>2

\* A queue without the end marker stays so when an event is published.
LEMMA PutNoEnd ==
  ASSUME NEW q \in Seq(Events), NEW e \in Events, e # "end", NoEnd(q)
  PROVE  NoEnd(Put(q, e))
<1> DEFINE p == Put(q, e)
<1>1. p \in Seq(Events) /\ p[Len(p)] = e
      /\ \A i \in 1..Len(p) - 1 : \E k \in 1..Len(q) : p[i] = q[k]
  BY PutLast
<1> HIDE DEF p
<1>2. ASSUME NEW i \in 1..Len(p) PROVE p[i] # "end"
  BY <1>1, i = Len(p) \/ i \in 1..Len(p) - 1 DEF NoEnd
<1> QED BY <1>2 DEF NoEnd, p

\* publish_terminal() leaves the outcome and the end marker last, however full
\* the queue was.
LEMMA PutEnds ==
  ASSUME NEW q \in Seq(Events), NEW s \in TERMINAL_STATUSES, NEW seen, NoEnd(q)
  PROVE  Ending(Put(Put(q, s), "end"), s, seen)
<1> DEFINE p == Put(q, s)  r == Put(p, "end")
<1>1. s \in Events /\ s # "end" /\ "end" \in Events
  BY DEF Events, TERMINAL_STATUSES
<1>2. p \in Seq(Events) /\ Len(p) >= 1 /\ p[Len(p)] = s /\ NoEnd(p)
  BY <1>1, PutLast, PutNoEnd
<1> HIDE DEF p
<1>3. p # <<>>
  BY <1>2
<1>4. /\ r \in Seq(Events) /\ Len(r) >= 2 /\ r[Len(r)] = "end" /\ r[Len(r) - 1] = p[Len(p)]
      /\ \A i \in 1..Len(r) - 1 : \E k \in 1..Len(p) : r[i] = p[k]
  BY <1>1, <1>2, <1>3, PutLast
<1> HIDE DEF r
<1>5. \A i \in 1..Len(r) - 1 : r[i] # "end"
  BY <1>2, <1>4 DEF NoEnd
<1>6. r # <<>>
  BY <1>4
<1>7. Ending(r, s, seen)
  BY <1>2, <1>4, <1>5, <1>6 DEF Ending
<1> QED BY <1>7 DEF p, r

\* A client that reads up to the end marker has read the outcome before it.
LEMMA ReadsOn ==
  ASSUME NEW q \in Seq(Events), NEW s \in TERMINAL_STATUSES, NEW seen, Ending(q, s, seen)
  PROVE  IF Head(q) = "end" THEN seen = s
         ELSE Ending(Tail(q), s, IF Head(q) \in TERMINAL_STATUSES THEN Head(q) ELSE seen)
<1>1. /\ q # <<>> /\ q[Len(q)] = "end" /\ Len(q) \in Nat /\ Len(q) >= 1 /\ Head(q) = q[1]
      /\ \A i \in 1..Len(q) - 1 : q[i] # "end"
      /\ Len(q) >= 2 => q[Len(q) - 1] = s
      /\ Len(q) = 1 => seen = s
  BY DEF Ending
<1>2. CASE Len(q) = 1
  BY <1>1, <1>2
<1>3. CASE Len(q) >= 2
  <2> DEFINE t == Tail(q)
  <2>1. t \in Seq(Events) /\ Len(t) = Len(q) - 1 /\ \A i \in 1..Len(q) - 1 : t[i] = q[i + 1]
    BY <1>1
  <2>2. Head(q) # "end" /\ (Len(q) = 2 => Head(q) = s)
    BY <1>1, <1>3
  <2> HIDE DEF t
  <2>3. t # <<>> /\ t[Len(t)] = "end"
    BY <1>1, <1>3, <2>1
  <2>4. \A i \in 1..Len(t) - 1 : t[i] # "end"
    BY <1>1, <2>1
  <2>5. Len(t) >= 2 => t[Len(t) - 1] = s
    BY <1>1, <1>3, <2>1
  <2>6. ~(Len(t) >= 2) => (IF Head(q) \in TERMINAL_STATUSES THEN Head(q) ELSE seen) = s
    BY <1>1, <1>3, <2>1, <2>2
  <2>7. Ending(t, s, IF Head(q) \in TERMINAL_STATUSES THEN Head(q) ELSE seen)
    BY <2>3, <2>4, <2>5, <2>6 DEF Ending
  <2> QED BY <2>2, <2>7 DEF t
<1>4. Len(q) = 1 \/ Len(q) >= 2
  <2>1. Len(q) \in Nat /\ Len(q) >= 1
    BY <1>1
  <2>2. \A n \in Nat : n >= 1 => n = 1 \/ n >= 2
    OBVIOUS
  <2> QED BY <2>1, <2>2, Zenon
<1> QED BY <1>2, <1>3, <1>4

\* A listener that a step leaves alone stays right: the outcome it has been told,
\* or will be, is still that of its job.
LEMMA ToldSame ==
  ASSUME IInv, [Next]_vars, Told, server = "up", NEW l \in Listeners,
         listener'[l] = listener[l], listener[l].at # "off"
  PROVE  listener'[l].job \in Jobs /\ Streamed(listener'[l], status'[listener'[l].job])
<1> DEFINE j == listener[l].job
<1>1. j \in Jobs /\ Streamed(listener[l], status[j])
  BY DEF Told
<1>2. status[j] \in TERMINAL_STATUSES => status'[j] = status[j]
  BY <1>1, KeepsTerminal
<1> HIDE DEF j
<1>3. Streamed(listener[l], status'[j])
  BY <1>1, <1>2 DEF Streamed
<1> QED BY <1>1, <1>3 DEF j

\* ... and so does one whose job publishes an event.
LEMMA ToldPublish ==
  ASSUME IInv, [Next]_vars, Told, server = "up", NEW j \in Jobs, NEW e \in Events, e # "end",
         Publish(j, e), NEW l \in Listeners, listener'[l].at # "off"
  PROVE  listener'[l].job \in Jobs /\ Streamed(listener'[l], status'[listener'[l].job])
<1>1. CASE ~Subscribed(l, j)
  <2>1. listener'[l] = listener[l]
    BY <1>1 DEF Publish
  <2> QED BY <2>1, ToldSame
<1>2. CASE Subscribed(l, j)
  <2>0. TypeOK
    BY DEF IInv
  <2>1. /\ listener'[l] = [listener[l] EXCEPT !.inbox = Put(listener[l].inbox, e)]
        /\ listener[l].at = "open" /\ listener[l].job = j
    BY <1>2 DEF Publish, Subscribed
  <2>2. NoEnd(listener[l].inbox) /\ listener[l].inbox \in Seq(Events) /\ listener[l] \in ListenerState
    BY <2>0, <2>1, ListenerType DEF Told, Streamed
  <2>3. NoEnd(Put(listener[l].inbox, e))
    BY <2>2, PutNoEnd
  <2>4. listener'[l].inbox = Put(listener[l].inbox, e) /\ listener'[l].at = "open" /\ listener'[l].job = j
    BY <2>1, <2>2 DEF ListenerState
  <2> QED BY <2>3, <2>4 DEF Streamed
<1> QED BY <1>1, <1>2

\* ... and one whose job ends.
LEMMA ToldTerminal ==
  ASSUME IInv, [Next]_vars, Told, server = "up", NEW j \in Jobs, NEW s \in TERMINAL_STATUSES,
         PublishTerminal(j, s), status'[j] = s, NEW l \in Listeners, listener'[l].at # "off"
  PROVE  listener'[l].job \in Jobs /\ Streamed(listener'[l], status'[listener'[l].job])
<1>1. CASE ~Subscribed(l, j)
  <2>1. listener'[l] = listener[l]
    BY <1>1 DEF PublishTerminal
  <2> QED BY <2>1, ToldSame
<1>2. CASE Subscribed(l, j)
  <2>0. TypeOK
    BY DEF IInv
  <2> DEFINE q == Put(Put(listener[l].inbox, s), "end")
  <2>1. /\ listener'[l] = Stream("closing", j, q, listener[l].seen)
        /\ listener[l].at = "open" /\ listener[l].job = j
    BY <1>2 DEF PublishTerminal, Subscribed
  <2>2. NoEnd(listener[l].inbox) /\ listener[l].inbox \in Seq(Events)
    BY <2>0, <2>1, ListenerType DEF Told, Streamed
  <2>3. Ending(q, s, listener[l].seen)
    BY <2>2, PutEnds
  <2> HIDE DEF q
  <2>4. /\ listener'[l].at = "closing" /\ listener'[l].job = j
        /\ listener'[l].inbox = q /\ listener'[l].seen = listener[l].seen
    BY <2>1 DEF Stream
  <2> QED BY <2>3, <2>4 DEF Streamed
<1> QED BY <1>1, <1>2

\* A listener's own steps: it is answered after the snapshot, or reads on.
LEMMA ToldReads ==
  ASSUME IInv, Told, server = "up", NEW l \in Listeners, AttachStream(l) \/ ReadEvent(l)
  PROVE  listener'[l].job \in Jobs /\ Streamed(listener'[l], status'[listener'[l].job])
<1> DEFINE s == listener[l]  j == s.job
<1>0. TypeOK
  BY DEF IInv
<1>1. /\ s.at # "off" /\ j \in Jobs /\ Streamed(s, status[j])
      /\ s.inbox \in Seq(Events) /\ s.at \in {"opening", "open", "closing"}
      /\ UNCHANGED status
  BY <1>0, ListenerType DEF AttachStream, ReadEvent, Told
<1>2. CASE AttachStream(l)
  <2>1. listener'[l] = IF status[j] \in TERMINAL_STATUSES
                       THEN Stream("closed", j, <<>>, status[j])
                       ELSE Stream("open", j, <<>>, "none")
    BY <1>0, <1>2 DEF AttachStream, TypeOK
  <2> HIDE DEF j
  <2>2. CASE status[j] \in TERMINAL_STATUSES
    BY <1>1, <2>1, <2>2 DEF Stream, Streamed
  <2>3. CASE status[j] \notin TERMINAL_STATUSES
    <3>1. listener'[l].at = "open" /\ listener'[l].job = j /\ listener'[l].inbox = <<>>
      BY <2>1, <2>3 DEF Stream
    <3>2. NoEnd(<<>>)
      BY DEF NoEnd
    <3> QED BY <1>1, <3>1, <3>2 DEF Streamed
  <2> QED BY <2>2, <2>3
<1>3. CASE ReadEvent(l)
  <2> DEFINE e == Head(s.inbox)  seen == IF e \in TERMINAL_STATUSES THEN e ELSE s.seen
  <2>1. /\ s.at \in {"open", "closing"} /\ s.inbox # <<>>
        /\ listener'[l] = Stream(IF e = "end" THEN "closed" ELSE s.at, j, Tail(s.inbox), seen)
    BY <1>0, <1>3 DEF ReadEvent, TypeOK
  <2>2. /\ listener'[l].at = (IF e = "end" THEN "closed" ELSE s.at) /\ listener'[l].job = j
        /\ listener'[l].inbox = Tail(s.inbox) /\ listener'[l].seen = seen
    BY <2>1 DEF Stream
  <2>3. CASE s.at = "open"
    <3>1. NoEnd(s.inbox)
      BY <1>1, <2>3 DEF Streamed
    <3>2. e # "end" /\ NoEnd(Tail(s.inbox))
      BY <1>1, <2>1, <3>1 DEF NoEnd
    <3> QED BY <1>1, <2>2, <2>3, <3>2 DEF Streamed
  <2>4. CASE s.at = "closing"
    <3>1. status[j] \in TERMINAL_STATUSES /\ Ending(s.inbox, status[j], s.seen)
      BY <1>1, <2>4 DEF Streamed
    <3>2. IF e = "end" THEN s.seen = status[j] ELSE Ending(Tail(s.inbox), status[j], seen)
      BY <1>1, <3>1, ReadsOn
    <3>3. e = "end" => seen = s.seen
      BY DEF TERMINAL_STATUSES
    <3> HIDE DEF j, e, seen
    <3>4. CASE e = "end"
      BY <1>1, <2>2, <3>1, <3>2, <3>3, <3>4 DEF Streamed
    <3>5. CASE e # "end"
      BY <1>1, <2>2, <2>4, <3>1, <3>2, <3>5 DEF Streamed
    <3> QED BY <3>4, <3>5
  <2> QED BY <2>1, <2>3, <2>4
<1> QED BY <1>2, <1>3

\* No step lets a stream tell a client something else than how its job ended.
LEMMA ToldStep == ASSUME IInv, Told, [Next]_vars PROVE Told'
<1> USE DEF apiVars, queues, pool, taskVars, logVars, stopVars
<1> DEFINE Right(l) == listener[l].at # "off" =>
                         listener[l].job \in Jobs /\ Streamed(listener[l], status[listener[l].job])
           Good == server = "up" => \A l \in Listeners : Right(l)
<1>0. TypeOK /\ Told
  BY DEF IInv
<1>1. ASSUME server' # "up" PROVE Good'
  BY <1>1
<1>2. ASSUME server = "up", UNCHANGED listener PROVE Good'
  BY <1>2, ToldSame
<1>3. ASSUME server = "up", NEW j \in Jobs, NEW e \in {"status", "progress"}, Publish(j, e) PROVE Good'
  <2>1. e \in Events /\ e # "end"
    BY DEF Events
  <2> QED BY <1>3, <2>1, ToldPublish
<1>4. ASSUME server = "up", NEW j \in Jobs, CancelQueued(j) PROVE Good'
  <2>1. "cancelled" \in TERMINAL_STATUSES /\ PublishTerminal(j, "cancelled") /\ status'[j] = "cancelled"
    BY <1>0, <1>4 DEF CancelQueued, TypeOK, TERMINAL_STATUSES
  <2> QED BY <1>4, <2>1, ToldTerminal
<1>5. ASSUME server = "up", NEW w \in Workers, FinishJob(w) PROVE Good'
  <2>1. PICK j \in Jobs : j = holding[w]
    BY <1>5 DEF IInv, Held, FinishJob
  <2>2. task[j] \in TaskDone /\ PublishTerminal(j, Outcome(j)) /\ status'[j] = Outcome(j)
    BY <1>0, <1>5, <2>1 DEF FinishJob, TypeOK
  <2>3. Outcome(j) \in TERMINAL_STATUSES
    BY <2>2, OutcomeType DEF IInv
  <2> QED BY <1>5, <2>2, <2>3, ToldTerminal
<1>6. ASSUME server = "up", NEW l \in Listeners,
             AttachStream(l) \/ ReadEvent(l) \/ CloseStream(l) \/ \E j \in Jobs : OpenStream(l, j)
      PROVE  Good'
  <2>1. ASSUME NEW k \in Listeners, k # l PROVE Right(k)'
    <3>1. listener'[k] = listener[k]
      BY <1>0, <1>6, <2>1 DEF TypeOK, AttachStream, ReadEvent, CloseStream, OpenStream
    <3> QED BY <1>6, <3>1, ToldSame
  <2>2. Right(l)'
    <3>1. CASE AttachStream(l) \/ ReadEvent(l)
      BY <1>6, <3>1, ToldReads
    <3>2. CASE CloseStream(l)
      BY <1>0, <3>2 DEF TypeOK, CloseStream, Stream
    <3>3. ASSUME NEW j \in Jobs, OpenStream(l, j) PROVE Right(l)'
      BY <1>0, <3>3 DEF TypeOK, OpenStream, Stream, Streamed
    <3> QED BY <1>6, <3>1, <3>2, <3>3
  <2> QED BY <2>1, <2>2
<1>7. ASSUME NEW w \in Workers, StartTaken(w) \/ PopPriority(w)
      PROVE  UNCHANGED listener \/ \E j \in Jobs : Publish(j, "status")
  <2>1. CASE StartTaken(w)
    BY <2>1 DEF IInv, Held, StartTaken, Start
  <2>2. CASE PopPriority(w)
    <3>1. Head(priority) \in Jobs
      BY <1>0, <2>2 DEF TypeOK, PopPriority
    <3> QED BY <2>2, <3>1 DEF PopPriority, Start
  <2> QED BY <1>7, <2>1, <2>2
<1>8. ASSUME NEW j \in Jobs, Poll(j) PROVE UNCHANGED listener \/ Publish(j, "progress")
  BY <1>8 DEF Poll
<1>9. ASSUME \/ Shutdown \/ ShutdownSweep \/ ShutdownJoin \/ Interrupt \/ \E j \in Jobs : ShutdownReap(j)
      PROVE  server' # "up"
  BY <1>9 DEF Shutdown, ShutdownSweep, ShutdownJoin, Interrupt, ShutdownReap
<1>10. ASSUME NEW j \in Jobs, \/ CreateJob(j) \/ CancelDownloading(j) \/ RemoveJob(j) \/ PrioritizeJob(j)
                             \/ DeleteJobHistory(j) \/ TaskStep(j) \/ ProcExit(j)
       PROVE  UNCHANGED listener
  BY <1>10 DEF CreateJob, CancelDownloading, RemoveJob, PrioritizeJob, DeleteJobHistory, TaskStep, ProcExit,
              BeginDownload, Spawned, SpawnFails, CancelledEarly, TaskEnds, CancelledPolling
<1>11. ASSUME ClearFinishedJobs \/ CleanupOldJobs \/ StartDrain \/ StopDrain PROVE UNCHANGED listener
  BY <1>11 DEF ClearFinishedJobs, CleanupOldJobs, StartDrain, StopDrain
<1>12. ASSUME NEW w \in Workers, \/ WaitForJob(w) \/ WaitTimeout(w) \/ TakeFifo(w) \/ SkipPromoted(w)
                                \/ SkipCancelled(w) \/ LeaveLoop(w)
       PROVE  UNCHANGED listener
  BY <1>12 DEF WaitForJob, WaitTimeout, TakeFifo, SkipPromoted, SkipCancelled, LeaveLoop
<1>13. ASSUME UNCHANGED vars PROVE UNCHANGED listener
  BY <1>13 DEF vars
<1>14. server' = "up" => server = "up"
  BY DEF Next, Api, Streams, WorkerStep, TaskStep, Stop, vars, Interrupt, Shutdown, ShutdownSweep, ShutdownJoin,
         ShutdownReap, FinishJob, StartTaken, PopPriority, WaitForJob, WaitTimeout, TakeFifo, SkipPromoted,
         SkipCancelled, LeaveLoop, BeginDownload, Spawned, SpawnFails, CancelledEarly, TaskEnds, CancelledPolling,
         Poll, ProcExit, AttachStream, ReadEvent, CloseStream
<1> HIDE DEF Good
<1>15. Good'
  BY <1>1, <1>2, <1>3, <1>4, <1>5, <1>6, <1>7, <1>8, <1>9, <1>10, <1>11, <1>12, <1>13, <1>14
     DEF Next, Api, Streams, WorkerStep, Stop
<1> QED BY <1>15 DEF Good, Told

\* A stream that has ended told its client how the job ended.
THEOREM StreamsTellTheOutcome == Spec => []StreamTellsOutcome
<1>1. Init => Told
  BY DEF Init, Told, Stream
<1>2. IInv /\ Told /\ [Next]_vars => Told'
  BY ToldStep
<1>3. Told => StreamTellsOutcome
  BY DEF Told, Streamed, StreamTellsOutcome
<1> QED BY <1>1, <1>2, <1>3, Invariance, PTL DEF Spec

-----------------------------------------------------------------------------
(* The queue implements JobLifecycle.                                      *)

\* A worker that has taken a job stays with it until its task is over.
LEMMA SlottedStep == ASSUME IInv, Slotted, [Next]_vars PROVE Slotted'
<1> USE DEF Slotted, Runs, apiVars, queues, pool, taskVars, logVars, stopVars
<1>0. TypeOK
  BY DEF IInv
<1>1. ASSUME UNCHANGED <<status, worker, holding>> PROVE Slotted'
  BY <1>1
<1>2. ASSUME NEW j \in Jobs, \/ CreateJob(j) \/ CancelQueued(j) \/ CancelDownloading(j)
                            \/ SpawnFails(j) \/ TaskEnds(j)
      PROVE  Slotted'
  BY <1>0, <1>2 DEF TypeOK, CreateJob, CancelQueued, CancelDownloading, SpawnFails, TaskEnds
<1>3. ASSUME NEW w \in Workers,
             StartTaken(w) \/ (PopPriority(w) /\ ~UNCHANGED <<status, pool, task, listener>>)
      PROVE  Slotted'
  <2>1. PICK j \in Jobs : Start(w, j) /\ worker[w] # "running"
    BY <1>3, StartsFrom
  <2> QED BY <1>0, <2>1 DEF Start, TypeOK
<1>4. ASSUME NEW w \in Workers, FinishJob(w) PROVE Slotted'
  <2>1. PICK j \in Jobs, s \in TERMINAL_STATUSES :
           /\ status' = [status EXCEPT ![j] = s]
           /\ \A v \in Workers, k \in Jobs : Runs(v, k)' <=> Runs(v, k) /\ k # j
    BY <1>4, Finishes
  <2> QED BY <1>0, <2>1 DEF TypeOK, TERMINAL_STATUSES
<1>5. ASSUME NEW w \in Workers, \/ WaitForJob(w) \/ WaitTimeout(w) \/ LeaveLoop(w) \/ TakeFifo(w)
                               \/ SkipPromoted(w) \/ SkipCancelled(w)
      PROVE  Slotted'
  <2>1. worker[w] # "running" /\ UNCHANGED status
    BY <1>5 DEF WaitForJob, WaitTimeout, LeaveLoop, TakeFifo, SkipPromoted, SkipCancelled, Idle
  <2>2. \A v \in Workers \ {w} : worker'[v] = worker[v] /\ holding'[v] = holding[v]
    BY <1>0, <1>5 DEF TypeOK, WaitForJob, WaitTimeout, LeaveLoop, TakeFifo, SkipPromoted, SkipCancelled, Release
  <2> QED BY <2>1, <2>2
<1>6. ASSUME Interrupt PROVE Slotted'
  BY <1>0, <1>6 DEF TypeOK, Interrupt
<1>7. ASSUME NEW j \in Jobs, \/ PrioritizeJob(j) \/ DeleteJobHistory(j) \/ Poll(j) \/ BeginDownload(j)
                            \/ Spawned(j) \/ CancelledEarly(j) \/ CancelledPolling(j)
      PROVE  UNCHANGED <<status, worker, holding>>
  BY <1>7 DEF PrioritizeJob, DeleteJobHistory, Poll, BeginDownload, Spawned, CancelledEarly, CancelledPolling
<1>8. ASSUME Shutdown \/ ShutdownSweep \/ ShutdownJoin PROVE UNCHANGED <<status, worker, holding>>
  BY <1>8 DEF Shutdown, ShutdownSweep, ShutdownJoin
<1>9. ASSUME NEW w \in Workers, PopPriority(w), UNCHANGED <<status, pool, task, listener>>
      PROVE  UNCHANGED <<status, worker, holding>>
  BY <1>9
<1> HIDE DEF Slotted
<1> QED BY <1>1, <1>2, <1>3, <1>4, <1>5, <1>6, <1>7, <1>8, <1>9, StepCases DEF core

\* While a worker has no job, fewer jobs download than there are workers: each of
\* them occupies another one.
LEMMA SlotIsFree ==
  ASSUME IInv, Slotted, NEW w \in Workers, worker[w] # "running"
  PROVE  Cardinality({k \in Jobs : status[k] = "downloading"}) < Cardinality(Workers)
<1> DEFINE D == {k \in Jobs : status[k] = "downloading"}
           others == Workers \ {w}
           at == [k \in D |-> CHOOSE v \in Workers : Runs(v, k)]
<1>1. \A k \in D : Runs(at[k], k) /\ at[k] \in others
  BY DEF Slotted, Runs
<1>2. at \in [D -> others]
  BY <1>1
<1> HIDE DEF at
<1>3. \A i, k \in D : at[i] = at[k] => i = k
  BY <1>1 DEF Runs
<1>4. at \in Injection(D, others)
  BY <1>2, <1>3 DEF Injection, IsInjective
<1>5. IsFiniteSet(others) /\ Cardinality(others) = Cardinality(Workers) - 1 /\ Cardinality(Workers) \in Nat
  BY FS_RemoveElement, FS_CardinalityType, QueueAssumption
<1>6. IsFiniteSet(D) /\ Cardinality(D) <= Cardinality(others)
  BY <1>4, <1>5, FS_Injection
<1>7. Cardinality(D) \in Nat
  BY <1>6, FS_CardinalityType
<1> HIDE DEF D, others
<1>8. Cardinality(D) < Cardinality(Workers)
  BY <1>5, <1>6, <1>7
<1> QED BY <1>8 DEF D

\* Each step of the queue is a step of a job's life cycle, or none.
LEMMA LifecycleStep ==
  ASSUME IInv, Slotted, server # "interrupted", [Next]_vars
  PROVE  Lifecycle!Next \/ UNCHANGED Lifecycle!vars
<1> USE DEF apiVars, queues, pool, taskVars, logVars, stopVars
<1> DEFINE Good == Lifecycle!Next \/ UNCHANGED Lifecycle!vars
<1>0. TypeOK /\ Held /\ StatusOfTask /\ CancelPrecedesPoll /\ Settled
  BY DEF IInv
<1>1. ASSUME UNCHANGED <<status, recorded>> PROVE Good
  BY <1>1 DEF Lifecycle!vars
<1>2. ASSUME NEW j \in Jobs, CreateJob(j) PROVE Good
  <2>1. Lifecycle!Submit(j)
    BY <1>2 DEF CreateJob, Lifecycle!Submit
  <2> QED BY <2>1 DEF Lifecycle!Next
<1>3. ASSUME NEW j \in Jobs, CancelQueued(j) \/ CancelDownloading(j) PROVE Good
  <2>1. Lifecycle!Cancel(j)
    BY <1>3 DEF CancelQueued, CancelDownloading, RecordJobHistory, Lifecycle!Cancel
  <2> QED BY <2>1 DEF Lifecycle!Next
<1>4. ASSUME NEW j \in Jobs, SpawnFails(j) \/ TaskEnds(j) PROVE Good
  <2>1. status[j] = "downloading"
    BY <1>0, <1>4 DEF SpawnFails, TaskEnds, StatusOfTask, CancelPrecedesPoll, TaskLive
  <2>2. Lifecycle!End(j)
    BY <1>4, <2>1 DEF SpawnFails, TaskEnds, Lifecycle!End
  <2> QED BY <2>2 DEF Lifecycle!Next
<1>5. ASSUME NEW w \in Workers,
             StartTaken(w) \/ (PopPriority(w) /\ ~UNCHANGED <<status, pool, task, listener>>)
      PROVE  Good
  <2>1. PICK j \in Jobs : Start(w, j) /\ status[j] = "queued" /\ worker[w] # "running"
    BY <1>5, StartsFrom
  <2>2. UNCHANGED recorded
    BY <1>5 DEF StartTaken, PopPriority
  <2>3. Cardinality({k \in Jobs : status[k] = "downloading"}) < Cardinality(Workers)
    BY <2>1, SlotIsFree
  <2>4. status[j] = "queued" /\ status' = [status EXCEPT ![j] = "downloading"]
    BY <2>1 DEF Start
  <2> DEFINE busy == {k \in Jobs : status[k] = "downloading"}
  <2> HIDE DEF busy
  <2>5. Lifecycle!Cardinality(busy) = Cardinality(busy)
    BY DEF Lifecycle!Cardinality, Cardinality
  <2>6. Lifecycle!Begin(j)
    BY <2>2, <2>3, <2>4, <2>5 DEF Lifecycle!Begin, busy
  <2> QED BY <2>6 DEF Lifecycle!Next
<1>6. ASSUME NEW w \in Workers, FinishJob(w) PROVE Good
  <2>1. PICK j \in Jobs : j = holding[w]
    BY <1>0, <1>6 DEF FinishJob, Held
  <2>3. j \notin recorded
    BY <1>0, <1>6, <2>1 DEF Settled, Runs, FinishJob
  <2>2. /\ task[j] \in TaskDone /\ status' = [status EXCEPT ![j] = Outcome(j)]
        /\ recorded' = recorded \cup {j}
    BY <1>0, <1>6, <2>1, <2>3, OutcomeType DEF FinishJob, RecordJobHistory
  <2>4. CASE status[j] = Outcome(j)
    <3>1. status[j] \in Lifecycle!Ended
      BY <2>2, <2>4, OutcomeType DEF IInv, Lifecycle!Ended, TERMINAL_STATUSES
    <3>2. status' = status
      BY <1>0, <2>2, <2>4 DEF TypeOK
    <3>3. Lifecycle!Log(j)
      BY <2>2, <2>3, <3>1, <3>2 DEF Lifecycle!Log
    <3> QED BY <3>3 DEF Lifecycle!Next
  <2>5. CASE status[j] # Outcome(j)
    <3>1. status[j] = "downloading" /\ Outcome(j) = "cancelled"
      BY <1>0, <2>2, <2>5 DEF StatusOfTask, Outcome, TaskDone
    <3>2. Lifecycle!Cancel(j)
      BY <2>2, <3>1 DEF Lifecycle!Cancel
    <3> QED BY <3>2 DEF Lifecycle!Next
  <2> QED BY <2>4, <2>5
<1>7. ASSUME NEW j \in Jobs, \/ PrioritizeJob(j) \/ DeleteJobHistory(j) \/ Poll(j) \/ BeginDownload(j)
                            \/ Spawned(j) \/ CancelledEarly(j) \/ CancelledPolling(j)
      PROVE  UNCHANGED <<status, recorded>>
  BY <1>7 DEF PrioritizeJob, DeleteJobHistory, Poll, BeginDownload, Spawned, CancelledEarly, CancelledPolling
<1>8. ASSUME NEW w \in Workers, \/ WaitForJob(w) \/ WaitTimeout(w) \/ LeaveLoop(w) \/ TakeFifo(w)
                               \/ SkipPromoted(w) \/ SkipCancelled(w)
      PROVE  UNCHANGED <<status, recorded>>
  BY <1>8 DEF WaitForJob, WaitTimeout, LeaveLoop, TakeFifo, SkipPromoted, SkipCancelled
<1>9. ASSUME Shutdown \/ ShutdownSweep \/ ShutdownJoin \/ Interrupt PROVE UNCHANGED <<status, recorded>>
  BY <1>9 DEF Shutdown, ShutdownSweep, ShutdownJoin, Interrupt
<1>10. ASSUME NEW w \in Workers, PopPriority(w), UNCHANGED <<status, pool, task, listener>>
       PROVE  UNCHANGED <<status, recorded>>
  BY <1>10 DEF PopPriority
<1> HIDE DEF Good
<1>11. Good
  BY <1>1, <1>2, <1>3, <1>4, <1>5, <1>6, <1>7, <1>8, <1>9, <1>10, StepCases DEF core
<1> QED BY <1>11 DEF Good

\* A server that nobody interrupts takes its jobs through the life cycle, with no
\* more of them downloading than it has workers.
THEOREM KeepsLifecycle == Spec /\ [](server # "interrupted") => Lifecycle!Safety
<1>1. Init => Lifecycle!Init
  BY DEF Init, Lifecycle!Init
<1>2. Init => Slotted
  BY DEF Init, Slotted
<1>3. IInv /\ Slotted /\ [Next]_vars => Slotted'
  BY SlottedStep
<1>4. IInv /\ Slotted /\ server # "interrupted" /\ [Next]_vars => [Lifecycle!Next]_(Lifecycle!vars)
  BY LifecycleStep
<1> QED BY <1>1, <1>2, <1>3, <1>4, Invariance, PTL DEF Spec, Lifecycle!Safety

-----------------------------------------------------------------------------
\* Without Ctrl+C nothing else stops the server that way.
LEMMA OnlyInterrupt ==
  ASSUME "interrupt" \notin Stops, server # "interrupted", [Next]_vars
  PROVE  server' # "interrupted"
<1>1. ~Interrupt
  BY DEF Interrupt
<1>2. CASE UNCHANGED core
  BY <1>2 DEF core
<1>3. ASSUME NEW j \in Jobs,
             \/ CreateJob(j) \/ CancelQueued(j) \/ CancelDownloading(j)
             \/ PrioritizeJob(j) \/ DeleteJobHistory(j)
             \/ BeginDownload(j) \/ Spawned(j) \/ SpawnFails(j)
             \/ CancelledEarly(j) \/ TaskEnds(j) \/ CancelledPolling(j) \/ Poll(j)
      PROVE  UNCHANGED server
  BY <1>3 DEF CreateJob, CancelQueued, CancelDownloading, PrioritizeJob, DeleteJobHistory,
       BeginDownload, Spawned, SpawnFails, CancelledEarly, TaskEnds, CancelledPolling, Poll, stopVars
<1>4. ASSUME NEW w \in Workers,
             \/ PopPriority(w) \/ WaitForJob(w) \/ WaitTimeout(w)
             \/ TakeFifo(w) \/ SkipPromoted(w) \/ SkipCancelled(w)
             \/ StartTaken(w) \/ FinishJob(w) \/ LeaveLoop(w)
      PROVE  UNCHANGED server
  BY <1>4 DEF PopPriority, WaitForJob, WaitTimeout, TakeFifo, SkipPromoted, SkipCancelled,
       StartTaken, FinishJob, LeaveLoop, stopVars
<1>5. ASSUME Shutdown \/ ShutdownSweep \/ ShutdownJoin PROVE server' # "interrupted"
  BY <1>5 DEF Shutdown, ShutdownSweep, ShutdownJoin, stopVars
<1> QED BY <1>1, <1>2, <1>3, <1>4, <1>5, StepCases

\* A server that nothing but shutdown() stops, whatever its jobs are doing then,
\* takes them through the life cycle from its start to its end.
THEOREM CleanStopsKeepLifecycle ==
  ASSUME "interrupt" \notin Stops PROVE Spec => Lifecycle!Safety
<1>1. Init => server # "interrupted"
  BY DEF Init
<1>2. server # "interrupted" /\ [Next]_vars => (server # "interrupted")'
  BY OnlyInterrupt
<1> QED BY <1>1, <1>2, KeepsLifecycle, PTL DEF Spec
=============================================================================
