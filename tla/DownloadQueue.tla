---------------------------- MODULE DownloadQueue ----------------------------
(***************************************************************************)
(* The download job queue of the REST server                               *)
(* (unshackle/core/api/download_manager.py, class DownloadQueueManager).   *)
(*                                                                         *)
(* One asyncio event loop runs the API handlers, a fixed pool of worker    *)
(* coroutines and one execute_download task per running job.  Each action  *)
(* below is the code between two awaits of one of them.  A task waits on   *)
(* a subprocess, which runs on its own.  task.cancel() is a request: the   *)
(* CancelledError is raised when the cancelled coroutine next resumes.     *)
(***************************************************************************)
EXTENDS Naturals, Sequences, FiniteSets

CONSTANTS
  Jobs,       \* job ids, one per call of create_job
  Workers,    \* the pool: max_concurrent_downloads coroutines
  Listeners,  \* clients of GET /download/jobs/{id}/events
  QueueMax,   \* capacity of a listener's event queue (100 in the code)
  Stops,      \* how the server may be stopped: "shutdown", "interrupt"
  Stubborn,   \* jobs whose process does not die of SIGTERM
  NoJob       \* no job in hand

ASSUME QueueAssumption ==
  /\ IsFiniteSet(Workers)
  /\ QueueMax \in Nat /\ QueueMax >= 2
  /\ NoJob \notin Jobs
  /\ Stops \subseteq {"shutdown", "interrupt"}
  /\ Stubborn \subseteq Jobs

VARIABLES
  status,     \* job.status; "absent" before create_job
  listed,     \* keys of _jobs: a removed job's object outlives its entry
  fifo,       \* _job_queue
  priority,   \* _priority_jobs
  promoted,   \* _promoted_ids
  worker,     \* where each worker coroutine is suspended
  holding,    \* the job a worker has taken off a queue
  task,       \* progress of the job's execute_download task
  cancelReq,  \* jobs whose task has a cancellation to deliver
  proc,       \* the job's worker process, as the system sees it
  procs,      \* keys of _download_processes
  tempReg,    \* keys of _job_temp_files
  disk,       \* jobs whose temp files (payload, result, progress) exist
  recorded,   \* jobs with history_recorded set
  history,    \* the statuses the history file has for each job
  listener,   \* each listener's stream
  draining,   \* session_store's drain flag
  server,     \* "up", or how far a stop of the server got
  awaited     \* what shutdown() still waits for: processes, then tasks

apiVars  == <<listed, promoted, draining>>
queues   == <<fifo, priority>>
pool     == <<worker, holding>>
taskVars == <<task, cancelReq, proc, procs, tempReg, disk>>
logVars  == <<recorded, history>>
stopVars == <<server, awaited>>
vars == <<status, apiVars, queues, pool, taskVars, logVars, listener, stopVars>>

-----------------------------------------------------------------------------
TERMINAL_STATUSES == {"completed", "failed", "cancelled"}
JobStatus         == {"absent", "queued", "downloading"} \cup TERMINAL_STATUSES

TaskDone  == {"done", "raised", "cancelled"}
TaskState == {"none", "created", "spawning", "polling"} \cup TaskDone
\* "signalled" has been sent SIGTERM and has not died of it (yet).
ProcState == {"none", "running", "signalled", "exit0", "exit1"}
ProcAlive == {"running", "signalled"}

Events == {"status", "progress", "end"} \cup TERMINAL_STATUSES
Inboxes == {q \in Seq(Events) : Len(q) <= QueueMax}
ListenerState == [at : {"off", "opening", "open", "closing", "closed"}, job : Jobs \cup {NoJob},
                  inbox : Inboxes, seen : TERMINAL_STATUSES \cup {"none"}]

Stream(at, job, inbox, seen) == [at |-> at, job |-> job, inbox |-> inbox, seen |-> seen]

\* Types, and the capacity of a listener's queue: a client that stops reading
\* costs the server QueueMax events, however long the job goes on.
TypeOK ==
  /\ status \in [Jobs -> JobStatus]
  /\ listed \in SUBSET Jobs
  /\ fifo \in Seq(Jobs)
  /\ priority \in Seq(Jobs)
  /\ promoted \in SUBSET Jobs
  /\ worker \in [Workers -> {"off", "idle", "waiting", "got", "running", "stopped"}]
  /\ holding \in [Workers -> Jobs \cup {NoJob}]
  /\ task \in [Jobs -> TaskState]
  /\ cancelReq \in SUBSET Jobs
  /\ proc \in [Jobs -> ProcState]
  /\ procs \in SUBSET Jobs
  /\ tempReg \in SUBSET Jobs
  /\ disk \in SUBSET Jobs
  /\ recorded \in SUBSET Jobs
  /\ history \in [Jobs -> Seq(TERMINAL_STATUSES)]
  /\ listener \in [Listeners -> ListenerState]
  /\ draining \in BOOLEAN
  /\ server \in {"up", "interrupted", "reaping", "joining", "down"}
  /\ awaited \in SUBSET Jobs

Init ==
  /\ status = [j \in Jobs |-> "absent"]
  /\ listed = {} /\ fifo = <<>> /\ priority = <<>> /\ promoted = {}
  /\ worker = [w \in Workers |-> "off"]
  /\ holding = [w \in Workers |-> NoJob]
  /\ task = [j \in Jobs |-> "none"]
  /\ proc = [j \in Jobs |-> "none"]
  /\ cancelReq = {} /\ procs = {} /\ tempReg = {} /\ disk = {}
  /\ recorded = {} /\ history = [j \in Jobs |-> <<>>]
  /\ listener = [l \in Listeners |-> Stream("off", NoJob, <<>>, "none")]
  /\ draining = FALSE
  /\ server = "up" /\ awaited = {}

-----------------------------------------------------------------------------
(* Event streams, history and cancellation: the pieces handlers share.     *)

InSeq(j, s) == \E i \in 1..Len(s) : s[i] = j

\* Mutant: nothing is dropped.
PutUnbounded(q, e) == Append(q, e)

\* A full queue drops its oldest item.
Put(q, e) == Append(IF Len(q) < QueueMax THEN q ELSE Tail(q), e)

Subscribed(l, j) == listener[l].at = "open" /\ listener[l].job = j

Publish(j, e) ==
  listener' = [l \in Listeners |->
    IF Subscribed(l, j) THEN [listener[l] EXCEPT !.inbox = Put(@, e)] ELSE listener[l]]

\* Mutant: the end marker first.
PublishTerminalEndsFirst(j, s) ==
  listener' = [l \in Listeners |->
    IF Subscribed(l, j)
    THEN Stream("closing", j, Put(Put(listener[l].inbox, "end"), s), listener[l].seen)
    ELSE listener[l]]

\* The final state, then None, and the listener leaves _subscribers.
PublishTerminal(j, s) ==
  listener' = [l \in Listeners |->
    IF Subscribed(l, j)
    THEN Stream("closing", j, Put(Put(listener[l].inbox, s), "end"), listener[l].seen)
    ELSE listener[l]]

\* Best effort: the flag is set first, and the write may then fail.
RecordJobHistory(j, s) ==
  \/ /\ j \in recorded \/ s \notin TERMINAL_STATUSES
     /\ UNCHANGED logVars
  \/ /\ j \notin recorded /\ s \in TERMINAL_STATUSES
     /\ recorded' = recorded \cup {j}
     /\ history' \in {history, [history EXCEPT ![j] = Append(@, s)]}

\* _active_downloads: filled when a worker starts a job, emptied when it ends.
Active == {holding[w] : w \in {v \in Workers : worker[v] = "running"}}

\* task.cancel() does nothing to a finished task.
Cancellable(S) == {j \in S : task[j] \notin TaskDone}

\* process.terminate(), ignored when the process has exited.
Signal(S) == [j \in Jobs |-> IF j \in S /\ proc[j] = "running" THEN "signalled" ELSE proc[j]]

ShutdownEvent == server \in {"reaping", "joining", "down"}

-----------------------------------------------------------------------------
(* The API handlers.                                                       *)

\* POST /download (and a retry): starts the pool on the first job.
CreateJob(j) ==
  /\ status[j] = "absent"
  /\ ~draining
  /\ status' = [status EXCEPT ![j] = "queued"]
  /\ listed' = listed \cup {j}
  /\ fifo' = Append(fifo, j)
  /\ worker' = [w \in Workers |-> IF worker[w] = "off" THEN "idle" ELSE worker[w]]
  /\ UNCHANGED <<promoted, draining, priority, holding, taskVars, logVars, listener, stopVars>>

\* Mutant: the history is left to a worker, which never runs the job.
CancelQueuedUnrecorded(j) ==
  /\ j \in listed /\ status[j] = "queued"
  /\ status' = [status EXCEPT ![j] = "cancelled"]
  /\ PublishTerminal(j, "cancelled")
  /\ UNCHANGED <<apiVars, queues, pool, taskVars, logVars, stopVars>>

CancelQueued(j) ==
  /\ j \in listed /\ status[j] = "queued"
  /\ status' = [status EXCEPT ![j] = "cancelled"]
  /\ RecordJobHistory(j, "cancelled")
  /\ PublishTerminal(j, "cancelled")
  /\ UNCHANGED <<apiVars, queues, pool, taskVars, stopVars>>

\* Mutant: the task is left to find out from the poll loop.
CancelDownloadingOnlyMarks(j) ==
  /\ j \in listed /\ status[j] = "downloading"
  /\ status' = [status EXCEPT ![j] = "cancelled"]
  /\ proc' = Signal({j} \cap procs)
  /\ UNCHANGED <<apiVars, queues, pool, task, cancelReq, procs, tempReg, disk, logVars, listener, stopVars>>

\* Mutant: the process is left to the task.
CancelDownloadingNoTerminate(j) ==
  /\ j \in listed /\ status[j] = "downloading"
  /\ status' = [status EXCEPT ![j] = "cancelled"]
  /\ cancelReq' = cancelReq \cup Cancellable({j} \cap Active)
  /\ UNCHANGED <<apiVars, queues, pool, task, proc, procs, tempReg, disk, logVars, listener, stopVars>>

\* The job is terminal at once; its task and its process only hear of it.
CancelDownloading(j) ==
  /\ j \in listed /\ status[j] = "downloading"
  /\ status' = [status EXCEPT ![j] = "cancelled"]
  /\ cancelReq' = cancelReq \cup Cancellable({j} \cap Active)
  /\ proc' = Signal({j} \cap procs)
  /\ UNCHANGED <<apiVars, queues, pool, task, procs, tempReg, disk, logVars, listener, stopVars>>

RemoveJob(j) ==
  /\ j \in listed /\ status[j] \in TERMINAL_STATUSES
  /\ listed' = listed \ {j}
  /\ UNCHANGED <<status, promoted, draining, queues, pool, taskVars, logVars, listener, stopVars>>

ClearFinishedJobs ==
  /\ listed' = {j \in listed : status[j] \notin TERMINAL_STATUSES}
  /\ listed' # listed
  /\ UNCHANGED <<status, promoted, draining, queues, pool, taskVars, logVars, listener, stopVars>>

\* The hourly clean-up: any of the terminal jobs may be past the cutoff.
CleanupOldJobs ==
  /\ \E old \in SUBSET {j \in listed : status[j] \in TERMINAL_STATUSES} \ {{}} :
       listed' = listed \ old
  /\ UNCHANGED <<status, promoted, draining, queues, pool, taskVars, logVars, listener, stopVars>>

\* Mutant: the FIFO copy is not marked stale.
PrioritizeJobKeepsCopy(j) ==
  /\ j \in listed /\ status[j] = "queued"
  /\ ~InSeq(j, priority)
  /\ priority' = Append(priority, j)
  /\ UNCHANGED <<status, apiVars, fifo, pool, taskVars, logVars, listener, stopVars>>

\* Mutant: the FIFO copy is marked stale, and that is all.
PrioritizeJobOnlyMarks(j) ==
  /\ j \in listed /\ status[j] = "queued"
  /\ j \notin promoted
  /\ promoted' = promoted \cup {j}
  /\ UNCHANGED <<status, listed, draining, queues, pool, taskVars, logVars, listener, stopVars>>

PrioritizeJob(j) ==
  /\ j \in listed /\ status[j] = "queued"
  /\ ~InSeq(j, priority)
  /\ priority' = Append(priority, j)
  /\ promoted' = promoted \cup {j}
  /\ UNCHANGED <<status, listed, draining, fifo, pool, taskVars, logVars, listener, stopVars>>

DeleteJobHistory(j) ==
  /\ history[j] # <<>>
  /\ history' = [history EXCEPT ![j] = <<>>]
  /\ UNCHANGED <<status, apiVars, queues, pool, taskVars, recorded, listener, stopVars>>

StartDrain ==
  /\ ~draining
  /\ draining' = TRUE
  /\ UNCHANGED <<status, listed, promoted, queues, pool, taskVars, logVars, listener, stopVars>>

\* The operator calls the drain off.
StopDrain ==
  /\ draining
  /\ draining' = FALSE
  /\ UNCHANGED <<status, listed, promoted, queues, pool, taskVars, logVars, listener, stopVars>>

\* GET .../events: the job is looked up, and its snapshot sent (an await).
OpenStream(l, j) ==
  /\ listener[l].at = "off"
  /\ j \in listed
  /\ listener' = [listener EXCEPT ![l] = Stream("opening", j, <<>>, "none")]
  /\ UNCHANGED <<status, apiVars, queues, pool, taskVars, logVars, stopVars>>

\* Mutant: the look taken before the snapshot decides.
AttachStreamUnchecked(l) ==
  /\ listener[l].at = "opening"
  /\ listener' = [listener EXCEPT ![l].at = "open"]
  /\ UNCHANGED <<status, apiVars, queues, pool, taskVars, logVars, stopVars>>

\* A job still live after the snapshot is subscribed to, another answered at once.
AttachStream(l) ==
  LET j == listener[l].job IN
  /\ listener[l].at = "opening"
  /\ listener' = [listener EXCEPT ![l] =
       IF status[j] \in TERMINAL_STATUSES
       THEN Stream("closed", j, <<>>, status[j])
       ELSE Stream("open", j, <<>>, "none")]
  /\ UNCHANGED <<status, apiVars, queues, pool, taskVars, logVars, stopVars>>

ReadEvent(l) ==
  LET s == listener[l]
      e == Head(s.inbox)
  IN
  /\ s.at \in {"open", "closing"} /\ s.inbox # <<>>
  /\ listener' = [listener EXCEPT ![l] =
       Stream(IF e = "end" THEN "closed" ELSE s.at, s.job, Tail(s.inbox),
              IF e \in TERMINAL_STATUSES THEN e ELSE s.seen)]
  /\ UNCHANGED <<status, apiVars, queues, pool, taskVars, logVars, stopVars>>

\* The client goes away: unsubscribe.
CloseStream(l) ==
  /\ listener[l].at \in {"opening", "open", "closing"}
  /\ listener' = [listener EXCEPT ![l] = Stream("off", NoJob, <<>>, "none")]
  /\ UNCHANGED <<status, apiVars, queues, pool, taskVars, logVars, stopVars>>

-----------------------------------------------------------------------------
(* download_worker: the loop of each coroutine of the pool.  "idle" is the *)
(* top of the loop, no suspension: stopping there only adds interleavings. *)

Idle(w) == worker[w] = "idle" /\ ~ShutdownEvent

Release(w) ==
  /\ worker' = [worker EXCEPT ![w] = "idle"]
  /\ holding' = [holding EXCEPT ![w] = NoJob]

\* Mutant: a cancelled job is started too.
StartUnchecked(w, j) ==
  /\ status' = [status EXCEPT ![j] = "downloading"]
  /\ worker' = [worker EXCEPT ![w] = "running"]
  /\ holding' = [holding EXCEPT ![w] = j]
  /\ task' = [task EXCEPT ![j] = "created"]
  /\ Publish(j, "status")

\* Only CANCELLED is checked before a job is started.
Start(w, j) ==
  /\ status[j] # "cancelled"
  /\ status' = [status EXCEPT ![j] = "downloading"]
  /\ worker' = [worker EXCEPT ![w] = "running"]
  /\ holding' = [holding EXCEPT ![w] = j]
  /\ task' = [task EXCEPT ![j] = "created"]
  /\ Publish(j, "status")

PopPriority(w) ==
  LET j == Head(priority) IN
  /\ Idle(w) /\ priority # <<>>
  /\ priority' = Tail(priority)
  /\ \/ Start(w, j)
     \/ status[j] = "cancelled" /\ UNCHANGED <<status, pool, task, listener>>
  /\ UNCHANGED <<apiVars, fifo, cancelReq, proc, procs, tempReg, disk, logVars, stopVars>>

WaitForJob(w) ==
  /\ Idle(w) /\ priority = <<>>
  /\ worker' = [worker EXCEPT ![w] = "waiting"]
  /\ UNCHANGED <<status, apiVars, queues, holding, taskVars, logVars, listener, stopVars>>

\* wait_for gives up after a second without an item, and the loop starts over.
WaitTimeout(w) ==
  /\ worker[w] = "waiting" /\ fifo = <<>>
  /\ worker' = [worker EXCEPT ![w] = "idle"]
  /\ UNCHANGED <<status, apiVars, queues, holding, taskVars, logVars, listener, stopVars>>

\* On Python 3.11 wait_for runs get() in a task: the worker resumes a tick later.
TakeFifo(w) ==
  /\ worker[w] = "waiting" /\ fifo # <<>>
  /\ fifo' = Tail(fifo)
  /\ holding' = [holding EXCEPT ![w] = Head(fifo)]
  /\ worker' = [worker EXCEPT ![w] = "got"]
  /\ UNCHANGED <<status, apiVars, priority, taskVars, logVars, listener, stopVars>>

SkipPromoted(w) ==
  /\ worker[w] = "got" /\ holding[w] \in promoted
  /\ promoted' = promoted \ {holding[w]}
  /\ Release(w)
  /\ UNCHANGED <<status, listed, draining, queues, taskVars, logVars, listener, stopVars>>

SkipCancelled(w) ==
  /\ worker[w] = "got" /\ holding[w] \notin promoted
  /\ status[holding[w]] = "cancelled"
  /\ Release(w)
  /\ UNCHANGED <<status, apiVars, queues, taskVars, logVars, listener, stopVars>>

StartTaken(w) ==
  /\ worker[w] = "got" /\ holding[w] \notin promoted
  /\ Start(w, holding[w])
  /\ UNCHANGED <<apiVars, queues, cancelReq, proc, procs, tempReg, disk, logVars, stopVars>>

\* The await of the task returns, or raises what the task raised.
Outcome(j) ==
  CASE task[j] = "cancelled" -> "cancelled"
    [] task[j] = "raised"    -> "failed"
    [] OTHER                 -> status[j]

FinishJob(w) ==
  LET j == holding[w] IN
  /\ worker[w] = "running" /\ task[j] \in TaskDone
  /\ status' = [status EXCEPT ![j] = Outcome(j)]
  /\ RecordJobHistory(j, Outcome(j))
  /\ PublishTerminal(j, Outcome(j))
  /\ Release(w)
  /\ UNCHANGED <<apiVars, queues, taskVars, stopVars>>

LeaveLoop(w) ==
  /\ worker[w] = "idle" /\ ShutdownEvent
  /\ worker' = [worker EXCEPT ![w] = "stopped"]
  /\ UNCHANGED <<status, apiVars, queues, holding, taskVars, logVars, listener, stopVars>>

WorkerStep(w) ==
  \/ PopPriority(w) \/ WaitForJob(w) \/ WaitTimeout(w) \/ TakeFifo(w)
  \/ SkipPromoted(w) \/ SkipCancelled(w) \/ StartTaken(w) \/ FinishJob(w) \/ LeaveLoop(w)

-----------------------------------------------------------------------------
(* execute_download and run_download_async: the task of a running job.     *)

\* The three mkstemp calls and the payload, up to the await of the spawn.
BeginDownload(j) ==
  /\ task[j] = "created" /\ j \notin cancelReq
  /\ task' = [task EXCEPT ![j] = "spawning"]
  /\ disk' = disk \cup {j}
  /\ UNCHANGED <<status, apiVars, queues, pool, cancelReq, proc, procs, tempReg,
                 logVars, listener, stopVars>>

Spawned(j) ==
  /\ task[j] = "spawning" /\ j \notin cancelReq
  /\ task' = [task EXCEPT ![j] = "polling"]
  /\ proc' = [proc EXCEPT ![j] = "running"]
  /\ procs' = procs \cup {j}
  /\ tempReg' = tempReg \cup {j}
  /\ UNCHANGED <<status, apiVars, queues, pool, cancelReq, disk, logVars, listener, stopVars>>

\* Nothing after the spawn runs: the temp files are not registered anywhere.
SpawnFails(j) ==
  /\ task[j] = "spawning" /\ j \notin cancelReq
  /\ task' = [task EXCEPT ![j] = "raised"]
  /\ status' = [status EXCEPT ![j] = "failed"]
  /\ UNCHANGED <<apiVars, queues, pool, cancelReq, proc, procs, tempReg, disk,
                 logVars, listener, stopVars>>

\* A cancellation before the try block: asyncio reaps a half-spawned process,
\* the temp files stay.
CancelledEarly(j) ==
  /\ task[j] \in {"created", "spawning"} /\ j \in cancelReq
  /\ task' = [task EXCEPT ![j] = "cancelled"]
  /\ cancelReq' = cancelReq \ {j}
  /\ UNCHANGED <<status, apiVars, queues, pool, proc, procs, tempReg, disk,
                 logVars, listener, stopVars>>

\* The finally block of the poll loop.
Unwind(j) ==
  /\ procs' = procs \ {j}
  /\ tempReg' = tempReg \ {j}
  /\ disk' = disk \ ({j} \cap tempReg)

\* One turn of the poll loop; a job it finds cancelled is terminated, then killed.
Poll(j) ==
  /\ task[j] = "polling" /\ j \notin cancelReq /\ proc[j] \in ProcAlive
  /\ IF status[j] = "cancelled"
     THEN /\ proc' = [proc EXCEPT ![j] = "exit1"]
          /\ cancelReq' = cancelReq \cup {j}
          /\ UNCHANGED listener
     ELSE /\ Publish(j, "progress")
          /\ UNCHANGED <<proc, cancelReq>>
  /\ UNCHANGED <<status, apiVars, queues, pool, task, procs, tempReg, disk, logVars, stopVars>>

\* The process has exited; its code and its result file decide.
TaskEnds(j) ==
  /\ task[j] = "polling" /\ j \notin cancelReq /\ proc[j] \in {"exit0", "exit1"}
  /\ \/ /\ proc[j] = "exit0"
        /\ task' = [task EXCEPT ![j] = "done"]
        /\ status' = [status EXCEPT ![j] = "completed"]
     \/ /\ task' = [task EXCEPT ![j] = "raised"]
        /\ status' = [status EXCEPT ![j] = "failed"]
  /\ Unwind(j)
  /\ UNCHANGED <<apiVars, queues, pool, cancelReq, proc, logVars, listener, stopVars>>

CancelledPolling(j) ==
  /\ task[j] = "polling" /\ j \in cancelReq
  /\ task' = [task EXCEPT ![j] = "cancelled"]
  /\ cancelReq' = cancelReq \ {j}
  /\ Unwind(j)
  /\ UNCHANGED <<status, apiVars, queues, pool, proc, logVars, listener, stopVars>>

TaskStep(j) ==
  \/ BeginDownload(j) \/ Spawned(j) \/ SpawnFails(j) \/ CancelledEarly(j)
  \/ TaskEnds(j) \/ CancelledPolling(j)

\* The worker process, on its own.
ProcExit(j) ==
  /\ \/ proc[j] = "running" /\ \E code \in {"exit0", "exit1"} : proc' = [proc EXCEPT ![j] = code]
     \/ /\ proc[j] = "signalled" /\ j \notin Stubborn
        /\ proc' = [proc EXCEPT ![j] = "exit1"]
  /\ UNCHANGED <<status, apiVars, queues, pool, task, cancelReq, procs, tempReg, disk,
                 logVars, listener, stopVars>>

-----------------------------------------------------------------------------
(* Stopping: shutdown(), and what aiohttp's run_app does on Ctrl+C.        *)

Shutdown ==
  /\ "shutdown" \in Stops /\ server = "up"
  /\ server' = "reaping"
  /\ awaited' = procs
  /\ listener' = [l \in Listeners |->
       IF listener[l].at = "open"
       THEN Stream("closing", listener[l].job, Put(listener[l].inbox, "end"), listener[l].seen)
       ELSE listener[l]]
  /\ cancelReq' = cancelReq \cup Cancellable(Active)
  /\ proc' = Signal(procs)
  /\ UNCHANGED <<status, apiVars, queues, pool, task, procs, tempReg, disk, logVars>>

\* Mutant: wait() without the kill() that ends it.
ShutdownReapWaits(j) ==
  /\ server = "reaping" /\ j \in awaited /\ proc[j] \notin ProcAlive
  /\ awaited' = awaited \ {j}
  /\ procs' = procs \ {j}
  /\ UNCHANGED <<status, apiVars, queues, pool, task, cancelReq, proc, tempReg, disk,
                 logVars, listener, server>>

\* wait() for five seconds, then kill().
ShutdownReap(j) ==
  /\ server = "reaping" /\ j \in awaited
  /\ awaited' = awaited \ {j}
  /\ proc' = [proc EXCEPT ![j] = IF @ \in ProcAlive THEN "exit1" ELSE @]
  /\ procs' = procs \ {j}
  /\ UNCHANGED <<status, apiVars, queues, pool, task, cancelReq, tempReg, disk,
                 logVars, listener, server>>

ShutdownSweep ==
  /\ server = "reaping" /\ awaited = {}
  /\ server' = "joining"
  /\ awaited' = Active
  /\ disk' = disk \ tempReg
  /\ tempReg' = {}
  /\ UNCHANGED <<status, apiVars, queues, pool, task, cancelReq, proc, procs,
                 logVars, listener>>

\* gather() over the tasks that were active when it was called.
ShutdownJoin ==
  /\ server = "joining"
  /\ \A j \in awaited : task[j] \in TaskDone
  /\ server' = "down"
  /\ UNCHANGED <<status, apiVars, queues, pool, taskVars, logVars, listener, awaited>>

\* run_app cancels every task of the loop.  A worker that awaits its job's
\* task cannot tell that from the job being cancelled.
Interrupt ==
  /\ "interrupt" \in Stops /\ server = "up"
  /\ \A w \in Workers : worker[w] # "idle"
  /\ server' = "interrupted"
  /\ \E lucky \in SUBSET {w \in Workers : worker[w] = "got"} :
       worker' = [w \in Workers |->
         IF worker[w] \in {"waiting", "got"} /\ w \notin lucky THEN "stopped" ELSE worker[w]]
  /\ cancelReq' = cancelReq \cup Cancellable(Active)
  /\ task' = [j \in Jobs |-> IF j \in Active /\ task[j] \in TaskDone THEN "cancelled" ELSE task[j]]
  /\ UNCHANGED <<status, apiVars, queues, holding, proc, procs, tempReg, disk,
                 logVars, listener, awaited>>

Stop == Shutdown \/ (\E j \in Jobs : ShutdownReap(j)) \/ ShutdownSweep \/ ShutdownJoin

-----------------------------------------------------------------------------
Api ==
  /\ server = "up"
  /\ \/ \E j \in Jobs : \/ CreateJob(j) \/ CancelQueued(j) \/ CancelDownloading(j)
                        \/ RemoveJob(j) \/ PrioritizeJob(j) \/ DeleteJobHistory(j)
     \/ ClearFinishedJobs \/ CleanupOldJobs \/ StartDrain \/ StopDrain
     \/ \E l \in Listeners, j \in Jobs : OpenStream(l, j)

Streams ==
  /\ server # "interrupted"
  /\ \E l \in Listeners : AttachStream(l) \/ ReadEvent(l) \/ CloseStream(l)

Next ==
  \/ Api
  \/ Streams
  \/ \E w \in Workers : WorkerStep(w)
  \/ \E j \in Jobs : TaskStep(j) \/ Poll(j) \/ ProcExit(j)
  \/ Stop
  \/ Interrupt

Spec == Init /\ [][Next]_vars

\* The event loop runs every ready coroutine, a download ends one day, and a
\* client that stays connected reads its stream.
Fairness ==
  /\ \A w \in Workers : WF_vars(WorkerStep(w))
  /\ \A j \in Jobs : WF_vars(TaskStep(j)) /\ WF_vars(Poll(j)) /\ WF_vars(ProcExit(j))
  /\ \A l \in Listeners : WF_vars(server # "interrupted" /\ (AttachStream(l) \/ ReadEvent(l)))
  /\ \A j \in Jobs : WF_vars(ShutdownReap(j))
  /\ WF_vars(ShutdownSweep) /\ WF_vars(ShutdownJoin)

FairSpec == Spec /\ Fairness

-----------------------------------------------------------------------------
(* What the queue promises.                                                *)

Live(j) == status[j] \in {"queued", "downloading"}

\* A job's download is run by one worker, however the job was moved between
\* the two queues (the stale FIFO copy of a promoted job is the hazard).
OneWorkerPerJob ==
  \A v, w \in Workers :
    worker[v] = "running" /\ worker[w] = "running" /\ holding[v] = holding[w] => v = w

\* ... and no worker runs it again: a finished task is never replaced.
NeverRunAgain == [][\A j \in Jobs : task[j] \in TaskDone => task'[j] \in TaskDone]_vars

\* "Statuses a job can never leave" (TERMINAL_STATUSES), whatever order the
\* cancel request, the task and the worker act in.  (Ctrl+C may cancel a worker
\* between the end of its job and its next step, and the job with it.)
TerminalForever ==
  [][\A j \in Jobs : status[j] \in TERMINAL_STATUSES /\ server # "interrupted"
       => status'[j] = status[j]]_vars

\* The history has a job at most once, under the status the job ended in.
HistoryMatches ==
  \A j \in Jobs : /\ Len(history[j]) <= 1
                  /\ history[j] # <<>> => history[j][1] = status[j] /\ j \in recorded

\* task.cancel() reaches a cancelled job's task before its poll loop can look
\* at the job: the loop's own cancellation branch is never taken.
CancelPrecedesPoll ==
  \A j \in Jobs : status[j] = "cancelled" /\ task[j] \in {"created", "spawning", "polling"}
                    => j \in cancelReq

\* While the server is up, a process nobody has signalled can be reached by
\* cancel_job, and the three files it works on are still there.
RunningIsReachable ==
  server = "up" =>
    \A j \in Jobs : proc[j] = "running" => j \in procs /\ j \in tempReg /\ j \in disk

\* A stream that ended has told its client how the job ended (a shutdown ends
\* the streams of live jobs too).
StreamTellsOutcome ==
  server = "up" =>
    \A l \in Listeners : listener[l].at = "closed" => listener[l].seen = status[listener[l].job]

\* "The server then closes the event stream": of every job that ends.
StreamCloses ==
  \A l \in Listeners, j \in Jobs :
    (listener[l].at \in {"opening", "open"} /\ listener[l].job = j /\ status[j] \in TERMINAL_STATUSES)
      ~> listener[l].at \in {"off", "closed"}

\* No job waits for ever, promoted or not.
QueueMoves == \A j \in Jobs : status[j] = "queued" ~> status[j] # "queued" \/ server # "up"

\* "The server also writes every job that reaches a terminal state once to a
\* persistent history log": also one cancelled while downloading, or by a shutdown.
EventuallyRecorded == \A j \in Jobs : status[j] \in TERMINAL_STATUSES ~> j \in recorded

\* shutdown() returns, also when a process ignores SIGTERM.
ShutdownReturns == server = "reaping" ~> server = "down"

\* The queue implements the life cycle of a job (unless the server is interrupted).
Lifecycle == INSTANCE JobLifecycle
  WITH state <- status, logged <- recorded, Slots <- Cardinality(Workers)

ImplementsLifecycle == Lifecycle!Spec

-----------------------------------------------------------------------------
(* Statements of the documentation that the code does not keep.            *)

\* "terminate()s the job worker subprocess (escalating to kill() ...)".
CancelKills ==
  \A j \in Jobs : (status[j] = "cancelled" /\ proc[j] = "signalled") ~> proc[j] \notin ProcAlive
=============================================================================
