# Verification of unshackle

TLA+ models of the parts of unshackle where order, failure and concurrency decide whether it is
correct, the TLC configurations that check them on small instances, and theorems about them that
TLAPS proves for every instance. The models are translated from the source under
`src/unshackle/`; `PROJECT.json` maps each definition to the lines it stands for.

- [The system](#the-system)
- [The modules](#the-modules)
- [What the runs check](#what-the-runs-check)
- [What is proved](#what-is-proved)
- [What the code does other than the documentation says](#what-the-code-does-other-than-the-documentation-says)
- [Known gaps that no property states](#known-gaps-that-no-property-states)
- [What is not modelled](#what-is-not-modelled)
- [Plan](#plan)

## The system

unshackle is a download tool for streamed media. It runs as a command line program (`dl`), and as
a REST server (`serve`) that queues downloads and lends its services to remote clients. Its parts,
the state they keep, and what makes them hard:

| Part | State | Operations | What is hard, and what is correct |
|---|---|---|---|
| Job queue, `core/api/download_manager.py` | jobs and statuses, a FIFO queue, a priority deque, worker coroutines, one task and one process per running job, temp files, history | create, cancel, prioritize, remove, clear, retry, shut down | One event loop, but every `await` lets another handler in; a cancellation is a request delivered later; processes run on their own. A job runs once, leaves no terminal status, is recorded once and under that status, and its process stays within reach |
| Job event streams, `core/api/handlers.py` | one bounded queue per listener | open, read, publish, close | A listener subscribes after a snapshot; full queues drop. A stream of a job that ends tells the outcome, and ends |
| Segment batches, `core/downloaders/requests.py` `requests()` | segments done, futures, hedges, range parts, abort flags | submit, hedge, boost, claim, place, fail, drain | Threads race for a segment; the flag that stops them is one per process. A final name holds a whole segment; a batch that succeeds has all of them and is quiet |
| One file, `requests.py` `download()` | the `.!dev` partial, offset, budgets | ask, judge the response, read, retry, resume | Servers cut, refuse and send other ranges; the program may die. What is saved is what was asked for |
| Ranges of one file, `requests.py` `dispatch_parts` | a pre-truncated file, its empty control file, a thread and budgets per part, an abort event | probe, split, write in place, abort, drop, fall back | The file is full-size from the start, and threads write into it. A file with holes is never taken for done, and no part writes beside the stream that takes over |
| Several processes, `requests.py` `download_multiprocess` | child processes, one queue | split, relay, terminate | Not modelled yet |
| Remote sessions, `core/api/session_store.py` and its handlers | the store, TTLs, a lock per session, the drain flag, cache directories | create, evict, look up, expire, sweep, drain, delete | Logins run in threads that outlive their session; requests outlast the TTL. No expiry takes a session at work, nothing is left of a failed one |
| Input bridge, `core/api/input_bridge.py` | prompt, status, answer, two events | ask, call the CDM, poll, answer, time out, cancel | The answer is stored under a lock and announced outside it. No thread waits at a cancelled bridge, one answer counts |
| Prompt relay, `core/api/download_worker.py` | prompt and answer files | ask, poll, answer | Two processes over files |
| Content keys, `dl.prepare_drm` and `decrypt_verified` over `core/vaults.py` | a run cache, the vaults' rows and flags, candidates of late answers, a lock per KID, one background writer | search, license, decrypt, prove, flag, report | Vaults may hold a wrong key and answer late; tracks of one KID share everything but their file. A key from a vault is proved before it is trusted or shared |
| Task directories, `core/temp.py`, `core/tracks/resume.py`, the parsers' downloads | a segment directory and its sidecar per task, one of each in the stash | stash, restore, sweep, prove, fetch, merge | Two renames, several processes, options that change between runs. A reused segment is what the run would have fetched |
| HLS merge, `core/manifests/hls.py` | the key, the init section and the range of segments that a discontinuity has come to | merge a range, decrypt it, change key or init section | Keys, init sections, discontinuities and filters change independently. Each segment comes once, in order, under its own key and init section |
| Service reload, `core/services.py` | the clone, what is loaded, staged and failed, a lock, one task in flight | pull, stage, import, apply | A loop, an administrator and the ends of jobs and sessions reload at once, over a busy set that was read before. No update is forgotten, no commit shown that does not run |
| Event bus, `core/api/events.py` | sequence number, history | publish, subscribe, replay | Threads and the loop publish |
| Remote leases, `core/api/handlers.py`; tunnels, `core/tunnel.py` | devices and sockets lent to clients | lease, sweep, reattach | Not modelled yet |
| Manifest parsing, CDMs, titles, metadata, configuration | little or none | parse, select, mux, name | Data, not control |

How they meet: a handler creates a job; a worker coroutine runs it as a task, which starts
`download_worker.py` as a process; that process runs the `dl` command, which downloads each track
through `requests()`, which calls `download()` for each file or segment. The segments lie in a task
directory, are reused when a sidecar proves them, and are merged by the parser; the content key comes
from a vault or a CDM and is proved on the merged file. A remote client instead
creates a session, whose service runs in threads of the server and reaches the client's user and
CDM through the bridge. The drain flag of the session store stops both new sessions and new jobs. The end of
a job or of a session applies the service updates that were waiting for it.

## The modules

### `DownloadQueue`, and the abstract `JobLifecycle`

One action per run of code between two awaits. `worker[w]` says where a worker coroutine is
suspended (`waiting` in `wait_for(get())`, `got` when the item left the queue but the coroutine
has not resumed, `running` while it awaits its job's task), `task[j]` where the `execute_download`
task is (`spawning` in `create_subprocess_exec`, `polling` in its loop), `proc[j]` what the
operating system sees of the process. `cancelReq` holds the cancellations that `task.cancel()` has
asked for and that the task has not met yet: a task with one can only take its `Cancelled...`
action. Both queues are there, with the stale FIFO copy that `prioritize_job` leaves behind and
`_promoted_ids` accounts for. `shutdown()` is four actions; `Interrupt` is what aiohttp's
`run_app` does on Ctrl+C: it cancels every task of the loop. A removed job's object outlives its
entry, as in Python.

Abstracted: progress values, parameters, times (`CleanupOldJobs` may take any terminal job), the
text of errors. The worker process exits with success or failure at any time; result files agree
with exit codes up to the choice that a zero exit may still be judged a failure. `submit_input`
belongs to the planned `PromptRelay`.

`JobLifecycle` is the promise: a job is submitted, begins when a slot is free, ends or is
cancelled, and gets into the history. `DownloadQueue` implements it with
`state <- status, logged <- recorded, Slots <- number of workers`.

### `SegmentBatch`

One call of `requests()`: the loop of the calling thread (`pc`), the futures of the pool (`fut`),
and the futures' shared state. A primary or hedge future reads, then claims its segment under the
lock, then renames; a part future writes its slice of one target, and the last part claims. What a
worker does between two touches of shared state is one action. `Claim` and `Deliver` are two
actions because the code takes the lock for the first only. `NextTrack` and `OtherTrackFails` are
another batch of the same process, which sets or clears `DOWNLOAD_CANCELLED`.

Abstracted: bytes (a target is whole or has gaps), times and rates (any segment may look stuck, the
controller may ask for any target within its limits), the order among segments that were put back at the head of the
line (the others are submitted in order), attempts inside `download()`, the rate
limiter, the cap of boosts per cycle, and the multiprocess path. A leftover complete part target
of an earlier run is not an initial state.

### `FileDownload`

One `download()` call, and the next ones after it: the responses, the reads, the retry budgets. A
file is the sequence of the resource's positions it holds, so a misplaced byte shows. The server
is *truthful, not obliging*: what it says of a body is so, but it may say little, send another range
or the whole file, refuse, cut the body anywhere, or use a content coding. `Crash` kills the
program and keeps any prefix of the bytes of an open partial; cancellation may come between any
two steps.

Abstracted: part mode (see `RangedDownload`) and `claimed()` (seen from outside in `SegmentBatch`). Excluded: an empty
resource; a resource that changes between requests; a 206 nobody asked for; a content coding on a
206 or on a slice; a 200 without a length that ends early without an error (nobody can tell it
from a whole one).

### `RangedDownload`

`requests()` for a single URL, composed with `FileDownload`, which it extends: `pc` is `"ranged"` while
`dispatch_parts` has the file, and every other value belongs to `download()`. `Dispatch` is a call whose probe was
answered with a length and a range, `Truncate` creates the file and the threads, `LoopFails` and `LoopEnds` are the two
ways out of the loop that wait for the pool, `KeyboardInterrupt` the one that does not (`shutdown(wait=False)`): the call is over,
its parts may write until they see the flags, and the program makes no other call before it ends, which is `RangedCrash`.
`DropFile` and `DropControl` are what `requests()` does after a failure before it falls back, raises or returns. `part[p]` is the thread of a range: `download()` in part mode, with its own budgets. The files an earlier, killed
ranged call leaves are what `FileDownload`'s `Init` allows and `ClearControl` and `ClearFile` remove.

Abstracted: progress, and the choice whether a failure is permanent (any may be). Excluded: a coded answer to a part (part mode does
not look at the coding; see the known gaps), an `unlink()` that fails, what the caller removes after a Ctrl+C
(`Track.abandon()`), a Ctrl+C between the two steps that follow a failure (to the file the same as a crash there), a
caller that abandons the generator, a write that takes only some of the bytes it is given.

### `RemoteSession`

The store, the handlers that work on its entries, and each session's bridge. Handlers, sweep and
`run_auth` share the event loop, so an action of theirs is the code between two awaits (the store's
own lock is never contended, as nothing inside it awaits). Service code runs in a thread, for the
login first and then for the request that holds the session's lock. `submit_response` and
`cancel` change the bridge under its lock and set its two events outside it; a thread can step in
between, so the first half is part of the handler's action, the second half is `Ring`, and the loop
takes no other step before it.

A prompt or CDM call is several steps of the thread: the question, the wait (ended by the events
or by a timeout), and what it does with the lock again. `late` and `over` are the points where the
wait is over and the lock not taken yet. Service code may ask, call, write the session cache and
go on in any order; a raised exception and a returned answer both let it go on.

Abstracted: `past[s]` says which of the two limits (`session_ttl`, `AUTH_INPUT_TIMEOUT`) the last
access lies further back than, so no clock; any entry that is not in use may be the least
recently used one; the answers are opaque. Left out: ownership checks, sessions on a server account (they
have no cache directory of their own), what requests compute, `cancel_all_bridges`.

### `KeyLicensing`

The tracks of a title that share one KID, each in a thread, up to `--downloads` at a time. A track gets its
key in `prepare_drm` under the lock of the KID (from the DRM object, the run cache, the vaults or a licence), and
`decrypt_verified` decrypts and, if the key came from a vault, has FFmpeg decode the result, flags a key that fails, asks again
and at last reports or unflags. `track[t].at` says between which two touches of shared state the
thread is; `then` what `prepare_drm` was called for. A search over the remote vaults leaves queries behind
(`late`) whose callbacks still fill `candidates`; pushes to vaults wait in `writer`.
`track[t].keys` is the dictionary that `decrypt_verified` took hold of, `held` the one that the DRM object has: a
Widevine licence replaces it (`option.replaces`), and `same` says whether the two are still one.

Abstracted: one KID per track, one service, keys as right or wrong ones. FFmpeg never passes a wrong key (the documentation
names HEVC files for which it does) and may fail a right one (`option.doubtful`). Left out: vaults that are told at
the time of the flag, a server's CDM, and the map of fragments that judges several KIDs.

### `SegmentReuse`

Several processes that download one track, one after the other or two at a time. Each restores what the
stash has (directory, then sidecar), proves it by the fingerprint of its own segmentation or clears it, fetches
what is missing, merges, and stashes what it has when it fails. `Mode` is what its options make of it:
only a run in a mode that `can_resume` writes a sidecar, and `mangle` is the merge of the HLS parser, which
rewrites the segments. `Age` lets `STASH_MAX_AGE` pass, and each entry is swept by its own age.
`Die` and `SidecarStays` are the crash and the failed second rename.

Abstracted: a segment is the segmentation that it was fetched under and whether it was rewritten; locks and
modification times of task directories (`temp.py`) are read as: a live task's directory is not swept.

### `HlsMerge`

The loop of `HLS.download_track` that merges the segment files, one action per part of its body
(`Discontinuity`, `KeyChange`, `LastSegment`), and the two short cuts that replace it (`Ways`): decryption segment by segment
and the rolling merge, which `single_init_no_rotation` guards. The playlist is chosen in `Init`, with
the filter, the scheme, and whether there is a CDM and a session DRM. A file is the init section in front of it, if it has one, and the
segments it holds with the keys they were decrypted with; a merged file has an init section in front and the files copied into it,
which keep their own.

Abstracted: byte ranges, the decrypters (CENC passes over plain fragments, AES-128 does not), licences that fail.

### `ServiceReload`

`party[p]` is where each of three parties is: the periodic `loop` of `serve`, the one `task` that the end of a job or
session starts (`_reload_task`), and an administrator's `post`. On the event loop a party reads the busy services and starts
a thread; the thread pulls (`force_sync`), takes what changed (`Diff`), stages what was busy (`Stage`) and imports the rest
under `RELOAD_LOCK` (`Lock`, `Import`, `Book`). `history` is what upstream will do to each service, commit by
commit: it works, breaks or goes. `loaded`, `stamp`, `pending` and `failed` are `MODULES`, `LOADED_COMMITS`,
`PENDING` and `LOAD_ERRORS`. `services_staged_max_age` is a choice of staged services that are overdue.

Two variables observe what the code cannot avoid: `crossed` holds a service whose code a pull replaced between its import and
the bookkeeping of that import, `missed` what was staged by a POST after its last user had left, or left by an end
that found the task already looking. The properties are stated of all the others; the gaps are described below.
Abstracted: one repository, cloned and without local edits, whose last fetch is less than a day old; an import
and the bookkeeping of a reload are one step each; a rename of a service directory is not a commit of the model.

### Proof modules

Each module but `JobLifecycle` has a module of theorems that extends it and is named after it
(`DownloadQueueProofs` and so on); `FileDownloadProofs` also holds the proofs of `RangedDownload`, which extends `FileDownload` and
takes its step lemmas over. The `MC...` modules hold nothing but instances: the sets for TLC and the symmetries.
Definitions whose comment begins with *Mutant* are not part of the models: each is an action with
a plausible mistake, and `PROJECT.json` names the property that catches it.

## What the runs check

Each property is preceded in its module by a comment that says what it is about.

| Run | Instance | Properties | States |
|---|---|---|---|
| `queue_safety` | 2 jobs, 2 workers, Ctrl+C; symmetric | `OneWorkerPerJob`, `HistoryMatches`, `CancelPrecedesPoll`, `RunningIsReachable`, `TerminalForever` | 313,600 |
| `queue_live` | 2 jobs, 1 worker, fair | `QueueMoves`, `EventuallyRecorded`, `ImplementsLifecycle` | 94,826 |
| `queue_streams` | 1 job that ignores SIGTERM, 2 listeners, queues of 2, `shutdown()`, fair | `TypeOK`, `StreamTellsOutcome`, `StreamCloses`, `ShutdownReturns` | 160,326 |
| `segments_batch` | 4 segments, 2 of them whole at the start, 3 threads, 2 parts, fair | `NeverHoley`, `OkMeansAll`, `OkMeansQuiet`, `OneWinner`, `BatchEnds` | 713,424 |
| `file_resume` | 5 bytes, 3 slices or the whole, in one stream or 2 parts, 2 calls, 2 attempts, 2 resumes, fair | `SavedIsWhole`, `PartialIsPrefix`, `PartsWriteAlone`, `CallReturns` | 278,662 |
| `remote_sessions` | 2 sessions, 1 place, 1 waiting request, 2 answers; symmetric | `TypeOK`, `CancelWakes`, `StatusAgrees`, `UnusedLeavesNothing`, `AnswerStands`, `ExpirySparesWork` | 913,872 |
| `keys` | 2 tracks, a local and up to 2 remote vaults, 2 keys, fair | `ProvedBeforeTrusted`, `ProvedUntilFlagged`, `LicensedNotFlagged`, `ReplacedIsReported`, `PoisonStaysPut`, `TracksEnd` | 592,935 |
| `reuse` | 3 runs, 2 at a time, 2 segments, 2 segmentations, every mode, crashes; symmetric | `ReuseIsProved`, `NothingWasted` | 1,287,586 |
| `hls_merge` | every playlist of 4 segments, 2 keys, 2 init sections, at most one segment filtered | `EachOnceInOrder`, `OwnKeyOwnInit` | 4,048,098 |
| `reload` | 2 services, 5 upstream histories, 3 parties; symmetric | `NothingForgotten`, `StampIsRight`, `StagedIsAwaited` | 2,213,206 |
| `queue_kill`, `keys_race` | one job; two tracks of one KID | `CancelKills`; `Proved`: one statement of the documentation each, violated | |

What the bounds are and why they are enough:

- *Queue.* Two jobs and two workers are what a race for one job and its stale copy takes; one worker and two
  jobs are what a wait for a slot takes. A listener's queue of two (`QueueMax`, 100 in the code) is the
  smallest that can hold the outcome and the end marker, so all that can be dropped is dropped.
- *Batch.* Four segments: two that an earlier run left whole (`Kept`, a bound of the model), so that the loop has a duration
  to compare with and little state, one stuck, one queued behind it. Three threads let the controller's target fall
  from three to two (`ADAPTIVE_MIN`) below what is pending; with two of them it could not move. Two parts let
  a part race its sibling, and threads and parts let an original race its hedge. The invariants are proved for every
  size and every `Kept`; `BatchEnds` stays with the run.
- *File.* Five bytes let a response start, end or be cut anywhere, and make two parts of three and two bytes: a cut after one byte leaves
  the first part more than one bounded request.
  Slices lie in the middle, cover everything, or reach past the end. Two calls (`MaxCalls`) are what a
  resume after a crash takes.
- *Sessions.* Two sessions in a store of one (`MaxSessions`) make each creation an eviction, also of a
  session at work. One waiting request (`MaxWaiting`, a bound of the model) is enough to find a
  lock whose session is gone. Two answers tell one client's from another's.
- *Keys.* Two tracks are what a race for one KID takes; one local vault and up to two remote ones let a local
  answer, a first remote answer and a late one differ. `AnyStart` (in the MC module) is every way to start the run that it lists.
- *Reuse.* Three runs: one that leaves something, one that changes it, one that takes it. Two segments
  tell a partial directory from a whole one, two segmentations a right digest from a wrong one.
- *HLS.* Four segments are the shortest playlist that has a key change, a change back and a filtered segment between them
  within one discontinuity.
- *Reload.* One user per service: a service is busy or not. Of two services one can be busy while the
  other is not. Two commits are what a pull that crosses an import takes; the histories change both
  services at once, break and mend one, and change and drop one.

No run checks deadlock: an idle server, a batch or call that is over and a queue without jobs really stop.

### Fairness

- *Queue:* weak fairness of each worker coroutine and task step (asyncio runs each ready coroutine), of a
  process' exit (a download ends), of a client that stays connected reading its stream, and of the
  steps of `shutdown()`. None of the API calls is fair, nor `Interrupt`.
- *Batch:* weak fairness of the loop and of the threads of the pool as a whole: as long as a future has a step to take, one
  takes it, in any order. Less is enough than each future by itself, as every future has finitely many steps (`MAX_ATTEMPTS`, `MAX_RESUMES` and
  `READ_TIMEOUT` bound every read; `NoneRunsTwice`). Ctrl+C and the other tracks are not fair.
- *File:* weak fairness of the call's next step: a request is answered and a read returns, if only by its timeout.
  Cancellation and crash are not fair.
- *Keys:* weak fairness of each track's thread: its searches, licences and decodes return (every request has a timeout). Late answers and the
  background writer are not fair.
- *Sessions, reuse, HLS, reload:* safety only.

## What is proved

The theorems hold for every value of the constants that satisfies the assumptions of their module. Those ask no more than that
bounds are positive where the code's are, that the pool of workers and the sets of vaults and segments are finite, that slices lie within the
resource, that the "none" values are not among the real ones, that a segment is split into two parts or more and the controller never asks for fewer than two threads, that a listener's
queue holds two items, and, for a playlist, that an `EXT-X-KEY` tag holds until the next one (so the `m3u8` library gives segments their keys). Every theorem is of the form `Spec => []Inv` or `Spec => [][A]_vars`, or a conjunction of these, but the two about
the life cycle, whose hypotheses are named below. Each inductive invariant was checked by TLC on the run's instance before it was proved.

**`DownloadQueueProofs`.** `TypeCorrect` (with the capacity of the listeners' queues), `NoJobRunTwiceAtOnce` (`OneWorkerPerJob`),
`CancellationReachesTask` (`CancelPrecedesPoll`), `HistoryIsRight` (`HistoryMatches`), `RunOnce`
(`NeverRunAgain`), `TerminalIsFinal` (`TerminalForever`), all from one inductive invariant `IInv`.
`OneWorkerPerJob` is not inductive: a worker may start any job it holds. The invariant adds that
a job has at most one FIFO copy and one priority entry (`Copies`), that a copy which is not written off by
`_promoted_ids` belongs to a job that has no task and no other copy (`Startable`), and that a live
task has a running worker (`Running`). For statuses it adds what a task's progress says of its job's
status (`StatusOfTask`); for the history, that a recorded job is terminal and no worker still has it
in hand (`Settled`), so that nobody can change its status or record it again.

Three invariants of their own stand on `IInv`. `ProcessesAreReachable` (`RunningIsReachable`) needs that a
task which spawns has written its files and that no task with a cancellation leaves an unsignalled process behind
(`Prepared`): `cancel_job` does both things in one step, and a spawn never registers a process for a cancelled task. `StreamsTellTheOutcome`
(`StreamTellsOutcome`) needs what each listener's queue holds (`Told`): no end marker while the stream is open, and from
`publish_terminal` on the outcome right before the end marker, or read already. `PutEnds` and `ReadsOn` are the two facts about the bounded
queue: a full one drops its oldest item, never these two. And `KeepsLifecycle` is the refinement, step by step: as
long as nobody interrupts the server (the hypothesis `[](server # "interrupted")`; after Ctrl+C a worker may take a completed job for
a cancelled one), each step is a step of `JobLifecycle` or none. That no more jobs download than there are
workers rests on `Slotted`, each of them occupies a worker, and on an injection of jobs into workers (`SlotIsFree`).
`CleanStopsKeepLifecycle` discharges the hypothesis for a server that nothing but `shutdown()` stops (no `"interrupt"` in `Stops`).

**`FileDownloadProofs`.** `TypeCorrect`, `WholeFilesOnly` (`SavedIsWhole`), `PartialsResumable`
(`PartialIsPrefix`), from `FInv`. Its heart is `Placed`: while a body is read, the partial is the run
of positions that ends exactly where the body goes on. `Open` has to establish that from
what the response says of itself (this is where `RestartsClean`, `SliceFits` and the
checks of offsets are used); reads keep it, and cuts, short reads and crashes only shorten the run,
which `RunConcat` and `RunPrefix` say of sequences. `LastIsWhole` then shows that what is
renamed is what was asked for.

Of `RangedDownload` it proves `WholeFromParts`, `PrefixBesideParts` (`SavedIsWhole` and `PartialIsPrefix`, of the composition)
and `PartsAlone` (`PartsWriteAlone`), from `RInv`: outside the ranged phase it is `FInv`, whose step lemma is used again for
every action of `download()`; within it the control file is empty, each part is within its own range and has written what lies
before its place there (`InPlaceSoFar`), a part that ended early has been stopped by a flag, and a phase in which one has failed can only
end with the removal of the file. That a file all of whose parts are done is whole takes the three facts about `split_ranges` that are proved
for every size and number of workers: the ranges lie within the file (`RangesAreWithin`), apart from each other
(`RangesAreApart`), and cover it (`RangesCover`).

`CallsAreFinite`, `PartsAreFinite` and `FallbackIsFinite` say that neither `download()` nor the thread of a part goes round for
ever: progress gives a call its attempts back, an answer may bring less than was asked for, and a resume costs no
attempt, so no single counter shows it. Each step of a call lowers its `Budget` (and each step of a part its `PartBudget`) in a lexicographic order that the theorems
show to be well-founded: the resumes left, the bytes no try has reached (`high_water`), the attempts left, the place the tries have come to,
and what is left of one try. A part's step lowers no other part's, and the loop over the parts has finitely many steps of its own
(`Leg`). This is the half of `CallReturns` that needs no fairness.

**`RemoteSessionProofs`.** `TypeCorrect` (with the limit of the store), `CancellationWakes`,
`BridgeAgrees` (`StatusAgrees`), `NothingLeft` (`UnusedLeavesNothing`), `FirstAnswerStands`
(`AnswerStands`) and `WorkIsSpared` (`ExpirySparesWork`): every property of the run
`remote_sessions`, from `SInv`. It adds to them that the login's thread runs exactly as long as
`auth_status` says so (`LoginRuns`), that a request uses the service only after a login that
succeeded (`LoggedIn`), that nobody cancels the bridge of a session that stays in the store (`Kept`),
and that a request never prompts (`Called`), so the status a CDM call restores is the login's. Steps
about one session are proved for that session alone and carried to the others by
`Elsewhere`.

**`SegmentBatchProofs`.** `TypeCorrect`, `OneRacerWins` (`OneWinner`), `WholeSegmentsOnly` (`NeverHoley`), `NoneIsMissing`
(`OkMeansAll`) and `QuietReturn` (`OkMeansQuiet`): every invariant of the run `segments_batch`, from `BInv`. It adds that
the loop waits for every future that is not over (`Waited`); that each segment is done, waits, is raced for, or is split
and has a part out or a failed one that will put it back (`Covered`); that the counters of a split segment count its parts, exactly so
until a flag stops one (`Counted`), which is why a part may take a count of zero for a whole file; that what is submitted was not
submitted before (`Fresh`, `SplitOnce`); and that a claimed segment is being placed or was (`Raced`). The counting rests on what a
set of parts loses and gains in a step, with the theorems about finite sets. `NoneRunsTwice` follows from the same invariant: no step puts a
future back (`Onward`), so no request, hedge or part is submitted twice, though failed parts put their segment back in line; and each step of a
pool thread takes its future nearer to its end.

**`SegmentReuseProofs`.** `TypeCorrect`, `OnlyProvedSegments` (`ReuseIsProved`), `AllIsTakenOver` and `RetryFetchesNoneTwice` (`NothingWasted`).
As long as nothing that the known gaps name has happened (`seen`), every sidecar proves the directory it belongs to, wherever the two renames
have come to (`StashProved`, `RunProved`), and there is one mover at a time (`OneMover`). `TakenOver` follows what a
failed run left to the run that retries.

**`ServiceReloadProofs`.** `TypeCorrect`, `NoUpdateForgotten` (`NothingForgotten`), `StampsAreRight` (`StampIsRight`) and
`StagedHasAWaker` (`StagedIsAwaited`): every property of the run `reload`, from `SInv`. It adds what a party knows between its steps
(`Right`: it is never ahead of the clone, and it has imported what it wanted and need not import again), what holds until the bookkeeping
(`Booking`, `Stamped`), and who is coming for a staged tag (`Awaited`). The last commit that changed a tag (`Code`), a maximum over a history of any length, exists by the
library's theorems on well-founded orders.

**`KeyLicensingProofs`.** `TypeCorrect`, `HandedOnUntilFlagged` (`ProvedUntilFlagged`), `HandedOnProved` (`ProvedBeforeTrusted`),
`LicenceClearsFlag` (`LicensedNotFlagged`), `FlaggedIsReported` (`ReplacedIsReported`) and the action property
`OnlyRightIsShared` (`PoisonStaysPut`), from `KInv` of two halves. With any number of tracks at once, the run has one key until a key is flagged, and every
track that has a key has that one (`UntilFlagged`). With one track at a time, also after a flag, the key of the run is the KID's own or the last that a vault
gave and has a source (`Provenance`), only the right key is on its way to the vaults (`RightIsWritten`), a flag on the right key
meets a track that will clear it (`FlagIsCleared`), and what is yet to be reported has a track that will report it (`WillReport`). The
run `keys_race` shows why the second half cannot drop "one track at a time".
`RetriesRunOut` holds with any number of tracks: each step of a track lowers its `TrackBudget` (whether it has ended, the passes left, how far it is from
its next decryption, the vaults it waits for), which no step of another track, of a late query or of the writer raises. Tracks that flag, drop and find each other's
keys do not keep each other going. This is the half of `TracksEnd` that needs no fairness.

**`HlsMergeProofs`.** `MergesEachOnceInOrder` (`EachOnceInOrder`) and `MergesWithOwnKeyAndInit` (`OwnKeyOwnInit`), from
`HInv`, for playlists of any length with keys, init sections, discontinuities and filtered segments placed anyhow. Three numbers describe what lies in the
directory at any point of the loop: segments `1..s` are in the merged file, those after them up to `D` in the first files of the
directory, and the rest are single files still (`Layout`). That is why nothing is lost or doubled when a change of key and a
discontinuity fall on the same segment, or on a filtered one. `Contents` says which key and which init section each of these files
has been written with, and `Pending` what the loop's variables promise for the segments it has not flushed. Files are numbered by counting the segments that are wanted: `CountFacts`
and `WantedIsThere` derive what the proof needs of that count from the theorems on finite sets, so no induction over the playlist is needed.

**Only model-checked.** Liveness (`QueueMoves`, `EventuallyRecorded`, `StreamCloses`, `ShutdownReturns`,
`BatchEnds`, `CallReturns`, `TracksEnd`) is out of the prover's reach, and so is anything with `ENABLED`: of the
refinement of `JobLifecycle` the fairness is only checked (`ImplementsLifecycle`), its steps are proved. Of `CallReturns`,
`TracksEnd` and, for the futures, `BatchEnds`, it is proved that the steps run out; that a step is taken as long as one is left, and under which
fairness, is checked. Every invariant and every action property of the runs is proved. `NeverRunAgain`, `AllIsTakenOver`, the two theorems
about the life cycle, the three `...AreFinite` and `...IsFinite`, `RetriesRunOut` and `NoneRunsTwice` are proved and have no run of their own. No module declares a `RECURSIVE` operator.

## What the code does other than the documentation says

Two runs check a sentence of the documentation and find a behaviour of the code that does not
keep it.

- `queue_kill`, `CancelKills`: a cancelled job's process is sent SIGTERM and never killed. The branch that waits
  five seconds and kills (`download_manager.py:1174`) is entered only by a poll loop that meets a
  cancelled status, and `CancelPrecedesPoll` is proved: the loop is always left by its cancellation
  first. A process that ignores SIGTERM goes on.
- `keys_race`, `Proved`: with two tracks of one KID at once, a wrong key that one track has flagged and the other has taken
  back from the local vault before the flag was written ends up without a source, which reads as "the CDM returned
  it" (`dl.py:4619`). The flag goes, the check is skipped, and noise is passed on as a track. With one track at a
  time, the default, the promise is kept (`ProvedBeforeTrusted`).

## Known gaps that no property states

Met while modelling; each is a behaviour of the code that the models contain or that was left out with intent.

- *Queue.* `prioritize_job` appends to the deque that the workers pop from the left (`download_manager.py:894`): the
  job comes behind those prioritized before it, not to "the front of the line" (`docs/dev/rest-api/job-lifecycle.md:281`).
- *Batch.* A racer gives up for good just before its rival claims the segment; the loop meets the error after the claim and fails the
  batch (`requests.py:2118`), against the comment at line 1144.
- *File.* A call that finds a file beside its control file removes the control file first (`requests.py:804`). Killed between
  the two, it leaves a file full of holes alone, which the next run takes for done. `SavedIsWhole` excludes it (`bared`).
- *Ranges.* Part mode does not look at the content coding: a part whose 206 is coded is decoded into the file, past its own range too
  (`requests.py:921`). A control file that can be unlinked while its file cannot leaves the file alone (`requests.py:1731`). The file is written
  unbuffered (`r+b`), and a write that takes only a part of its chunk, on a full disk, counts as all of it (`requests.py:1073`).
- *Drain.* A session whose creation was let in before the drain enters the store while the server drains
  (`handlers.py:3861`), also when an operator has just read `sessions` as 0, and gets no drain warning.
- *Reuse.* A run that cannot resume keeps the sidecar that it restored (`dash.py:586` and its like in `hls.py` and
  `ism.py`). If it fails, its segments, decrypted in place, are stashed under that proof, and a third run that can resume takes them as
  they are. It takes a change of options between the runs. `ReuseIsProved` excludes it (`kept`).
- *Reuse.* A directory and its sidecar can be parted: by a crash or a failure between the two renames, by ages on either side of
  `STASH_MAX_AGE`, or by another process that restores or sweeps between the renames (`temp.py:68-98`). A directory may
  then meet the sidecar of another one. `ReuseIsProved` excludes it (`parted`), and `NothingWasted` a death between the renames.
- *Keys.* `decrypt_verified` keeps the dictionary that it began with; a Widevine licence replaces
  `content_keys`, so `report_replaced` is never told of the replacement (`dl.py:4601`). `ReplacedIsReported` excludes it (`replaces`).
- *HLS.* An `EXT-X-DISCONTINUITY` on a segment that the filter drops is passed over (`hls.py:1096`, `1112`), and what lies on both sides of it
  is merged into one file. `EachOnceInOrder` lets a file end there and does not ask for it.
- *HLS.* `EXT-X-MAP` that changes without a discontinuity: earlier segments are written behind the later init section
  (`hls.py:1123-1131`). Plain AES-128 segments between `METHOD=NONE` and the next key of one discontinuity are decrypted with that
  key. The first key of the playlist, also that of a filtered segment, is applied to segments before any tag. `OwnKeyOwnInit` names
  the three (`MapsAtDiscontinuities`, `PlainApart`).
- *Reload.* A pull between the import of a service and the end of that reload (`services.py:212-230`): if the new code is staged, the
  reload unstages it, and it is not imported before the next commit that touches it; the stamp names a commit that does not run. `NothingForgotten`
  and `StampIsRight` exclude that service (`crossed`).
- *Reload.* `POST /services/refresh` stages a service that was busy when it began, and nothing applies it if its last job or session ended
  during the pull (`handlers.py:3536`; the periodic loop handles this case, `serve.py:103-106`). An end that finds the reload task in flight is refused a task of its
  own though the task has read the busy services already (`download_manager.py:1309`). Both wait for the next end or
  tick, where `docs/reference/configuration/services.md:148` says "as soon as its last job and session finish". `StagedIsAwaited` excludes these
  services (`missed`).
- *Reload, not in the model.* A reload whose clone was last fetched more than a day ago pulls it in `discover_services` (`service_repo.py:129`) and
  compares nothing: other services that this pull changes stay unstaged. A service directory that is renamed is reported under its
  new name only (`changed_services`), so the old tag goes on running.
- A cancelled job is terminal while its process may still run, and `require_no_active_downloads`
  and `busy_services` look at the status only (`handlers.py:3479`).
- A cancellation during the spawn leaves the job's three temporary files (`download_manager.py:1077`);
  `SpawnFails` and `CancelledEarly` have the step.
- Ctrl+C: a worker that awaits its job's task takes the server's cancellation for the job's
  (`download_manager.py:1010`). `TerminalForever` excludes an interrupted server. `shutdown()` itself has no caller.
- `record_job_history` of a cancelled job that was removed meanwhile writes it to the history again.
- When the rename of the last claimed segment fails, the loop leaves before it looks at the future and the
  batch succeeds without the file (`requests.py:1849`, `2104`). `OkMeansAll` names the exception (`unplaced`).
- An answer that races the timeout of `request_input` may announce itself after the thread's next
  question and wake that one, which then returns an empty string (`input_bridge.py:168`).
- A session that is evicted or deleted during a request may get its cache directory back from that
  request's thread; `UnusedLeavesNothing` is about sessions that no request was let into: those removed before their login was over,
  also when that login succeeds, and those whose login failed.
- `POST prompt` names no prompt, so an answer may reach a later question than the one it was given for.

## What is not modelled

`PROJECT.json` lists every component. Left aside for good: manifest parsing, cryptography, CDM access, titles,
metadata and tags, configuration, console and the other commands (data and third-party
programs, little state and no concurrency of their own); the SQL and HTTP back ends of the
vaults; proxies and containers. Left for later: what the plan names.

## Plan

Done: `DownloadQueue` with `JobLifecycle`, `SegmentBatch`, `FileDownload` with `RangedDownload`, `RemoteSession`, `KeyLicensing`, `SegmentReuse`, `HlsMerge`,
`ServiceReload`, and the proofs above.

Next, in this order. Each module gets its own MC module and run, and is written to be proved
about (constants with assumptions, no `RECURSIVE` operator).

1. `MultiProcess` (`download_multiprocess`): children that may die without a word, one queue, an end marker each. To
   show: a success has every segment, and the parent never waits for a dead child.
2. `PromptRelay` (`download_worker.py`, `submit_input`): two processes over files. To show: an answer
   goes to the prompt it was given for.
3. `EventBus` and the remote leases.
4. Proofs about those, in the manner of the ones above.
