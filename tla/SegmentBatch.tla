----------------------------- MODULE SegmentBatch -----------------------------
(***************************************************************************)
(* One call of requests() on a batch of segments                           *)
(* (unshackle/core/downloaders/requests.py): the drain loop on the calling *)
(* thread, a pool of worker threads, hedge racers for stuck segments and   *)
(* range parts for the last ones.  A failing track elsewhere sets the      *)
(* process-global DOWNLOAD_CANCELLED; the next track clears it, and may    *)
(* then find workers of this call still running.                           *)
(*                                                                         *)
(* Each worker step is the code between two touches of shared state.  The  *)
(* time a segment takes and the controller's target are left open.         *)
(***************************************************************************)
EXTENDS Naturals, FiniteSets

CONSTANTS
  N,           \* how many segments
  MaxWorkers,  \* threads of the pool
  MinTarget,   \* ADAPTIVE_MIN
  PartsMax,    \* most parts a tail segment is split into
  Kept         \* bound: the sets of segments that an earlier run may have left whole

ASSUME BatchAssumption ==
  /\ N \in Nat
  /\ MaxWorkers \in Nat \ {0}
  /\ MinTarget \in Nat /\ MinTarget >= 2
  /\ PartsMax \in Nat /\ PartsMax >= 2
  /\ Kept \in SUBSET SUBSET (1..N)

Segs == 1..N

VARIABLES
  adaptive,    \* the call's adaptive argument
  pc,          \* where the calling thread is
  target,      \* how many workers to keep busy
  remaining,   \* segments not submitted yet
  pending,     \* futures the loop waits for
  fut,         \* where each future is
  partsLeft,   \* parts of a boosted segment still out
  partAbort,   \* segments whose part_abort event is set
  started,     \* keys of seg_start
  timed,       \* seg_durations is not empty
  segDone,     \* seg_done: segments somebody claimed
  hedged, tailBoosted, tailSkipped,
  cancelled,   \* DOWNLOAD_CANCELLED
  batchAbort,  \* batch_abort
  file,        \* what lies under a segment's final name
  unplaced,    \* segments whose winner could not be renamed
  gaps,        \* parts of a segment's .tp.!dev target not written to the end
  events,      \* event_queue: segments reported to the loop
  reported,    \* segments the loop has yielded an advance for
  result       \* what the call came to

loopVars == <<adaptive, pc, target, remaining, pending, result>>
tailVars == <<hedged, tailBoosted, tailSkipped>>
partVars == <<partsLeft, partAbort, gaps>>
segVars  == <<started, timed, segDone, file, unplaced>>
vars == <<loopVars, tailVars, partVars, segVars, fut, cancelled, batchAbort, events, reported>>

-----------------------------------------------------------------------------
Primary(i) == [kind |-> "primary", seg |-> i, part |-> 0]
Hedge(i)   == [kind |-> "hedge", seg |-> i, part |-> 0]
Part(i, k) == [kind |-> "part", seg |-> i, part |-> k]

Whole   == {Primary(i) : i \in Segs} \cup {Hedge(i) : i \in Segs}
Parts   == {Part(i, k) : i \in Segs, k \in 1..PartsMax}
Futures == Whole \cup Parts

\* "short": download() returned early, without an error and without the bytes.
Returned == {"got", "short", "broken", "refused"}
Busy     == {"reading", "claimed"} \cup Returned
\* "failed" ended in an error that another connection may get round, "denied" in
\* one that ends the batch: a 4xx, or a target that cannot be renamed.
Finished == {"fin", "failed", "denied", "dropped"}

Cap == IF MaxWorkers >= MinTarget THEN MaxWorkers ELSE MinTarget

TypeOK ==
  /\ adaptive \in BOOLEAN
  /\ pc \in {"start", "top", "boost", "feed", "hedge", "wait", "finally", "join", "last", "end"}
  /\ target \in Nat
  /\ remaining \subseteq Segs
  /\ pending \subseteq Futures
  /\ fut \in [Futures -> {"none", "queued"} \cup Busy \cup Finished]
  /\ partsLeft \in [Segs -> 0..PartsMax]
  /\ partAbort \subseteq Segs /\ gaps \in [Segs -> 0..PartsMax]
  /\ started \subseteq Segs /\ segDone \subseteq Segs /\ unplaced \subseteq Segs
  /\ hedged \subseteq Segs /\ tailBoosted \subseteq Segs /\ tailSkipped \subseteq Segs
  /\ {timed, cancelled, batchAbort} \subseteq BOOLEAN
  /\ file \in [Segs -> {"none", "whole", "holey"}]
  /\ events \subseteq Segs /\ reported \subseteq Segs
  /\ result \in {"none", "ok", "failed", "cancelled", "interrupted"}

\* A resumed download finds some segments whole.
Init ==
  /\ adaptive \in BOOLEAN
  /\ pc = "start" /\ target = 0 /\ result = "none"
  /\ remaining = Segs /\ pending = {}
  /\ fut = [f \in Futures |-> "none"]
  /\ partsLeft = [i \in Segs |-> 0] /\ partAbort = {} /\ gaps = [i \in Segs |-> 0]
  /\ started = {} /\ timed = FALSE /\ segDone = {} /\ unplaced = {}
  /\ hedged = {} /\ tailBoosted = {} /\ tailSkipped = {}
  /\ cancelled = FALSE /\ batchAbort = FALSE
  /\ \E S \in Kept : file = [i \in Segs |-> IF i \in S THEN "whole" ELSE "none"]
  /\ events = {} /\ reported = {}

-----------------------------------------------------------------------------
(* The loop.                                                               *)

\* The first n of the remaining segments, or of those in only; all when there are
\* fewer.  (A segment that went back to the head of the line is in tailSkipped:
\* among these the order is left open.)
Picks(n, only) ==
  LET fit == remaining \cap only
  IN  {S \in SUBSET fit :
         /\ Cardinality(S) = IF Cardinality(fit) < n THEN Cardinality(fit) ELSE n
         /\ \A i \in S, j \in fit \ S : i < j \/ {i, j} \cap tailSkipped # {}}

Submit(S) ==
  /\ remaining' = remaining \ S
  /\ pending' = pending \cup {Primary(i) : i \in S}
  /\ fut' = [f \in Futures |-> IF f \in {Primary(i) : i \in S} THEN "queued" ELSE fut[f]]

submission_window(t) == 2 * t

Spare == IF Cardinality(pending) < target THEN target - Cardinality(pending) ELSE 0

\* What the controller may answer; a fixed pool has no controller.
Targets == IF adaptive THEN MinTarget..Cap ELSE {MaxWorkers}

Begin ==
  /\ pc = "start"
  /\ pc' = "top"
  /\ target' = IF adaptive THEN Cap ELSE MaxWorkers
  /\ \E S \in Picks(IF adaptive THEN Cap ELSE submission_window(MaxWorkers), Segs) : Submit(S)
  /\ UNCHANGED <<adaptive, result, tailVars, partVars, segVars, cancelled, batchAbort, events, reported>>

Drain ==
  /\ reported' = reported \cup events
  /\ events' = {}

\* Mutant: two spare workers are not enough.
TailBoostNeedsThree(left, waiting, t) ==
  left > 0 /\ waiting + 2 < t /\ left + waiting <= t

tail_boost_engages(left, waiting, t) ==
  left > 0 /\ waiting + 2 <= t /\ left + waiting <= t

TailBegins == /\ adaptive /\ ~cancelled
              /\ tail_boost_engages(Cardinality(remaining), Cardinality(pending), target')

\* The top of the loop: drain the events, look at the cancel flag, ask the
\* controller.  When the segments so far were small, the tail is not probed.
Turn ==
  /\ pc = "top"
  /\ pending # {} \/ remaining # {}
  /\ Drain
  /\ remaining' = IF cancelled THEN {} ELSE remaining
  /\ target' \in Targets
  /\ \/ ~TailBegins /\ pc' = "feed" /\ UNCHANGED tailSkipped
     \/ TailBegins /\ pc' = "boost" /\ UNCHANGED tailSkipped
     \/ /\ TailBegins /\ segDone # {}
        /\ pc' = "feed"
        /\ tailSkipped' = tailSkipped \cup remaining
  /\ UNCHANGED <<adaptive, pending, result, hedged, tailBoosted, partVars, segVars, fut, cancelled, batchAbort>>

LoopEnds ==
  /\ pc = "top"
  /\ pending = {} /\ remaining = {}
  /\ pc' = "finally"
  /\ UNCHANGED <<adaptive, target, remaining, pending, result, tailVars, partVars, segVars, fut,
                 cancelled, batchAbort, events, reported>>

Candidates == remaining \ tailSkipped

\* Split a candidate into parts, one per spare worker at most.
BoostSegment(i, n) ==
  /\ pc = "boost" /\ i \in Candidates
  /\ n \in 2..PartsMax /\ n <= Spare
  /\ file[i] = "none"
  /\ remaining' = remaining \ {i}
  /\ tailBoosted' = tailBoosted \cup {i}
  /\ started' = started \cup {i}
  /\ partsLeft' = [partsLeft EXCEPT ![i] = n]
  /\ gaps' = [gaps EXCEPT ![i] = n]
  /\ pending' = pending \cup {Part(i, k) : k \in 1..n}
  /\ fut' = [f \in Futures |-> IF f \in {Part(i, k) : k \in 1..n} THEN "queued" ELSE fut[f]]
  /\ UNCHANGED <<adaptive, pc, target, result, hedged, tailSkipped, partAbort, timed, segDone, file,
                 unplaced, cancelled, batchAbort, events, reported>>

\* No ranges, too small, a slice already, or on disk: the normal path has it.
SkipSegment(i) ==
  /\ pc = "boost" /\ i \in Candidates /\ Spare >= 2
  /\ tailSkipped' = tailSkipped \cup {i}
  /\ UNCHANGED <<loopVars, hedged, tailBoosted, partVars, segVars, fut, cancelled, batchAbort, events, reported>>

BoostEnds ==
  /\ pc = "boost"
  /\ Candidates = {} \/ Spare < 2
  /\ pc' = "feed"
  /\ UNCHANGED <<adaptive, target, remaining, pending, result, tailVars, partVars, segVars, fut,
                 cancelled, batchAbort, events, reported>>

\* In the tail only segments the boost declined are released.
Feed ==
  LET window == submission_window(target)
      room   == window - Cardinality(pending)
      tail   == adaptive /\ Cardinality(remaining) <= target
  IN
  /\ pc = "feed"
  /\ pc' = "hedge"
  /\ IF Cardinality(pending) >= window THEN UNCHANGED <<remaining, pending, fut>>
     ELSE \E S \in IF tail THEN Picks(Spare, tailSkipped) ELSE Picks(room, Segs) : Submit(S)
  /\ UNCHANGED <<adaptive, target, result, tailVars, partVars, segVars, cancelled, batchAbort, events, reported>>

Stuck == {i \in started : i \notin segDone \cup hedged \cup tailBoosted}

\* A second racer for segments that take too long, and the end of the race.
HedgeStuck ==
  /\ pc = "hedge"
  /\ \E S \in SUBSET Stuck :
       /\ S # {} => timed /\ ~cancelled /\ Cardinality(S) <= Spare
       /\ hedged' = hedged \cup S
       /\ pending' = pending \cup {Hedge(i) : i \in S}
       /\ fut' = [f \in Futures |-> IF f \in {Hedge(i) : i \in S} THEN "queued" ELSE fut[f]]
  /\ pc' = IF segDone = Segs THEN "finally" ELSE "wait"
  /\ UNCHANGED <<adaptive, target, remaining, result, tailBoosted, tailSkipped, partVars, segVars,
                 cancelled, batchAbort, events, reported>>

Over == {f \in pending : fut[f] \in Finished}

\* A failed part is a TailPartFailed; a 4xx is final whoever met it.
Fatal(f) == fut[f] = "denied" \/ (fut[f] = "failed" /\ f \notin Parts)
Dropped  == [f \in Futures |-> IF fut[f] = "queued" THEN "dropped" ELSE fut[f]]

\* Segments go back in line.
Requeue(back) ==
  /\ remaining' = remaining \cup back
  /\ tailBoosted' = tailBoosted \ back
  /\ tailSkipped' = tailSkipped \cup back

\* Mutant: a failed part is nobody's business.
WaitForgetsParts ==
  /\ pc = "wait"
  /\ ~\E f \in Over : Fatal(f)
  /\ pending' = pending \ Over
  /\ pc' = "top"
  /\ UNCHANGED <<adaptive, target, remaining, result, tailVars, partVars, segVars, fut, cancelled,
                 batchAbort, events, reported>>

\* wait(): a segment whose parts failed goes back, once, to the normal path.
Wait ==
  /\ pc = "wait"
  /\ ~\E f \in Over : Fatal(f)
  /\ Requeue({f.seg : f \in {g \in Over : fut[g] = "failed"}} \ tailSkipped)
  /\ pending' = pending \ Over
  /\ pc' = "top"
  /\ UNCHANGED <<adaptive, target, result, hedged, partVars, segVars, fut, cancelled, batchAbort, events, reported>>

WaitFails ==
  /\ pc = "wait"
  /\ \E f \in Over : Fatal(f)
  /\ cancelled' = TRUE /\ result' = "failed"
  /\ fut' = Dropped
  /\ pc' = "finally"
  /\ UNCHANGED <<adaptive, target, remaining, pending, tailVars, partVars, segVars, batchAbort, events, reported>>

\* Ctrl+C on the calling thread.
KeyboardInterrupt ==
  /\ pc \in {"top", "boost", "feed", "hedge", "wait"}
  /\ cancelled' = TRUE /\ result' = "interrupted"
  /\ fut' = Dropped
  /\ pc' = "finally"
  /\ UNCHANGED <<adaptive, target, remaining, pending, tailVars, partVars, segVars, batchAbort, events, reported>>

\* Only a call that goes on to return waits for its workers.
AfterFinally == IF result # "none" THEN "end" ELSE IF cancelled THEN "last" ELSE "join"

\* Mutant: the parts are left to the flag.
FinallySparesParts ==
  /\ pc = "finally"
  /\ batchAbort' = TRUE
  /\ fut' = Dropped
  /\ pc' = AfterFinally
  /\ UNCHANGED <<adaptive, target, remaining, pending, result, tailVars, partVars, segVars,
                 cancelled, events, reported>>

\* Mutant: the workers are not waited for.
FinallyNoWait ==
  /\ pc = "finally"
  /\ batchAbort' = TRUE
  /\ partAbort' = {i \in Segs : fut[Part(i, 1)] # "none"}
  /\ fut' = Dropped
  /\ pc' = IF result # "none" THEN "end" ELSE "last"
  /\ UNCHANGED <<adaptive, target, remaining, pending, result, tailVars, partsLeft, gaps, segVars,
                 cancelled, events, reported>>

Finally ==
  /\ pc = "finally"
  /\ batchAbort' = TRUE
  /\ partAbort' = {i \in Segs : fut[Part(i, 1)] # "none"}
  /\ fut' = Dropped
  /\ pc' = AfterFinally
  /\ UNCHANGED <<adaptive, target, remaining, pending, result, tailVars, partsLeft, gaps, segVars,
                 cancelled, events, reported>>

Joined ==
  /\ pc = "join"
  /\ \A f \in Futures : fut[f] \notin Busy
  /\ pc' = "last"
  /\ UNCHANGED <<adaptive, target, remaining, pending, result, tailVars, partVars, segVars, fut,
                 cancelled, batchAbort, events, reported>>

\* What is left in the event queue, and DownloadCancelled if it was that.
Return ==
  /\ pc = "last"
  /\ Drain
  /\ result' = IF cancelled THEN "cancelled" ELSE "ok"
  /\ pc' = "end"
  /\ UNCHANGED <<adaptive, target, remaining, pending, tailVars, partVars, segVars, fut, cancelled, batchAbort>>

Loop == \/ Begin \/ Turn \/ LoopEnds \/ (\E i \in Segs, n \in 2..PartsMax : BoostSegment(i, n))
        \/ (\E i \in Segs : SkipSegment(i)) \/ BoostEnds \/ Feed \/ HedgeStuck \/ Wait \/ WaitFails \/ Finally \/ Joined \/ Return

-----------------------------------------------------------------------------
(* The workers: download_worker for a whole segment, tail_part_worker for  *)
(* a part.                                                                 *)

Free == Cardinality({f \in Futures : fut[f] \in Busy}) < MaxWorkers

\* The file is there already: claim it and report it.
FindFile(f) ==
  /\ fut[f] = "queued" /\ Free /\ f \in Whole /\ file[f.seg] # "none"
  /\ fut' = [fut EXCEPT ![f] = IF f.seg \in segDone THEN "fin" ELSE "claimed"]
  /\ segDone' = segDone \cup {f.seg}
  /\ UNCHANGED <<loopVars, tailVars, partVars, started, timed, file, unplaced, cancelled, batchAbort, events, reported>>

BeginReading(f) ==
  /\ fut[f] = "queued" /\ Free /\ (f \in Whole => file[f.seg] = "none")
  /\ fut' = [fut EXCEPT ![f] = "reading"]
  /\ started' = started \cup {i \in {f.seg} : f = Primary(i)}
  /\ UNCHANGED <<loopVars, tailVars, partVars, timed, segDone, file, unplaced, cancelled, batchAbort, events, reported>>

\* What a racer or a part checks between tries and between chunks.
Stopped(f) ==
  \/ cancelled
  \/ f \in Whole /\ (batchAbort \/ f.seg \in segDone)
  \/ f \in Parts /\ f.seg \in partAbort

ReadAll(f) ==
  /\ fut[f] = "reading"
  /\ fut' = [fut EXCEPT ![f] = "got"]
  /\ gaps' = [gaps EXCEPT ![f.seg] = IF f \in Parts THEN @ - 1 ELSE @]
  /\ UNCHANGED <<loopVars, tailVars, partsLeft, partAbort, segVars, cancelled, batchAbort, events, reported>>

\* A stop is silent: the part worker cannot tell it from a part read whole.
ReadStops(f) ==
  /\ fut[f] = "reading" /\ Stopped(f)
  /\ fut' = [fut EXCEPT ![f] = IF f \in Parts THEN "short" ELSE "fin"]
  /\ UNCHANGED <<loopVars, tailVars, partVars, segVars, cancelled, batchAbort, events, reported>>

\* All attempts failed.  A whole segment that fails ends the batch, whatever the
\* error was.
ReadFails(f) ==
  /\ fut[f] = "reading" /\ ~Stopped(f)
  /\ \E e \in IF f \in Parts THEN {"broken", "refused"} ELSE {"failed"} :
       fut' = [fut EXCEPT ![f] = e]
  /\ UNCHANGED <<loopVars, tailVars, partVars, segVars, cancelled, batchAbort, events, reported>>

\* Mutant: the race is decided by the file, which the winner has yet to rename.
ClaimUnlocked(f) ==
  /\ fut[f] = "got" /\ f \in Whole
  /\ fut' = [fut EXCEPT ![f] = IF file[f.seg] # "none" THEN "fin" ELSE "claimed"]
  /\ segDone' = segDone \cup {f.seg}
  /\ timed' = (timed \/ f = Primary(f.seg))
  /\ UNCHANGED <<loopVars, tailVars, partVars, started, file, unplaced, cancelled, batchAbort, events, reported>>

\* Under seg_lock: the first racer to finish claims the segment.
Claim(f) ==
  /\ fut[f] = "got" /\ f \in Whole
  /\ fut' = [fut EXCEPT ![f] = IF f.seg \in segDone THEN "fin" ELSE "claimed"]
  /\ segDone' = segDone \cup {f.seg}
  /\ timed' = (timed \/ (f.seg \notin segDone /\ f = Primary(f.seg)))
  /\ UNCHANGED <<loopVars, tailVars, partVars, started, file, unplaced, cancelled, batchAbort, events, reported>>

\* A failed part stops its siblings.  The last part to return claims the
\* segment, unless the batch is cancelled or a part failed or was stopped.
PartReturns(f) ==
  LET i      == f.seg
      failed == fut[f] \in {"broken", "refused"}
      wins   == /\ ~cancelled /\ ~failed /\ i \notin partAbort
                /\ partsLeft[i] = 1 /\ i \notin segDone
  IN
  /\ f \in Parts /\ fut[f] \in Returned
  /\ partAbort' = partAbort \cup {k \in {i} : failed}
  /\ partsLeft' = [partsLeft EXCEPT ![i] = @ - 1]
  /\ fut' = [fut EXCEPT ![f] = IF wins THEN "claimed"
                               ELSE IF cancelled \/ ~failed THEN "fin"
                               ELSE IF @ = "broken" THEN "failed" ELSE "denied"]
  /\ segDone' = segDone \cup {k \in {i} : wins}
  /\ timed' = (timed \/ wins)
  /\ UNCHANGED <<loopVars, tailVars, gaps, started, file, unplaced, cancelled, batchAbort,
                 events, reported>>

\* os.replace and the two events of the segment.
Deliver(f) ==
  /\ fut[f] = "claimed"
  /\ file' = [file EXCEPT ![f.seg] = IF f \in Parts /\ gaps[f.seg] > 0 THEN "holey" ELSE "whole"]
  /\ events' = events \cup {f.seg}
  /\ fut' = [fut EXCEPT ![f] = "fin"]
  /\ UNCHANGED <<loopVars, tailVars, partVars, started, timed, segDone, unplaced, cancelled, batchAbort, reported>>

\* ... which fails with the segment already claimed.
DeliverFails(f) ==
  /\ fut[f] = "claimed" /\ file[f.seg] = "none"
  /\ unplaced' = unplaced \cup {f.seg}
  /\ fut' = [fut EXCEPT ![f] = "denied"]
  /\ UNCHANGED <<loopVars, tailVars, partVars, started, timed, segDone, file, cancelled, batchAbort,
                 events, reported>>

WorkerStep(f) ==
  \/ FindFile(f) \/ BeginReading(f) \/ ReadAll(f) \/ ReadStops(f) \/ ReadFails(f)
  \/ Claim(f) \/ PartReturns(f) \/ Deliver(f) \/ DeliverFails(f)

Unfinished == {f \in Futures : fut[f] \in {"queued"} \cup Busy}
Workers    == \E f \in Unfinished : WorkerStep(f)

-----------------------------------------------------------------------------
\* Another track of the title fails while this one downloads ...
OtherTrackFails ==
  /\ pc # "end" /\ ~cancelled
  /\ cancelled' = TRUE
  /\ UNCHANGED <<loopVars, tailVars, partVars, segVars, fut, batchAbort, events, reported>>

\* ... and download_tracks_in_passes clears the flag once every track is over.
NextTrack ==
  /\ pc = "end" /\ cancelled
  /\ cancelled' = FALSE
  /\ UNCHANGED <<loopVars, tailVars, partVars, segVars, fut, batchAbort, events, reported>>

Next ==
  \/ Loop \/ KeyboardInterrupt
  \/ Workers
  \/ OtherTrackFails \/ NextTrack

Spec == Init /\ [][Next]_vars

\* The loop polls, and while futures are unfinished some thread of the pool goes
\* on: a read ends (READ_TIMEOUT, MAX_ATTEMPTS and MAX_RESUMES bound it).
Fairness == WF_vars(Loop) /\ WF_vars(Workers)

FairSpec == Spec /\ Fairness

-----------------------------------------------------------------------------
(* What a batch promises.                                                  *)

\* A segment lies under its final name with all its bytes, or not at all: a
\* part that stopped early never ends up in a finished file, not even when the
\* flag that stopped it has been cleared since.
NeverHoley == \A i \in Segs : file[i] # "holey"

\* A batch that returns has every segment on disk and has reported each, save
\* one whose winner could not be renamed after it had claimed the segment.
OkMeansAll ==
  result = "ok" => \A i \in Segs \ unplaced : file[i] = "whole" /\ i \in reported

\* ... and no worker is left to hold a .!dev file that the merge sweeps away.
OkMeansQuiet == result = "ok" => \A f \in Futures : fut[f] \notin Busy

\* One racer places a segment and reports it, once.
OneWinner ==
  /\ \A f, g \in Futures : fut[f] = "claimed" /\ fut[g] = "claimed" /\ f.seg = g.seg => f = g
  /\ \A f \in Futures : fut[f] = "claimed" => f.seg \notin events \cup reported \cup unplaced

\* The batch ends, whatever the controller answers and whatever fails.
BatchEnds == <>(pc = "end")
=============================================================================
