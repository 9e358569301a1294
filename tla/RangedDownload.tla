---------------------------- MODULE RangedDownload ----------------------------
(***************************************************************************)
(* requests() of unshackle/core/downloaders/requests.py for a single URL:  *)
(* a large file whose server takes ranges is fetched in parts by several   *)
(* threads (dispatch_parts), which write into one pre-truncated file; the  *)
(* empty .!dev beside it says that the file has holes.  When a part gives  *)
(* up, all of it is dropped and download() fetches the file in one stream, *)
(* as it does from the start when ranges are not to be had.                *)
(*                                                                         *)
(* The stream, the files and the server are those of FileDownload; pc is   *)
(* "ranged" while dispatch_parts has the file.  The server that gave the   *)
(* probe an uncoded range codes no part.                                   *)
(***************************************************************************)
EXTENDS FileDownload, FiniteSets

CONSTANTS
  Workers,  \* max_workers
  MinPart   \* RANGE_PARALLEL_MIN_PART_SIZE

ASSUME RangedAssumption == Workers \in Nat \ {0, 1} /\ MinPart \in Nat \ {0}

VARIABLES
  stage,    \* where dispatch_parts and what requests() does after it have come to
  part,     \* the threads, in the order of their ranges
  abort     \* the event of this ranged download

ranged == <<stage, part, abort>>
stream == <<place, budget, learned, reply>>
allvars == <<vars, ranged>>

-----------------------------------------------------------------------------
(* The plan.                                                               *)

Ceil(a, b) == (a + b - 1) \div b
Least(a, b) == IF a < b THEN a ELSE b
Most(a, b)  == IF a < b THEN b ELSE a

\* Inclusive ranges <<first, last>>, in order.
split_ranges(size, max_parts, part_target) ==
  LET n    == Most(1, Least(max_parts, Ceil(size, part_target)))
      each == Ceil(size, n)
  IN  [i \in 1..Ceil(size, each) |-> <<(i - 1) * each, Least(size, i * each) - 1>>]

Parts == split_ranges(Size, Workers, Most(MinPart, Ceil(Size, Workers)))

-----------------------------------------------------------------------------
\* got is the thread's `written`, end its chunk_end; the response in hand brings
\* the positions from next to last.
Part == [at : {"try", "reading", "broken", "done", "stopped", "failed"},
         got : 0..Size, secured : 0..Size, end : 0..Size, next : 0..Size, last : 0..Size,
         attempts : 1..MaxAttempts, resumes : 0..MaxResumes, limit : Nat]

NewPart == [at |-> "try", got |-> 0, secured |-> 0, end |-> 0, next |-> 0, last |-> 0,
            attempts |-> 1, resumes |-> 0, limit |-> 0]

RangedTypeOK ==
  /\ stage \in {"none", "control", "parts", "draining", "drop", "leaving"}
  /\ part \in Seq(Part)
  /\ abort \in BOOLEAN

RangedInit == Init /\ stage = "none" /\ part = <<>> /\ abort = FALSE

Over  == {"done", "stopped", "failed"}
Going == {p \in DOMAIN part : part[p].at \notin Over}

-----------------------------------------------------------------------------
(* dispatch_parts, and the single URL's branch of requests().              *)

\* A call has its own counters, in one stream or in parts.
Fresh ==
  /\ offset' = 0 /\ from' = 0 /\ secured' = 0 /\ written' = 0
  /\ attempts' = 1 /\ resumes' = 0 /\ high' = 0 /\ limit' = 0 /\ known' = 0

\* The probe brought a length and a 206: the control file is written before the
\* file, and over whatever partial lay there.
Dispatch ==
  /\ stage = "none" /\ pc \in Ended \ {"done"} /\ calls < MaxCalls
  /\ item = Whole /\ save = Missing
  /\ calls' = calls + 1 /\ cancelled' = FALSE
  /\ pc' = "ranged" /\ stage' = "control"
  /\ tmp' = <<>>
  /\ Fresh
  /\ UNCHANGED <<item, bared, save, reply, part, abort>>

Holes == [k \in 1..Size |-> Size]

Truncate ==
  /\ stage = "control"
  /\ save' = Holes
  /\ part' = [p \in DOMAIN Parts |-> NewPart]
  /\ stage' = "parts"
  /\ UNCHANGED <<item, bared, tmp, pc, stream, cancelled, calls, abort>>

\* A part's exception ends the loop; the pool is shut down and waited for.
LoopFails ==
  /\ stage = "parts" /\ \E p \in DOMAIN part : part[p].at = "failed"
  /\ abort' = TRUE
  /\ stage' = "draining"
  /\ UNCHANGED <<vars, part>>

\* Mutant: a cancelled part counts as a finished one.
LoopEndsBlindly ==
  /\ stage = "parts" /\ Going = {} /\ \A p \in DOMAIN part : part[p].at # "failed"
  /\ tmp' = Missing /\ pc' = "done"
  /\ stage' = "none" /\ part' = <<>>
  /\ UNCHANGED <<item, bared, save, stream, cancelled, calls, abort>>

\* Every part has returned.  After a cancellation some have returned early.
LoopEnds ==
  /\ stage = "parts" /\ Going = {} /\ \A p \in DOMAIN part : part[p].at # "failed"
  /\ IF cancelled THEN pc' = "stopped" /\ UNCHANGED tmp
                  ELSE pc' = "done" /\ tmp' = Missing
  /\ stage' = "none" /\ part' = <<>>
  /\ UNCHANGED <<item, bared, save, stream, cancelled, calls, abort>>

\* Mutant: the pool is shut down without a wait.
DropFileUnwaited ==
  /\ stage = "draining"
  /\ save' = Missing
  /\ stage' = "drop"
  /\ UNCHANGED <<item, bared, tmp, pc, stream, cancelled, calls, part, abort>>

\* The file goes before its control file.
DropFile ==
  /\ stage = "draining" /\ Going = {}
  /\ save' = Missing
  /\ stage' = "drop"
  /\ UNCHANGED <<item, bared, tmp, pc, stream, cancelled, calls, part, abort>>

\* A cancelled call returns, a permanent status is raised; anything else makes
\* download() start from nothing.
DropControl ==
  /\ stage = "drop"
  /\ tmp' = Missing
  /\ stage' = "none"
  /\ part' = <<>> /\ abort' = FALSE
  /\ pc' \in (IF cancelled THEN {"stopped"} ELSE {"failed", "try"})
  /\ UNCHANGED <<item, bared, save, stream, cancelled, calls>>

-----------------------------------------------------------------------------
(* download() in part mode.                                                *)

First(p) == Parts[p][1]
Last(p)  == Parts[p][2]
Place(p) == First(p) + part[p].got

Told == cancelled \/ abort

\* A response that is over leaves nothing but what it has brought.
Turn(p, to) ==
  part' = [part EXCEPT ![p] =
    [part[p] EXCEPT !.at = to, !.end = 0, !.next = 0, !.last = 0,
                    !.secured = IF to = "broken" THEN part[p].secured ELSE 0]]
Alone == UNCHANGED <<vars, stage, abort>>

PartStops(p) ==
  /\ part[p].at = "try" /\ Told
  /\ Turn(p, "stopped")
  /\ Alone

\* The end of the next request.
ChunkEnd(p) ==
  IF part[p].limit # 0 /\ Last(p) - Place(p) + 1 > part[p].limit
  THEN Place(p) + part[p].limit - 1 ELSE Last(p)

\* A 206 that starts where the part goes on and ends no later than was asked for.
PartOpens(p) ==
  /\ part[p].at = "try" /\ ~Told
  /\ \E b \in Place(p)..ChunkEnd(p) :
       part' = [part EXCEPT ![p].at = "reading", ![p].secured = part[p].got, ![p].end = ChunkEnd(p),
                            ![p].next = Place(p), ![p].last = b]
  /\ Alone

\* Anything else, the answer to an empty range too, is an error.
PartRefused(p) ==
  /\ part[p].at = "try" /\ ~Told
  /\ part' = [part EXCEPT ![p].at = "broken", ![p].secured = part[p].got]
  /\ Alone

\* A chunk that was looked at before a cancellation is still written after it.
PartReceives(p, n) ==
  /\ part[p].at = "reading"
  /\ n \in 1..(part[p].last - part[p].next + 1)
  /\ save' = [k \in 1..Size |-> IF k > Place(p) /\ k <= Place(p) + n
                                THEN part[p].next + (k - Place(p) - 1) ELSE save[k]]
  /\ part' = [part EXCEPT ![p].got = @ + n, ![p].next = @ + n]
  /\ UNCHANGED <<item, bared, tmp, pc, stream, cancelled, calls, stage, abort>>

Sought(p) == part[p].end - First(p) + 1

\* The read or the write raises, or the body is over before all that was asked
\* for has come.
PartCut(p) ==
  /\ part[p].at = "reading"
  /\ Turn(p, "broken")
  /\ Alone

\* Cancelled: the part returns with what it has.
PartStopsMidBody(p) ==
  /\ part[p].at = "reading" /\ Told
  /\ Turn(p, "stopped")
  /\ Alone

Asking(p) == [NewPart EXCEPT !.got = part[p].got, !.attempts = part[p].attempts,
                              !.resumes = part[p].resumes, !.limit = part[p].limit]

\* All that was asked for is there: the part is done, or asks for its next piece.
PartRequestDone(p) ==
  /\ part[p].at = "reading" /\ part[p].got >= Sought(p)
  /\ IF part[p].end = Last(p) THEN Turn(p, "done")
     ELSE part' = [part EXCEPT ![p] = [Asking(p) EXCEPT !.attempts = 1]]
  /\ Alone

PartGivesUp(p) ==
  /\ part[p].at = "broken"
  /\ Told \/ part[p].attempts = MaxAttempts
  /\ Turn(p, IF Told THEN "stopped" ELSE "failed")
  /\ Alone

HalvedFrom(l) == IF l = 0 THEN Chunk ELSE Most(MinChunk, l \div 2)

\* A retry goes on mid-part.  A cut that had brought enough costs no attempt.
PartRetries(p) ==
  /\ part[p].at = "broken" /\ ~Told /\ part[p].attempts < MaxAttempts
  /\ part' = [part EXCEPT ![p] =
       IF part[p].got - part[p].secured >= MinProgress /\ part[p].resumes < MaxResumes
       THEN [Asking(p) EXCEPT !.attempts = 1, !.resumes = part[p].resumes + 1, !.limit = HalvedFrom(part[p].limit)]
       ELSE [Asking(p) EXCEPT !.attempts = part[p].attempts + 1]]
  /\ Alone

-----------------------------------------------------------------------------
PartStep(p) ==
  \/ PartStops(p) \/ PartOpens(p) \/ PartRefused(p)
  \/ (\E n \in 1..Size : PartReceives(p, n))
  \/ PartCut(p) \/ PartStopsMidBody(p) \/ PartRequestDone(p)
  \/ PartGivesUp(p) \/ PartRetries(p)

LoopStep == Truncate \/ LoopFails \/ LoopEnds \/ DropFile \/ DropControl

\* Ctrl+C in the loop, or in its wait for the pool: the call raises, nobody waits
\* for the parts any more, and the program, on its way out, makes no other call.
KeyboardInterrupt ==
  /\ stage \in {"parts", "draining"}
  /\ cancelled' = TRUE /\ abort' = TRUE
  /\ pc' = "stopped" /\ stage' = "leaving"
  /\ UNCHANGED <<disk, stream, calls, part>>

\* The process dies, or ends after a Ctrl+C, and its threads with it; the writes
\* are not buffered.
RangedCrash ==
  /\ stage # "none" /\ pc' = "idle"
  /\ stage' = "none" /\ part' = <<>>
  /\ abort' = FALSE
  /\ UNCHANGED <<disk, stream, cancelled, calls>>

RangedCancel ==
  /\ pc = "ranged" /\ ~cancelled /\ cancelled' = TRUE
  /\ UNCHANGED <<disk, pc, stream, calls, ranged>>

RangedNext ==
  \/ Dispatch \/ LoopStep \/ (\E p \in DOMAIN part : PartStep(p))
  \/ KeyboardInterrupt \/ RangedCrash \/ RangedCancel
  \/ stage = "none" /\ Next /\ UNCHANGED ranged

RangedSpec ==
  /\ RangedInit /\ [][RangedNext]_allvars
  /\ WF_allvars(LoopStep)
  /\ \A p \in 1..Workers : WF_allvars(p \in DOMAIN part /\ PartStep(p))
  /\ WF_allvars(stage = "none" /\ Step /\ UNCHANGED ranged)

-----------------------------------------------------------------------------
\* The parts of one file write to it alone: the stream that download() falls
\* back to, a later call and the removal of the file never meet a part that may
\* still write.  Only a Ctrl+C leaves parts at work behind a call that is over.
PartsWriteAlone ==
  Going # {} => /\ pc = "ranged" \/ (pc = "stopped" /\ cancelled /\ abort)
                /\ save # Missing

\* A call ends, in parts or in one stream: a part's attempts come back for
\* progress only, and nobody waits for a part that waits for nothing.
CallReturns == pc \in {"clearing", "try", "ranged"} ~> pc \in Ended
=============================================================================
