----------------------------- MODULE FileDownload -----------------------------
(***************************************************************************)
(* download() of unshackle/core/downloaders/requests.py: one file, or one  *)
(* byte-range slice of a larger resource, over requests that may be cut,   *)
(* refused or answered with other bytes than those asked for.  Partial     *)
(* data lies at the .!dev name; its size is all that a retry, or the next  *)
(* call, knows of it.                                                      *)
(*                                                                         *)
(* A file is the sequence of the resource's positions it holds.  The       *)
(* server is truthful, not obliging: what it says of a body is so, but it  *)
(* may say little and send another range.                                  *)
(***************************************************************************)
EXTENDS Integers, Sequences

CONSTANTS
  Size,         \* bytes of the resource
  Slices,       \* the ranges <<first, last>> an item may carry
  MaxAttempts,  \* MAX_ATTEMPTS
  MaxResumes,   \* MAX_RESUMES
  MinProgress,  \* MIN_RESUME_PROGRESS
  Chunk,        \* REQUEST_CHUNK_SIZE
  MinChunk,     \* MIN_REQUEST_CHUNK
  MaxCalls,     \* bound: calls for the same file
  Missing       \* no such file

Byte  == 0..Size     \* position Size stands for a byte that was never written
Whole == <<>>        \* the item carries no Range header of its own

ASSUME FileAssumption ==
  /\ {Size, MaxAttempts, MinProgress, Chunk, MinChunk} \subseteq Nat \ {0}
  /\ {MaxResumes, MaxCalls} \subseteq Nat
  /\ \A s \in Slices : s \in Nat \X Nat /\ s[1] < Size /\ s[1] <= s[2]
  /\ Missing \notin Seq(Byte)

VARIABLES
  item,       \* Whole, or the slice the item asks for
  save, tmp,  \* what lies at save_path and at its .!dev name
  bared,      \* a file with holes has lost its control file and is still there (observed)
  pc,
  offset,     \* resume_offset
  from,       \* resume_start
  secured, written, attempts, resumes,
  limit,      \* request_limit, 0 for None
  known,      \* known_total, 0 for None
  high,       \* high_water
  reply,      \* the response in hand
  cancelled,  \* DOWNLOAD_CANCELLED or the abort event
  calls

disk    == <<item, save, tmp, bared>>
budget  == <<attempts, resumes, high>>
learned == <<limit, known>>
place   == <<offset, from, secured, written>>
vars == <<disk, pc, place, budget, learned, reply, cancelled, calls>>

-----------------------------------------------------------------------------
(* The server.                                                             *)

\* "labelled": a Content-Range that parses; "total": it names the complete
\* length; "encoded": a content coding; "sized": a Content-Length, of a plain body.
\* What nobody reads in an answer is not said in it.
Reply ==
  {r \in [status : {"200", "206", "416", "error"}, first : 0..Size - 1, last : 0..Size - 1,
          labelled : BOOLEAN, total : BOOLEAN, sized : BOOLEAN, encoded : BOOLEAN] :
     /\ r.first <= r.last
     /\ r.status # "206" => r.first = 0 /\ r.last = Size - 1
     /\ r.labelled => r.status \in {"206", "416"}
     /\ r.total => r.status = "206" /\ r.labelled
     /\ r.encoded \/ r.sized => r.status \in {"200", "206"}
     /\ ~(r.encoded /\ r.sized)}

\* The Range header of the next try: <<>>, <<first>> or <<first, last>>.
Range ==
  IF item # Whole THEN item
  ELSE IF offset = 0 THEN <<>>
  ELSE IF limit # 0 /\ known # 0 /\ known - offset > limit THEN <<offset, offset + limit - 1>>
  ELSE <<offset>>

\* A range is sent to whoever asked for one.  A coding comes with a whole body,
\* or with a range nobody can place.
Truthful(r) ==
  /\ r.status \in {"206", "416"} => Range # <<>>
  /\ r.status = "206" /\ r.encoded => item = Whole /\ (r.first # 0 \/ r.last # Size - 1)

-----------------------------------------------------------------------------
Run(a, n) == [k \in 1..n |-> a + k - 1]

\* An end past the resource is clamped to its last byte.
SliceLast == IF item[2] < Size THEN item[2] ELSE Size - 1
Wanted    == IF item = Whole THEN Run(0, Size) ELSE Run(item[1], SliceLast - item[1] + 1)

Ended == {"idle", "done", "stopped", "failed"}

TypeOK ==
  /\ item \in {Whole} \cup Slices
  /\ save \in Seq(Byte) \cup {Missing} /\ tmp \in Seq(Byte) \cup {Missing}
  /\ pc \in Ended \cup {"try", "answered", "reading", "broken", "clearing"}
  /\ bared \in BOOLEAN
  /\ offset \in 0..Size /\ from \in 0..Size /\ secured \in 0..Size /\ written \in 0..Size
  /\ attempts \in 1..MaxAttempts /\ resumes \in 0..MaxResumes /\ high \in 0..Size
  /\ limit \in Nat /\ known \in {0, Size}
  /\ reply \in Reply
  /\ cancelled \in BOOLEAN /\ calls \in 0..MaxCalls

NoReply == [status |-> "error", first |-> 0, last |-> Size - 1, labelled |-> FALSE,
            total |-> FALSE, sized |-> FALSE, encoded |-> FALSE]

\* Left by an earlier run: nothing, a partial, or the pre-truncated file of a
\* ranged download beside its empty control file.
Init ==
  /\ item \in {Whole} \cup Slices
  /\ \/ save = Missing /\ tmp = Missing
     \/ save = Missing /\ item = Whole /\ \E n \in 0..Size : tmp = Run(0, n)
     \/ save = [k \in 1..Size |-> Size] /\ tmp = <<>>
  /\ pc = "idle" /\ calls = 0 /\ cancelled = FALSE /\ bared = FALSE
  /\ offset = 0 /\ from = 0 /\ secured = 0 /\ written = 0
  /\ attempts = 1 /\ resumes = 0 /\ high = 0 /\ limit = 0 /\ known = 0
  /\ reply = NoReply

-----------------------------------------------------------------------------
(* The call.                                                               *)

Stored(f) == IF f = Missing THEN 0 ELSE Len(f)

\* A file that is there alone is done; beside a .!dev it is not to be trusted.
Call ==
  /\ pc \in Ended \ {"done"} /\ calls < MaxCalls
  /\ calls' = calls + 1
  /\ cancelled' = FALSE
  /\ pc' = IF save = Missing THEN "try" ELSE IF tmp = Missing THEN "done" ELSE "clearing"
  /\ offset' = IF save = Missing THEN Stored(tmp) ELSE offset
  /\ attempts' = 1 /\ resumes' = 0 /\ high' = 0 /\ limit' = 0 /\ known' = 0
  /\ UNCHANGED <<item, save, tmp, bared, from, secured, written, reply>>

\* The control file goes first.  Until the file has gone too, it passes for done.
ClearControl ==
  /\ pc = "clearing" /\ tmp # Missing
  /\ tmp' = Missing /\ bared' = TRUE
  /\ UNCHANGED <<item, save, pc, place, budget, learned, reply, cancelled, calls>>

ClearFile ==
  /\ pc = "clearing" /\ tmp = Missing
  /\ save' = Missing /\ bared' = FALSE
  /\ pc' = "try" /\ offset' = 0
  /\ UNCHANGED <<item, tmp, from, secured, written, budget, learned, reply, cancelled, calls>>

\* The flag, looked at before every try.
Stop ==
  /\ pc = "try" /\ cancelled
  /\ pc' = "stopped"
  /\ UNCHANGED <<disk, place, budget, learned, reply, cancelled, calls>>

Ask ==
  /\ pc = "try" /\ ~cancelled
  /\ reply' \in {r \in Reply : Truthful(r)}
  /\ pc' = "answered"
  /\ written' = 0 /\ from' = offset /\ secured' = offset
  /\ UNCHANGED <<disk, offset, budget, learned, cancelled, calls>>

Resuming == item = Whole /\ offset > 0

\* A 416 whose complete length is the partial's: nothing is missing.
FoundComplete ==
  /\ pc = "answered" /\ reply.status = "416" /\ Resuming
  /\ reply.labelled /\ offset = Size /\ known \in {0, offset}
  /\ save' = tmp /\ tmp' = Missing
  /\ pc' = "done"
  /\ reply' = NoReply
  /\ UNCHANGED <<item, bared, place, budget, learned, cancelled, calls>>

InPlace == Resuming /\ reply.status = "206" /\ reply.labelled /\ reply.first = offset

\* A 206 for all of the resource is as good as a 200.
FromZero ==
  /\ Resuming /\ reply.status = "206" /\ reply.labelled /\ reply.first = 0
  /\ reply.total /\ reply.last = Size - 1

\* A slice takes the range it asked for, or a 200 that is that very range.
SliceFits ==
  \/ /\ reply.status = "206" /\ reply.labelled /\ reply.first = item[1]
     /\ reply.last = item[2] \/ (reply.total /\ reply.last = Size - 1 /\ item[2] >= Size)
  \/ /\ reply.status = "200" /\ item[1] = 0
     /\ reply.sized /\ Size = item[2] + 1

\* Nothing proves where the bytes belong: the partial goes, and the try fails.
RestartsClean ==
  /\ Resuming
  /\ \/ reply.status = "416" /\ ~(reply.labelled /\ offset = Size /\ known \in {0, offset})
     \/ reply.status = "206" /\ ~InPlace /\ ~FromZero
     \/ InPlace /\ reply.encoded

Restart ==
  /\ pc = "answered" /\ RestartsClean
  /\ tmp' = Missing
  /\ pc' = "broken"
  /\ reply' = NoReply
  /\ UNCHANGED <<item, bared, save, place, budget, learned, cancelled, calls>>

Refuse ==
  /\ pc = "answered" /\ ~RestartsClean
  /\ \/ reply.status = "error"
     \/ reply.status = "416" /\ ~Resuming
     \/ item # Whole /\ ~SliceFits
  /\ pc' = "broken"
  /\ reply' = NoReply
  /\ UNCHANGED <<disk, place, budget, learned, cancelled, calls>>

\* Mutant: the file is always appended to.
OpenAppends ==
  /\ pc = "answered" /\ reply.status \in {"200", "206"} /\ ~RestartsClean
  /\ item # Whole => SliceFits
  /\ pc' = "reading"
  /\ LET start == IF InPlace THEN offset ELSE 0
     IN  offset' = start /\ secured' = start /\ tmp' = IF tmp = Missing THEN <<>> ELSE tmp
  /\ UNCHANGED <<item, bared, save, from, written, budget, learned, reply, cancelled, calls>>

\* The file is opened to append the rest, or to be written from the start.
Open ==
  /\ pc = "answered" /\ reply.status \in {"200", "206"} /\ ~RestartsClean
  /\ item # Whole => SliceFits
  /\ pc' = "reading"
  /\ LET start == IF InPlace THEN offset ELSE 0
     IN  offset' = start /\ secured' = start /\ tmp' = IF InPlace THEN tmp ELSE <<>>
  /\ known' = IF \/ item # Whole \/ known # 0
                 \/ reply.status = "200" /\ ~reply.sized
                 \/ reply.status = "206" /\ ~reply.total
              THEN known ELSE Size
  /\ UNCHANGED <<item, bared, save, from, written, budget, limit, reply, cancelled, calls>>

Body == reply.last - reply.first + 1

\* content_length, 0 when nobody said; a slice takes it from the Content-Range.
ContentLength ==
  IF reply.sized \/ (item # Whole /\ reply.status = "206") THEN Body ELSE 0

Receive(n) ==
  /\ pc = "reading" /\ ~cancelled
  /\ n \in 1..Body - written
  /\ tmp' = tmp \o Run(reply.first + written, n)
  /\ written' = written + n
  /\ UNCHANGED <<item, bared, save, pc, offset, from, secured, budget, learned, reply, cancelled, calls>>

\* The read raises, or the write does.
Cut ==
  /\ pc = "reading"
  /\ pc' = "broken"
  /\ reply' = NoReply
  /\ UNCHANGED <<disk, place, budget, learned, cancelled, calls>>

\* An end of file before the body is over looks like the end of the body.  Of a
\* 200 without a length (chunked, or coded) the transport raises instead.
AtEnd == written = Body \/ cancelled \/ reply.status = "206" \/ reply.sized

Short == ContentLength # 0 /\ written < ContentLength

Incomplete == IF known # 0 THEN offset + written < known
              ELSE written = 0 \/ (reply.status = "206" /\ item = Whole)

StopMidBody ==
  /\ pc = "reading" /\ cancelled /\ (ContentLength = 0 \/ Short)
  /\ pc' = "stopped"
  /\ reply' = NoReply
  /\ UNCHANGED <<disk, place, budget, learned, cancelled, calls>>

BodyDone == pc = "reading" /\ AtEnd /\ ~(cancelled /\ (ContentLength = 0 \/ Short))

ReadShort ==
  /\ BodyDone
  /\ Short \/ (Incomplete /\ offset + written <= from)
  /\ pc' = "broken"
  /\ reply' = NoReply
  /\ UNCHANGED <<disk, place, budget, learned, cancelled, calls>>

\* Mutant: no look at whether the response brought anything.
ContinueAnyway ==
  /\ BodyDone /\ ~Short /\ Incomplete
  /\ offset' = offset + written
  /\ high' = IF offset' > high THEN offset' ELSE high
  /\ attempts' = IF offset' > high THEN 1 ELSE attempts
  /\ pc' = "try"
  /\ reply' = NoReply
  /\ UNCHANGED <<disk, from, secured, written, resumes, learned, cancelled, calls>>

\* The response is over, the resource is not: ask for the rest.
Continue ==
  /\ BodyDone /\ ~Short /\ Incomplete /\ offset + written > from
  /\ offset' = offset + written
  /\ high' = IF offset' > high THEN offset' ELSE high
  /\ attempts' = IF offset' > high THEN 1 ELSE attempts
  /\ pc' = "try"
  /\ reply' = NoReply
  /\ UNCHANGED <<disk, from, secured, written, resumes, learned, cancelled, calls>>

Finish ==
  /\ BodyDone /\ ~Short /\ ~Incomplete
  /\ save' = tmp /\ tmp' = Missing
  /\ pc' = "done"
  /\ reply' = NoReply
  /\ UNCHANGED <<item, bared, place, budget, learned, cancelled, calls>>

-----------------------------------------------------------------------------
(* The except clause.                                                      *)

GiveUp ==
  /\ pc = "broken"
  /\ cancelled \/ attempts = MaxAttempts
  /\ pc' = IF cancelled THEN "stopped" ELSE "failed"
  /\ UNCHANGED <<disk, place, budget, learned, reply, cancelled, calls>>

\* A cut that had brought enough costs no attempt, and the next try asks for less.
Advanced == item = Whole /\ Stored(tmp) - secured >= MinProgress /\ resumes < MaxResumes

Halved == IF limit = 0 THEN Chunk ELSE IF limit \div 2 > MinChunk THEN limit \div 2 ELSE MinChunk

\* The wait between tries is part of this step: a cancellation ends it.
Retry ==
  /\ pc = "broken" /\ ~cancelled /\ attempts < MaxAttempts
  /\ offset' = Stored(tmp)
  /\ resumes' = IF Advanced THEN resumes + 1 ELSE resumes
  /\ attempts' = IF Advanced THEN 1 ELSE attempts + 1
  /\ limit' = IF Advanced THEN Halved ELSE limit
  /\ pc' = "try"
  /\ UNCHANGED <<disk, from, secured, written, high, known, reply, cancelled, calls>>

-----------------------------------------------------------------------------
\* Another track fails, the batch ends, or the user stops the program.
Cancel ==
  /\ pc \notin Ended /\ ~cancelled
  /\ cancelled' = TRUE
  /\ UNCHANGED <<disk, pc, place, budget, learned, reply, calls>>

\* The process dies: what was written since the file was opened may be lost.
Crash ==
  /\ pc \notin Ended
  /\ pc' = "idle"
  /\ IF pc = "reading"
     THEN \E n \in offset..Len(tmp) : tmp' = SubSeq(tmp, 1, n)
     ELSE UNCHANGED tmp
  /\ reply' = NoReply
  /\ UNCHANGED <<item, bared, save, place, budget, learned, cancelled, calls>>

Step ==
  \/ ClearControl \/ ClearFile \/ Stop \/ Ask
  \/ FoundComplete \/ Restart \/ Refuse \/ Open
  \/ (\E n \in 1..Size : Receive(n)) \/ Cut \/ StopMidBody \/ ReadShort \/ Continue \/ Finish
  \/ GiveUp \/ Retry

Next == Call \/ Step \/ Cancel \/ Crash

Spec == Init /\ [][Next]_vars

-----------------------------------------------------------------------------
(* What a download promises.                                               *)

\* "bare save_path = done": a file without a .!dev beside it holds exactly the
\* bytes asked for, whatever was cut, refused, misplaced, cancelled or killed.  A
\* kill between the two removals of ClearControl and ClearFile breaks it, hence ~bared.
SavedIsWhole == save # Missing /\ tmp = Missing /\ ~bared => save = Wanted

\* "bare .!dev = resumable": its size is the offset from which to resume.
PartialIsPrefix == item = Whole /\ tmp # Missing => tmp = Run(0, Len(tmp))
=============================================================================
